------------------------------ MODULE SellRetry ------------------------------
(***************************************************************************)
(* A standard sale with retries: fr_execute_sell (sniper-bot.rs) and the   *)
(* loop of transaction_retry.rs below it.  Up to FR_MAX_RETRIES times a    *)
(* sale of the whole balance is built, broadcast and polled for; the first *)
(* one that a poll sees without an error ends the loop with success.       *)
(*                                                                         *)
(* Each broadcast is an actor of its own: it may land late, land in a      *)
(* block that is dropped, fail on the chain, or never be seen, while the   *)
(* loop is already building the next one.  Both RPC clients are built with *)
(* CommitmentConfig::processed(), and a poll takes a status of any         *)
(* commitment, so what they report may be rolled back.                     *)
(***************************************************************************)
EXTENDS Integers, FiniteSets

CONSTANTS
  MaxRetries,             \* FR_MAX_RETRIES (3 in the code)
  MaxPolls,               \* polls per broadcast (5 in the code)
  Amount,                 \* of the token in the wallet when the order is given
  MaxForks                \* bound: blocks with one of the sales that are dropped

ASSUME SellRetryAssumption ==
  /\ MaxRetries \in Nat \ {0} /\ MaxPolls \in Nat \ {0}
  /\ Amount \in Nat \ {0}     /\ MaxForks \in Nat

VARIABLES
  dex_type,               \* protocol of the trade info fr_execute_sell builds
  pc, attempt, poll,
  tx, sells,              \* per attempt: fate of its broadcast, amount it sells
  balance,
  answer,                 \* result of fr_execute_sell
  SOLD_TOKENS, listed,    \* the counter; the token is in BOUGHT_TOKEN_LIST
  forks,
  executed                \* history: attempts whose sale was in a block

retryVars == <<dex_type, pc, attempt, poll>>
vars == <<retryVars, tx, sells, balance, answer, SOLD_TOKENS, listed, forks, executed>>

Attempt == 1..MaxRetries

TypeOK ==
  /\ dex_type \in {"PumpFun", "PumpSwap", "RaydiumLaunchpad"}
  /\ pc \in {"balance", "build", "send", "verify", "pause", "cleanup", "done"}
  /\ attempt \in Attempt /\ poll \in 1..MaxPolls
  /\ tx \in [Attempt -> {"none", "flying", "processed", "rooted", "failed", "lost"}]
  /\ sells \in [Attempt -> Nat]
  /\ balance \in Nat
  /\ answer \in {"pending", "sold", "failed"}
  /\ SOLD_TOKENS \in Nat /\ listed \in BOOLEAN
  /\ forks \in 0..MaxForks
  /\ executed \subseteq Attempt

Init ==
  /\ dex_type \in {"PumpFun", "PumpSwap", "RaydiumLaunchpad"}
  /\ pc = "balance" /\ attempt = 1 /\ poll = 1
  /\ tx = [k \in Attempt |-> "none"]
  /\ sells = [k \in Attempt |-> 0]
  /\ balance = Amount
  /\ answer = "pending"
  /\ SOLD_TOKENS = 0 /\ listed = TRUE
  /\ forks = 0
  /\ executed = {}
-----------------------------------------------------------------------------
(* The seller *)

\* Mutant: half of the balance is sold.
HalfToSell == IF balance \div 2 > 1 THEN balance \div 2 ELSE 1

\* Pct with amount_in = 1.0: all there is, and one unit of an empty account.
AmountToSell == IF balance > 1 THEN balance ELSE 1

\* The trade info of a PumpFun or PumpSwap sale has no coin creator and no pool,
\* which their builders ask for.
Buildable == dex_type = "RaydiumLaunchpad"

\* Mutant: the attempts are not counted.
RetryUncounted == attempt' = attempt
NextAttempt == attempt' = attempt + 1

\* Mutant: one attempt more than FR_MAX_RETRIES.
GiveUpLate ==
  /\ UNCHANGED <<attempt, poll>>
  /\ IF attempt <= MaxRetries
       THEN pc' = "pause" /\ answer' = answer
       ELSE pc' = "done" /\ answer' = "failed"

\* An attempt failed: pause, or report "All sell methods failed".
GiveUpAttempt ==
  /\ UNCHANGED <<attempt, poll>>
  /\ IF attempt < MaxRetries
       THEN pc' = "pause" /\ answer' = answer
       ELSE pc' = "done" /\ answer' = "failed"

\* The balance RPC at the head of fr_execute_sell: an error or a missing
\* account is the answer.
ReadBalance ==
  /\ pc = "balance"
  /\ \/ pc' = "build" /\ answer' = answer
     \/ pc' = "done" /\ answer' = "failed"
  /\ UNCHANGED <<dex_type, attempt, poll, tx, sells, balance, SOLD_TOKENS, listed, forks, executed>>

\* fr_construct_swap_from_parsed_data reads the balance afresh; it or the
\* blockhash may fail.
Build ==
  /\ pc = "build"
  /\ \/ /\ Buildable
        /\ sells' = [sells EXCEPT ![attempt] = AmountToSell]
        /\ pc' = "send"
        /\ UNCHANGED <<attempt, poll, answer>>
     \/ sells' = sells /\ GiveUpAttempt
  /\ UNCHANGED <<dex_type, tx, balance, SOLD_TOKENS, listed, forks, executed>>

\* The relay takes the transaction and answers, takes it and its answer is
\* lost, or never got it.
Send ==
  /\ pc = "send"
  /\ \/ /\ tx' = [tx EXCEPT ![attempt] = "flying"]
        /\ pc' = "verify" /\ poll' = 1
        /\ UNCHANGED <<attempt, answer>>
     \/ /\ tx' = [tx EXCEPT ![attempt] = "flying"]
        /\ GiveUpAttempt
     \/ tx' = tx /\ GiveUpAttempt
  /\ UNCHANGED <<dex_type, sells, balance, SOLD_TOKENS, listed, forks, executed>>

\* Mutant: any status at all counts as a success.
AnyStatus == tx[attempt] \in {"processed", "rooted", "failed"}

SeenWithoutError == tx[attempt] \in {"processed", "rooted"}

\* One poll of fr_verify_transaction_with_retry sees the sale in a block: the
\* order is answered and SOLD_TOKENS counts it.
PollSucceeds ==
  /\ pc = "verify"
  /\ SeenWithoutError
  /\ answer' = "sold"
  /\ SOLD_TOKENS' = SOLD_TOKENS + 1
  /\ pc' = "cleanup"
  /\ UNCHANGED <<dex_type, attempt, poll, tx, sells, balance, listed, forks, executed>>

\* The poll sees an error status, or it was the last one, or the 30 s are over.
PollEnds ==
  /\ pc = "verify"
  /\ tx[attempt] = "failed" \/ poll = MaxPolls \/ poll > 1
  /\ GiveUpAttempt
  /\ UNCHANGED <<dex_type, tx, sells, balance, SOLD_TOKENS, listed, forks, executed>>

PollAgain == poll' = poll + 1

\* The poll's RPC fails or knows no such signature (yet).
PollSeesNothing ==
  /\ pc = "verify" /\ poll < MaxPolls
  /\ PollAgain
  /\ UNCHANGED <<dex_type, pc, attempt, tx, sells, balance, answer, SOLD_TOKENS, listed,
                 forks, executed>>

Retry ==
  /\ pc = "pause"
  /\ NextAttempt
  /\ pc' = "build"
  /\ UNCHANGED <<dex_type, poll, tx, sells, balance, answer, SOLD_TOKENS, listed, forks, executed>>

\* fr_verify_sell_transaction_and_cleanup without a signature: the token leaves
\* the registries when no more than one unit of it is left.
Cleanup ==
  /\ pc = "cleanup"
  /\ pc' = "done"
  /\ \/ listed' = listed           \* the RPC failed, or there is more of it
     \/ balance <= 1 /\ listed' = FALSE
  /\ UNCHANGED <<dex_type, attempt, poll, tx, sells, balance, answer, SOLD_TOKENS, forks, executed>>

SellerStep ==
  \/ ReadBalance \/ Build \/ Send
  \/ PollSucceeds \/ PollEnds \/ PollSeesNothing
  \/ Retry \/ Cleanup
-----------------------------------------------------------------------------
(* The chain and the other handlers *)

\* Mutant: a sale takes what it finds.
TakesWhatIsThere(k) == TRUE

\* The program refuses a sale of more than the account holds.
Covered(k) == balance >= sells[k]

SaleLands(k) ==
  /\ tx[k] = "flying"
  /\ Covered(k)
  /\ tx' = [tx EXCEPT ![k] = "processed"]
  /\ balance' = balance - sells[k]
  /\ executed' = executed \cup {k}
  /\ UNCHANGED <<retryVars, sells, answer, SOLD_TOKENS, listed, forks>>

\* Executed with an error, or never included before its blockhash expires.
SaleFails(k) ==
  /\ tx[k] = "flying"
  /\ \E fate \in {"failed", "lost"} : tx' = [tx EXCEPT ![k] = fate]
  /\ UNCHANGED <<retryVars, sells, balance, answer, SOLD_TOKENS, listed, forks, executed>>

\* The block is rooted, or dropped: the tokens are back and the transaction
\* may land again.
SaleRooted(k) ==
  /\ tx[k] = "processed"
  /\ tx' = [tx EXCEPT ![k] = "rooted"]
  /\ UNCHANGED <<retryVars, sells, balance, answer, SOLD_TOKENS, listed, forks, executed>>

SaleRolledBack(k) ==
  /\ tx[k] = "processed"
  /\ forks < MaxForks
  /\ forks' = forks + 1
  /\ tx' = [tx EXCEPT ![k] = "flying"]
  /\ balance' = balance + sells[k]
  /\ UNCHANGED <<retryVars, sells, answer, SOLD_TOKENS, listed, executed>>

\* An emergency sale of the same token by a monitor's handler.
SoldByOther ==
  /\ balance > 0
  /\ balance' = 0
  /\ UNCHANGED <<retryVars, tx, sells, answer, SOLD_TOKENS, listed, forks, executed>>

ChainStep ==
  \/ \E k \in Attempt : SaleLands(k) \/ SaleFails(k)
  \/ \E k \in Attempt : SaleRooted(k) \/ SaleRolledBack(k)
  \/ SoldByOther

\* The order is answered and nothing of it is open: the program goes on with
\* other things.
Settled ==
  /\ pc = "done" /\ \A k \in Attempt : tx[k] \notin {"flying", "processed"}
  /\ UNCHANGED vars

Next == SellerStep \/ ChainStep \/ Settled

Spec == Init /\ [][Next]_vars

\* The task is scheduled, and its RPCs and timers return (if only an error).
FairSpec == Spec /\ WF_vars(SellerStep)
-----------------------------------------------------------------------------
(* Properties *)

\* However many sales of the whole balance are in flight at once, at most one of
\* them for more than dust (the max(1) of an empty account) stands.
OneSaleStands ==
  \A j, k \in Attempt :
    /\ tx[j] \in {"processed", "rooted"} /\ sells[j] > 1
    /\ tx[k] \in {"processed", "rooted"} /\ sells[k] > 1
    => j = k

\* A sale reported as done was in a block without an error, and it is the last
\* one that was broadcast.
SoldMeansExecuted ==
  answer = "sold" =>
    /\ attempt \in executed
    /\ \A k \in Attempt : tx[k] # "none" => k <= attempt

\* The seller comes to an answer.
Terminates == <>(pc = "done")

\* Steps the seller still has before it, at most: those of its attempt, and of
\* every attempt to come (build, send, each poll, pause).
AttemptLeft ==
  CASE pc = "balance" -> MaxPolls + 4
    [] pc = "build"   -> MaxPolls + 3
    [] pc = "send"    -> MaxPolls + 2
    [] pc = "verify"  -> MaxPolls + 2 - poll
    [] OTHER          -> 1

StepsLeft ==
  IF pc = "done" THEN 0
  ELSE IF pc = "cleanup" THEN 1
  ELSE (MaxRetries - attempt) * (MaxPolls + 3) + AttemptLeft

\* Whatever fails, in whatever order, the nested loops of attempts and polls
\* (transaction_retry.rs:45 and 131) come nearer to their end with every step,
\* and nothing that the chain does takes them back.
StepsRunOut ==
  [][/\ SellerStep => StepsLeft' \in 0..(StepsLeft - 1)
     /\ ChainStep => StepsLeft' = StepsLeft]_vars

\* The seller's promise to its caller, for any number of retries.
Order == INSTANCE SaleOrder WITH tookEffect <- executed # {}
ImplementsSaleOrder == Order!Spec
-----------------------------------------------------------------------------
(* The inductive invariant behind SoldMeansExecuted *)

\* Nothing is broadcast for the attempts to come, what a poll may see was in a
\* block, and the attempt that ended the loop is the last.
BroadcastInOrder ==
  \A k \in Attempt : k > attempt \/ (k = attempt /\ pc \in {"balance", "build", "send"})
    => tx[k] = "none"

SeenWasExecuted == \A k \in Attempt : tx[k] \in {"processed", "rooted"} => k \in executed

\* What is broadcast is a sale of at least one unit.
SellsSomething ==
  \A k \in Attempt : tx[k] # "none" \/ (k = attempt /\ pc = "send") => sells[k] > 0

AnsweredOnce ==
  /\ answer = "sold" => attempt \in executed /\ pc \in {"cleanup", "done"}
  /\ answer = "failed" => pc = "done"

RetryInv ==
  /\ TypeOK
  /\ pc = "pause" => attempt < MaxRetries
  /\ BroadcastInOrder
  /\ SeenWasExecuted
  /\ SellsSomething
  /\ AnsweredOnce
=============================================================================
