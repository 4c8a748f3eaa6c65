--------------------------- MODULE SellRetry_proofs ---------------------------
(* Theorems about SellRetry, for any number of retries and polls. *)
EXTENDS SellRetry, TLAPS

\* The order starts with nothing broadcast.
LEMMA InitInv == ASSUME Init PROVE RetryInv
BY SellRetryAssumption DEF Init, RetryInv, TypeOK, BroadcastInOrder, SeenWasExecuted,
   SellsSomething, AnsweredOnce, Attempt

\* Giving up an attempt, in a state where its broadcast may be out.
LEMMA GiveUpKeepsInv ==
  ASSUME RetryInv, GiveUpAttempt, pc \in {"build", "send", "verify"},
         tx' = tx \/ (pc = "send" /\ tx' = [tx EXCEPT ![attempt] = "flying"]),
         dex_type' = dex_type, sells' = sells, balance' = balance,
         SOLD_TOKENS' = SOLD_TOKENS, listed' = listed, forks' = forks, executed' = executed
  PROVE  RetryInv'
<1> USE SellRetryAssumption DEF Attempt
<1>1. TypeOK' /\ (pc' = "pause" => attempt' < MaxRetries)
  BY DEF RetryInv, TypeOK, GiveUpAttempt, AnsweredOnce
<1>2. BroadcastInOrder'
  BY DEF RetryInv, TypeOK, GiveUpAttempt, BroadcastInOrder
<1>3. SeenWasExecuted'
  BY DEF RetryInv, TypeOK, SeenWasExecuted
<1>4. SellsSomething'
  BY DEF RetryInv, TypeOK, GiveUpAttempt, SellsSomething
<1>5. AnsweredOnce'
  BY DEF RetryInv, TypeOK, GiveUpAttempt, AnsweredOnce
<1> QED BY <1>1, <1>2, <1>3, <1>4, <1>5 DEF RetryInv

\* The seller keeps the invariant: it broadcasts for the current attempt only.
LEMMA SellerKeepsInv ==
  ASSUME RetryInv, SellerStep
  PROVE  RetryInv'
<1>gives. ASSUME GiveUpAttempt, Build \/ Send \/ PollEnds PROVE RetryInv'
  <2>1. CASE Build
    <3>1. CASE sells' = sells
      BY <1>gives, <2>1, <3>1, GiveUpKeepsInv DEF Build
    <3>2. CASE pc' = "send"
      BY <1>gives, <2>1, <3>2 DEF Build, GiveUpAttempt
    <3> QED BY <2>1, <3>1, <3>2 DEF Build
  <2>2. CASE Send
    <3>1. tx' = tx \/ tx' = [tx EXCEPT ![attempt] = "flying"]
      BY <2>2 DEF Send
    <3>2. /\ pc = "send"
          /\ UNCHANGED <<dex_type, sells, balance, SOLD_TOKENS, listed, forks, executed>>
      BY <2>2 DEF Send
    <3> QED BY <1>gives, <3>1, <3>2, GiveUpKeepsInv
  <2>3. CASE PollEnds
    BY <1>gives, <2>3, GiveUpKeepsInv DEF PollEnds
  <2> QED BY <1>gives, <2>1, <2>2, <2>3
<1> USE SellRetryAssumption DEF RetryInv, TypeOK, BroadcastInOrder, SeenWasExecuted,
        SellsSomething, AnsweredOnce, Attempt
<1>1. CASE ReadBalance
  BY <1>1 DEF ReadBalance
<1>2. CASE Build
  <2>1. CASE GiveUpAttempt
    BY <1>2, <1>gives, <2>1
  <2>2. ASSUME sells' = [sells EXCEPT ![attempt] = AmountToSell], pc' = "send",
               UNCHANGED <<attempt, poll, answer>>
        PROVE  RetryInv'
    <3>1. AmountToSell \in Nat /\ AmountToSell > 0
      BY DEF AmountToSell
    <3>2. TypeOK'
      BY <1>2, <2>2, <3>1 DEF Build
    <3>3. SellsSomething'
      BY <1>2, <2>2, <3>1 DEF Build
    <3> QED BY <1>2, <2>2, <3>2, <3>3 DEF Build
  <2> QED BY <1>2, <2>1, <2>2 DEF Build
<1>3. CASE Send
  <2>1. CASE GiveUpAttempt
    BY <1>3, <1>gives, <2>1
  <2>2. ASSUME pc' = "verify", poll' = 1, tx' = [tx EXCEPT ![attempt] = "flying"],
               UNCHANGED <<attempt, answer>>
        PROVE  RetryInv'
    <3>1. TypeOK'
      BY <1>3, <2>2 DEF Send
    <3>2. BroadcastInOrder' /\ SeenWasExecuted'
      BY <1>3, <2>2 DEF Send
    <3> QED BY <1>3, <2>2, <3>1, <3>2 DEF Send
  <2> QED BY <1>3, <2>1, <2>2 DEF Send
<1>4. CASE PollSucceeds
  BY <1>4 DEF PollSucceeds, SeenWithoutError
<1>5. CASE PollEnds
  BY <1>5, <1>gives DEF PollEnds
<1>6. CASE PollSeesNothing
  BY <1>6 DEF PollSeesNothing, PollAgain
<1>7. CASE Retry
  BY <1>7 DEF Retry, NextAttempt
<1>8. CASE Cleanup
  BY <1>8 DEF Cleanup
<1> QED BY <1>1, <1>2, <1>3, <1>4, <1>5, <1>6, <1>7, <1>8 DEF SellerStep

\* The chain keeps the invariant: only what was broadcast lands.
LEMMA ChainKeepsInv ==
  ASSUME RetryInv, ChainStep
  PROVE  RetryInv'
<1> USE SellRetryAssumption DEF RetryInv, TypeOK, BroadcastInOrder, SeenWasExecuted,
        SellsSomething, AnsweredOnce, Attempt, retryVars
<1>1. ASSUME NEW k \in Attempt, SaleLands(k) PROVE RetryInv'
  BY <1>1 DEF SaleLands, Covered
<1>2. ASSUME NEW k \in Attempt, SaleFails(k) PROVE RetryInv'
  BY <1>2 DEF SaleFails
<1>3. ASSUME NEW k \in Attempt, SaleRooted(k) PROVE RetryInv'
  BY <1>3 DEF SaleRooted
<1>4. ASSUME NEW k \in Attempt, SaleRolledBack(k) PROVE RetryInv'
  BY <1>4 DEF SaleRolledBack
<1>5. CASE SoldByOther
  BY <1>5 DEF SoldByOther
<1> QED BY <1>1, <1>2, <1>3, <1>4, <1>5 DEF ChainStep

\* Every step, the idle one of a settled order included.
LEMMA StepKeepsInv == RetryInv /\ [Next]_vars => RetryInv'
<1>1. ASSUME RetryInv, UNCHANGED vars PROVE RetryInv'
  BY <1>1 DEF vars, retryVars, RetryInv, TypeOK, BroadcastInOrder, SeenWasExecuted,
     SellsSomething, AnsweredOnce
<1> QED BY <1>1, SellerKeepsInv, ChainKeepsInv DEF Next, Settled

\* Types, and all that the order of broadcasts, polls and answers rests on
\* (fr_execute_normal_sell_with_retry).
THEOREM RetryInvariant == Spec => []RetryInv
BY InitInv, StepKeepsInv, PTL DEF Spec

\* TypeOK holds in every reachable state.
THEOREM RetryTyping == Spec => []TypeOK
<1>1. RetryInv => TypeOK
  BY DEF RetryInv
<1> QED BY <1>1, RetryInvariant, PTL

\* fr_execute_sell says "sold" only when the last sale it broadcast was in a
\* block without an error, however the polls and the landings interleave.
THEOREM SoldIsExecuted == Spec => []SoldMeansExecuted
<1>1. RetryInv => SoldMeansExecuted
  BY DEF RetryInv, TypeOK, AnsweredOnce, BroadcastInOrder, SoldMeansExecuted, Attempt
<1> QED BY <1>1, RetryInvariant, PTL

-----------------------------------------------------------------------------
(* The seller comes to an end *)

\* What is left of an attempt, and of the attempts to come, is a number of steps.
LEMMA LeftIsNat ==
  ASSUME TypeOK
  PROVE  /\ AttemptLeft \in 1..(MaxPolls + 4)
         /\ (MaxRetries - attempt) * (MaxPolls + 3) \in Nat
         /\ StepsLeft \in Nat
<1>1. /\ MaxPolls \in Nat /\ MaxRetries - attempt \in Nat /\ poll \in 1..MaxPolls
  BY SellRetryAssumption DEF TypeOK, Attempt
<1>2. AttemptLeft \in 1..(MaxPolls + 4)
  BY <1>1 DEF AttemptLeft
<1>3. \A n, w \in Nat : n * w \in Nat
  OBVIOUS
<1>4. (MaxRetries - attempt) * (MaxPolls + 3) \in Nat
  BY <1>1, <1>3
<1> QED BY <1>2, <1>4 DEF StepsLeft

\* Within an attempt: what is left of it gets less.
LEMMA SameAttempt ==
  ASSUME TypeOK, attempt' = attempt, pc \notin {"cleanup", "done"}, pc' \notin {"cleanup", "done"},
         AttemptLeft' \in 1..(AttemptLeft - 1)
  PROVE  StepsLeft' \in 0..(StepsLeft - 1)
<1> DEFINE later == (MaxRetries - attempt) * (MaxPolls + 3)
<1>1. StepsLeft = later + AttemptLeft /\ StepsLeft' = later + AttemptLeft' /\ later \in Nat
  BY LeftIsNat DEF StepsLeft
<1>2. PICK n \in Nat, x \in Nat, y \in Nat :
        n = later /\ x = AttemptLeft /\ y = AttemptLeft' /\ y \in 1..(x - 1)
  BY <1>1, LeftIsNat
<1>3. n + y \in 0..(n + x - 1)
  BY <1>2
<1> QED BY <1>1, <1>2, <1>3

\* The last step of the loop, and of the clean-up behind it.
LEMMA LoopLeft ==
  ASSUME TypeOK, pc # "done", pc' = "done" \/ (pc' = "cleanup" /\ pc = "verify")
  PROVE  StepsLeft' \in 0..(StepsLeft - 1)
<1>1. StepsLeft \in Nat /\ StepsLeft >= 1
  BY LeftIsNat DEF StepsLeft
<1>2. CASE pc' = "done"
  BY <1>1, <1>2 DEF StepsLeft
<1>3. CASE pc' = "cleanup" /\ pc = "verify"
  <2>1. AttemptLeft >= 2
    BY <1>3, SellRetryAssumption DEF AttemptLeft, TypeOK
  <2>2. StepsLeft >= 2
    BY <1>3, <2>1, LeftIsNat DEF StepsLeft
  <2> QED BY <1>1, <1>3, <2>2 DEF StepsLeft
<1> QED BY <1>2, <1>3

\* A pause ends, and the next attempt is one of those that were left.
LEMMA AttemptFollows ==
  ASSUME TypeOK, pc = "pause" => attempt < MaxRetries, Retry
  PROVE  StepsLeft' \in 0..(StepsLeft - 1)
<1> DEFINE w == MaxPolls + 3
           n == MaxRetries - (attempt + 1)
<1>1. /\ pc = "pause" /\ pc' = "build" /\ attempt' = attempt + 1
      /\ w \in Nat /\ n \in Nat /\ MaxRetries - attempt = n + 1
  BY SellRetryAssumption DEF Retry, NextAttempt, TypeOK, Attempt
<1>2. StepsLeft = (MaxRetries - attempt) * w + 1
  BY <1>1 DEF StepsLeft, AttemptLeft
<1>3. StepsLeft' = n * w + w
  BY <1>1 DEF StepsLeft, AttemptLeft
<1> HIDE DEF n, w
<1>4. (n + 1) * w = n * w + w /\ n * w \in Nat
  BY <1>1
<1> QED BY <1>1, <1>2, <1>3, <1>4

\* The loops of fr_execute_normal_sell_with_retry and of its polls end whatever
\* fails: at most MaxRetries * (MaxPolls + 3) + 1 steps are left at the start,
\* and each step of the seller takes at least one of them.
THEOREM StepsDoRunOut == Spec => StepsRunOut
<1>1. ASSUME TypeOK, pc = "pause" => attempt < MaxRetries, SellerStep
      PROVE  StepsLeft' \in 0..(StepsLeft - 1)
  <2> USE SellRetryAssumption
  <2>0. ASSUME GiveUpAttempt, pc \in {"build", "send", "verify"}
        PROVE  StepsLeft' \in 0..(StepsLeft - 1)
    <3>1. CASE pc' = "done"
      BY <2>0, <3>1, <1>1, LoopLeft
    <3>2. CASE pc' = "pause"
      <4>1. AttemptLeft' = 1 /\ AttemptLeft \in Nat /\ AttemptLeft >= 2
        BY <2>0, <3>2, <1>1 DEF AttemptLeft, TypeOK
      <4> QED BY <1>1, <2>0, <3>2, <4>1, SameAttempt DEF GiveUpAttempt
    <3> QED BY <2>0, <3>1, <3>2 DEF GiveUpAttempt
  <2>1. CASE ReadBalance
    <3>1. CASE pc' = "done"
      BY <2>1, <3>1, <1>1, LoopLeft DEF ReadBalance
    <3>2. CASE pc' = "build"
      BY <1>1, <2>1, <3>2, SameAttempt DEF ReadBalance, AttemptLeft
    <3> QED BY <2>1, <3>1, <3>2 DEF ReadBalance
  <2>2. CASE Build
    <3>1. CASE pc' = "send" /\ attempt' = attempt
      BY <1>1, <2>2, <3>1, SameAttempt DEF Build, AttemptLeft
    <3> QED BY <2>0, <2>2, <3>1 DEF Build
  <2>3. CASE Send
    <3>1. CASE pc' = "verify" /\ poll' = 1 /\ attempt' = attempt
      BY <1>1, <2>3, <3>1, SameAttempt DEF Send, AttemptLeft
    <3> QED BY <2>0, <2>3, <3>1 DEF Send
  <2>4. CASE PollSucceeds
    BY <1>1, <2>4, LoopLeft DEF PollSucceeds
  <2>5. CASE PollEnds
    BY <2>0, <2>5 DEF PollEnds
  <2>6. CASE PollSeesNothing
    BY <1>1, <2>6, SameAttempt DEF PollSeesNothing, PollAgain, AttemptLeft, TypeOK
  <2>7. CASE Retry
    BY <1>1, <2>7, AttemptFollows
  <2>8. CASE Cleanup
    BY <1>1, <2>8, LoopLeft DEF Cleanup
  <2> QED BY <1>1, <2>1, <2>2, <2>3, <2>4, <2>5, <2>6, <2>7, <2>8 DEF SellerStep
<1>2. ChainStep => StepsLeft' = StepsLeft
  BY DEF ChainStep, SaleLands, SaleFails, SaleRooted, SaleRolledBack, SoldByOther, retryVars,
         StepsLeft, AttemptLeft
<1>3. RetryInv /\ [Next]_vars => [/\ SellerStep => StepsLeft' \in 0..(StepsLeft - 1)
                                  /\ ChainStep => StepsLeft' = StepsLeft]_vars
  BY <1>1, <1>2 DEF RetryInv
<1> QED BY <1>3, RetryInvariant, PTL DEF Spec, StepsRunOut

\* The end is an answer: fr_execute_sell never falls out of its loop without one.
DoneIsAnswered == pc \in {"cleanup", "done"} => answer # "pending"

THEOREM EndIsAnAnswer == Spec => []DoneIsAnswered
<1>1. Init => DoneIsAnswered
  BY DEF Init, DoneIsAnswered
<1>2. DoneIsAnswered /\ [Next]_vars => DoneIsAnswered'
  <2> USE DEF DoneIsAnswered
  <2>1. ASSUME DoneIsAnswered, SellerStep PROVE DoneIsAnswered'
    BY <2>1 DEF SellerStep, ReadBalance, Build, Send, PollSucceeds, PollEnds, PollSeesNothing,
                Retry, Cleanup, GiveUpAttempt
  <2>2. ASSUME DoneIsAnswered, ChainStep PROVE DoneIsAnswered'
    BY <2>2 DEF ChainStep, SaleLands, SaleFails, SaleRooted, SaleRolledBack, SoldByOther, retryVars
  <2> QED BY <2>1, <2>2 DEF Next, Settled, vars, retryVars
<1> QED BY <1>1, <1>2, PTL DEF Spec

-----------------------------------------------------------------------------
(* The retry loop implements SaleOrder *)

\* Initial states map to initial states of the order.
LEMMA InitRefines == Init => Order!Init
BY DEF Init, Order!Init

\* A step of the seller is an answer or a stutter.
LEMMA SellerRefines ==
  ASSUME RetryInv, SellerStep
  PROVE  [Order!Next]_Order!vars
<1> USE DEF Order!Next, Order!vars, Order!Answer
<1>1. CASE ReadBalance
  BY <1>1 DEF ReadBalance, RetryInv, AnsweredOnce, TypeOK
<1>2. CASE Build
  BY <1>2 DEF Build, GiveUpAttempt, RetryInv, AnsweredOnce, TypeOK
<1>3. CASE Send
  BY <1>3 DEF Send, GiveUpAttempt, RetryInv, AnsweredOnce, TypeOK
<1>4. CASE PollSucceeds
  BY <1>4 DEF PollSucceeds, SeenWithoutError, RetryInv, AnsweredOnce, SeenWasExecuted, TypeOK
<1>5. CASE PollEnds
  BY <1>5 DEF PollEnds, GiveUpAttempt, RetryInv, AnsweredOnce, TypeOK
<1>6. CASE PollSeesNothing \/ Retry \/ Cleanup
  BY <1>6 DEF PollSeesNothing, Retry, Cleanup
<1> QED BY <1>1, <1>2, <1>3, <1>4, <1>5, <1>6 DEF SellerStep

\* A step of the chain is a sale, a rollback, a sale by another or a stutter.
LEMMA ChainRefines ==
  ASSUME RetryInv, ChainStep
  PROVE  [Order!Next]_Order!vars
<1> USE DEF Order!Next, Order!vars, RetryInv, TypeOK
<1>1. ASSUME NEW k \in Attempt, SaleLands(k) PROVE Order!Sale
  BY <1>1 DEF SaleLands, Covered, Order!Sale, SellsSomething
<1>2. ASSUME NEW k \in Attempt, SaleFails(k) \/ SaleRooted(k) PROVE UNCHANGED Order!vars
  BY <1>2 DEF SaleFails, SaleRooted
<1>3. ASSUME NEW k \in Attempt, SaleRolledBack(k) PROVE Order!RollBack
  BY <1>3 DEF SaleRolledBack, Order!RollBack, SellsSomething, SeenWasExecuted
<1>4. CASE SoldByOther
  BY <1>4 DEF SoldByOther, Order!SoldByOther, retryVars
<1> QED BY <1>1, <1>2, <1>3, <1>4 DEF ChainStep

\* fr_execute_sell keeps the promise of SaleOrder for every MaxRetries: one
\* answer, and "sold" only after a sale of its own took effect.
THEOREM RetryImplementsOrder == Spec => ImplementsSaleOrder
<1>1. RetryInv /\ [Next]_vars => [Order!Next]_Order!vars
  <2>1. ASSUME UNCHANGED vars PROVE UNCHANGED Order!vars
    BY <2>1 DEF vars, retryVars, Order!vars
  <2> QED BY <2>1, SellerRefines, ChainRefines DEF Next, Settled
<1> QED BY <1>1, InitRefines, RetryInvariant, PTL DEF Spec, Order!Spec, ImplementsSaleOrder

-----------------------------------------------------------------------------
(* One sale stands, with the three attempts of the code *)

Standing(k) == tx[k] \in {"processed", "rooted"}
Taken(k) == IF Standing(k) THEN sells[k] ELSE 0

\* What the wallet has, and what a dropped block would give back to it.
Held == balance + Taken(1) + Taken(2) + Taken(3)

\* An attempt is built once, when its turn comes.
BuiltInOrder ==
  \A k \in Attempt : k > attempt \/ (k = attempt /\ pc \in {"balance", "build"}) => sells[k] = 0

\* Attempts 1 and 2 sell all there was or a unit of an empty account; attempt 3
\* may find the unit that attempt 2 took in its place missing.
WholeSales ==
  /\ sells[1] \in {0, 1, Amount} /\ (sells[1] = 1 => Amount = 1 \/ Held = 0)
  /\ sells[2] \in {0, 1, Amount}
  /\ sells[3] > 1 => sells[3] >= Amount - 1
  /\ sells[3] = 0 => Held \in {0, 1, Amount}
  /\ sells[2] = 0 /\ sells[3] = 0 => Held \in {0, Amount}
  /\ Held <= Amount

ThreeInv == RetryInv /\ BuiltInOrder /\ WholeSales

\* Every amount is a natural number, and a sale in a block is of one at least.
LEMMA Amounts ==
  ASSUME RetryInv, MaxRetries = 3
  PROVE  /\ Attempt = {1, 2, 3} /\ attempt \in {1, 2, 3} /\ Amount \in Nat \ {0}
         /\ balance \in Nat /\ Held \in Nat
         /\ \A k \in {1, 2, 3} : /\ sells[k] \in Nat /\ Taken(k) \in {0, sells[k]}
                                 /\ tx[k] = "none" => Taken(k) = 0
                                 /\ sells[k] = 0 => Taken(k) = 0
<1>1. Attempt = {1, 2, 3} /\ Amount \in Nat \ {0}
  BY SellRetryAssumption DEF Attempt
<1>2. attempt \in {1, 2, 3} /\ balance \in Nat /\ \A k \in {1, 2, 3} : sells[k] \in Nat
  BY <1>1 DEF RetryInv, TypeOK
<1>3. \A k \in {1, 2, 3} : Taken(k) \in {0, sells[k]} /\ (tx[k] = "none" => Taken(k) = 0)
  BY DEF Taken, Standing
<1>4. Taken(1) \in Nat /\ Taken(2) \in Nat /\ Taken(3) \in Nat
  BY <1>2, <1>3
<1> QED BY <1>1, <1>2, <1>3, <1>4 DEF Held

\* A step that moves nothing and builds nothing.
LEMMA NothingMoves ==
  ASSUME MaxRetries = 3, ThreeInv, RetryInv', sells' = sells, Held' = Held, BuiltInOrder'
  PROVE  ThreeInv'
<1>1. WholeSales'
  BY DEF ThreeInv, WholeSales
<1> QED BY <1>1 DEF ThreeInv

\* Attempts are built from the balance of their moment.
LEMMA BuildKeepsWhole ==
  ASSUME MaxRetries = 3, ThreeInv, pc = "build", sells' = [sells EXCEPT ![attempt] = AmountToSell],
         UNCHANGED <<tx, balance>>
  PROVE  WholeSales' /\ Held' = Held
<1>1. /\ Attempt = {1, 2, 3} /\ attempt \in {1, 2, 3} /\ Amount \in Nat \ {0}
      /\ balance \in Nat /\ Held \in Nat
      /\ \A k \in {1, 2, 3} : /\ sells[k] \in Nat /\ Taken(k) \in {0, sells[k]}
                              /\ tx[k] = "none" => Taken(k) = 0
                              /\ sells[k] = 0 => Taken(k) = 0
  BY Amounts DEF ThreeInv
<1>2. /\ tx[attempt] = "none" /\ \A k \in {1, 2, 3} : k >= attempt => sells[k] = 0
  BY <1>1 DEF ThreeInv, RetryInv, BroadcastInOrder, BuiltInOrder
<1>3. \A k \in {1, 2, 3} : Taken(k)' = Taken(k)
  BY <1>1, <1>2 DEF Taken, Standing, ThreeInv, RetryInv, TypeOK
<1>4. Held' = Held
  BY <1>3 DEF Held
<1>5. \A k \in {1, 2, 3} : sells'[k] = IF k = attempt THEN AmountToSell ELSE sells[k]
  BY <1>1 DEF ThreeInv, RetryInv, TypeOK
<1>6. AmountToSell \in Nat \ {0} /\ (AmountToSell > 1 => AmountToSell = balance)
      /\ (AmountToSell = 1 => balance <= 1)
  BY <1>1 DEF AmountToSell
<1>7. Held = balance + Taken(1) + Taken(2) + Taken(3)
  BY DEF Held
<1>8. WholeSales
  BY DEF ThreeInv
<1> DEFINE t1 == Taken(1)
           t2 == Taken(2)
           t3 == Taken(3)
           s1 == sells[1]
           s2 == sells[2]
<1>9. CASE attempt = 1
  <2>1. t1 = 0 /\ t2 = 0 /\ t3 = 0 /\ Held = balance /\ Held \in {0, Amount}
    BY <1>1, <1>2, <1>7, <1>8, <1>9 DEF WholeSales
  <2>2. sells'[1] = AmountToSell /\ sells'[2] = 0 /\ sells'[3] = 0
    BY <1>2, <1>5, <1>9
  <2> QED BY <1>1, <1>4, <1>6, <2>1, <2>2 DEF WholeSales
<1>10. CASE attempt = 2
  <2>1. t2 = 0 /\ t3 = 0 /\ Held = balance + t1 /\ Held \in {0, Amount}
    BY <1>1, <1>2, <1>7, <1>8, <1>10 DEF WholeSales
  <2>2. sells'[1] = s1 /\ sells'[2] = AmountToSell /\ sells'[3] = 0
    BY <1>2, <1>5, <1>10
  <2>3. t1 \in {0, s1} /\ s1 \in {0, 1, Amount} /\ (s1 = 1 => Amount = 1 \/ Held = 0)
    BY <1>1, <1>8 DEF WholeSales
  <2>4. AmountToSell \in {1, Amount}
    <3> HIDE DEF t1, t2, t3, s1
    <3> QED BY <1>1, <1>6, <2>1, <2>3
  <2> QED BY <1>1, <1>4, <1>8, <2>1, <2>2, <2>4 DEF WholeSales
<1>11. CASE attempt = 3
  <2>1. t3 = 0 /\ Held = balance + t1 + t2 /\ Held \in {0, 1, Amount}
    BY <1>1, <1>2, <1>7, <1>8, <1>11 DEF WholeSales
  <2>2. sells'[1] = s1 /\ sells'[2] = s2 /\ sells'[3] = AmountToSell
    BY <1>2, <1>5, <1>11
  <2>3. /\ t1 \in {0, s1} /\ s1 \in {0, 1, Amount} /\ (s1 = 1 => Amount = 1 \/ Held = 0)
        /\ t2 \in {0, s2} /\ s2 \in {0, 1, Amount}
    BY <1>1, <1>8 DEF WholeSales
  <2>4. AmountToSell > 1 => AmountToSell >= Amount - 1
    <3> HIDE DEF t1, t2, t3, s1, s2
    <3> QED BY <1>1, <1>6, <2>1, <2>3
  <2> QED BY <1>1, <1>4, <1>6, <1>8, <2>2, <2>4 DEF WholeSales
<1> QED BY <1>1, <1>4, <1>9, <1>10, <1>11

\* The seller builds one sale after the other.
LEMMA SellerKeepsThree ==
  ASSUME MaxRetries = 3, ThreeInv, SellerStep
  PROVE  ThreeInv'
<1>1. RetryInv'
  BY SellerKeepsInv DEF ThreeInv
<1>2. /\ attempt \in Attempt /\ sells \in [Attempt -> Nat] /\ tx \in [Attempt -> {"none", "flying", "processed", "rooted", "failed", "lost"}]
      /\ BuiltInOrder /\ BroadcastInOrder
  BY DEF ThreeInv, RetryInv, TypeOK
<1>3. Attempt = {1, 2, 3} /\ attempt \in {1, 2, 3}
  BY Amounts DEF ThreeInv
<1>4. BuiltInOrder'
  <2>1. CASE ReadBalance
    BY <1>2, <2>1 DEF BuiltInOrder, ReadBalance
  <2>2. CASE Build
    BY <1>2, <1>3, <2>2 DEF BuiltInOrder, Build, GiveUpAttempt
  <2>3. CASE Send
    BY <1>2, <1>3, <2>3 DEF BuiltInOrder, Send, GiveUpAttempt
  <2>4. CASE PollSucceeds \/ PollEnds \/ PollSeesNothing
    BY <1>2, <1>3, <2>4 DEF BuiltInOrder, PollSucceeds, PollEnds, PollSeesNothing, GiveUpAttempt
  <2>5. CASE Retry
    BY <1>2, <1>3, <2>5 DEF BuiltInOrder, Retry, NextAttempt
  <2>6. CASE Cleanup
    BY <1>2, <1>3, <2>6 DEF BuiltInOrder, Cleanup
  <2> QED BY <2>1, <2>2, <2>3, <2>4, <2>5, <2>6 DEF SellerStep
<1>5. CASE Build /\ sells' # sells
  <2>1. pc = "build" /\ sells' = [sells EXCEPT ![attempt] = AmountToSell] /\ UNCHANGED <<tx, balance>>
    BY <1>5 DEF Build
  <2>2. WholeSales'
    BY <2>1, BuildKeepsWhole
  <2> QED BY <1>1, <1>4, <2>2 DEF ThreeInv
<1>6. CASE ~(Build /\ sells' # sells)
  <2>1. sells' = sells /\ balance' = balance
    BY <1>6 DEF SellerStep, ReadBalance, Build, Send, PollSucceeds, PollEnds, PollSeesNothing, Retry, Cleanup
  <2>2. tx' = tx \/ (pc = "send" /\ tx' = [tx EXCEPT ![attempt] = "flying"])
    BY DEF SellerStep, ReadBalance, Build, Send, PollSucceeds, PollEnds, PollSeesNothing, Retry, Cleanup
  <2>3. \A k \in {1, 2, 3} : Standing(k)' <=> Standing(k)
    BY <1>2, <1>3, <2>2 DEF Standing, BroadcastInOrder
  <2>4. Held' = Held
    BY <2>1, <2>3 DEF Held, Taken
  <2> QED BY <1>1, <1>4, <2>1, <2>4, NothingMoves
<1> QED BY <1>5, <1>6

\* Landing and rolling back move tokens between the wallet and the sales; only a
\* sale by somebody else takes some away.
LEMMA ChainKeepsThree ==
  ASSUME MaxRetries = 3, ThreeInv, ChainStep
  PROVE  ThreeInv'
<1>1. RetryInv'
  BY ChainKeepsInv DEF ThreeInv
<1>2. /\ Attempt = {1, 2, 3} /\ attempt \in {1, 2, 3} /\ Amount \in Nat \ {0}
      /\ balance \in Nat /\ Held \in Nat
      /\ \A k \in {1, 2, 3} : /\ sells[k] \in Nat /\ Taken(k) \in {0, sells[k]}
                              /\ tx[k] = "none" => Taken(k) = 0
                              /\ sells[k] = 0 => Taken(k) = 0
  BY Amounts DEF ThreeInv
<1>3. sells' = sells /\ UNCHANGED <<attempt, pc>>
  BY DEF ChainStep, SaleLands, SaleFails, SaleRooted, SaleRolledBack, SoldByOther, retryVars
<1>4. BuiltInOrder'
  BY <1>3 DEF ThreeInv, BuiltInOrder, Attempt
<1>5. tx \in [Attempt -> {"none", "flying", "processed", "rooted", "failed", "lost"}]
  BY DEF ThreeInv, RetryInv, TypeOK
<1>6. ASSUME NEW k \in Attempt, SaleLands(k) \/ SaleFails(k) \/ SaleRooted(k) \/ SaleRolledBack(k)
      PROVE  Held' = Held
  <2>1. \A j \in {1, 2, 3} \ {k} : Taken(j)' = Taken(j)
    <3>1. \A j \in {1, 2, 3} \ {k} : tx'[j] = tx[j]
      BY <1>2, <1>5, <1>6 DEF SaleLands, SaleFails, SaleRooted, SaleRolledBack
    <3> QED BY <1>3, <3>1 DEF Taken, Standing
  <2>2. balance' \in Nat /\ balance' + Taken(k)' = balance + Taken(k)
    <3>1. CASE SaleLands(k)
      <4>1. Taken(k) = 0 /\ Taken(k)' = sells[k]
        BY <1>2, <1>3, <1>5, <3>1 DEF SaleLands, Taken, Standing
      <4> QED BY <1>2, <3>1, <4>1 DEF SaleLands, Covered
    <3>2. CASE SaleFails(k)
      <4>1. Taken(k) = 0 /\ Taken(k)' = 0
        BY <1>2, <1>3, <1>5, <3>2 DEF SaleFails, Taken, Standing
      <4> QED BY <1>2, <3>2, <4>1 DEF SaleFails
    <3>3. CASE SaleRooted(k)
      <4>1. Taken(k) = sells[k] /\ Taken(k)' = sells[k]
        BY <1>2, <1>3, <1>5, <3>3 DEF SaleRooted, Taken, Standing
      <4> QED BY <1>2, <3>3, <4>1 DEF SaleRooted
    <3>4. CASE SaleRolledBack(k)
      <4>1. Taken(k) = sells[k] /\ Taken(k)' = 0
        BY <1>2, <1>3, <1>5, <3>4 DEF SaleRolledBack, Taken, Standing
      <4> QED BY <1>2, <3>4, <4>1 DEF SaleRolledBack
    <3> QED BY <1>6, <3>1, <3>2, <3>3, <3>4
  <2>3. \A j \in {1, 2, 3} : Taken(j) \in Nat /\ Taken(j)' \in Nat
    BY <1>2, <1>3 DEF Taken
  <2> DEFINE T(j) == Taken(j)
             U(j) == Taken(j)'
  <2>4. Held' = balance' + U(1) + U(2) + U(3) /\ Held = balance + T(1) + T(2) + T(3)
    BY DEF Held
  <2>5. U(k) \in Nat /\ T(k) \in Nat /\ balance' + U(k) = balance + T(k)
        /\ \A j \in {1, 2, 3} : T(j) \in Nat /\ (j # k => U(j) = T(j))
    BY <1>2, <2>1, <2>2, <2>3
  <2> HIDE DEF T, U
  <2>6. k \in {1, 2, 3}
    BY <1>2
  <2> QED BY <1>2, <2>2, <2>4, <2>5, <2>6
<1>7. CASE SoldByOther
  <2>1. UNCHANGED <<tx, sells>> /\ balance' = 0 /\ balance > 0
    BY <1>7 DEF SoldByOther
  <2>2. \A k \in {1, 2, 3} : Taken(k)' = Taken(k)
    BY <2>1 DEF Taken, Standing
  <2> DEFINE t1 == Taken(1)
             t2 == Taken(2)
             t3 == Taken(3)
  <2>3. /\ Held' = t1 + t2 + t3 /\ Held = balance + t1 + t2 + t3
        /\ t1 \in {0, sells[1]} /\ t2 \in {0, sells[2]} /\ t3 \in {0, sells[3]}
    <3>1. t1 \in Nat /\ t2 \in Nat /\ t3 \in Nat
      BY <1>2
    <3> QED BY <1>2, <2>1, <2>2, <3>1 DEF Held
  <2>4. /\ t1 \in Nat /\ t2 \in Nat /\ t3 \in Nat
        /\ sells[1] = 0 => t1 = 0
        /\ sells[2] = 0 => t2 = 0
        /\ sells[3] = 0 => t3 = 0
    BY <1>2
  <2>5. WholeSales
    BY DEF ThreeInv
  <2> HIDE DEF t1, t2, t3
  <2>6. Held' < Held /\ Held' \in Nat /\ Held' <= Amount
    BY <1>2, <2>1, <2>3, <2>4, <2>5 DEF WholeSales
  <2>7. sells[1] = 1 => Amount = 1 \/ Held' = 0
    BY <1>2, <2>5, <2>6 DEF WholeSales
  <2>8. t1 = 0 \/ (t1 = 1 /\ Amount = 1) \/ t1 = Amount
    BY <1>2, <2>1, <2>3, <2>4, <2>5 DEF WholeSales
  <2>9. t1 = 0
    BY <1>2, <2>1, <2>3, <2>4, <2>5, <2>8 DEF WholeSales
  <2>10. t2 \in {0, 1}
    BY <1>2, <2>1, <2>3, <2>4, <2>5, <2>9 DEF WholeSales
  <2>11. sells[3] = 0 => Held' = t2
    BY <2>3, <2>4, <2>9
  <2>12. WholeSales'
    BY <1>2, <1>3, <2>4, <2>5, <2>6, <2>7, <2>10, <2>11 DEF WholeSales
  <2> QED BY <1>1, <1>4, <2>12 DEF ThreeInv
<1>8. ASSUME Held' = Held PROVE ThreeInv'
  BY <1>1, <1>3, <1>4, <1>8, NothingMoves
<1> QED BY <1>6, <1>7, <1>8 DEF ChainStep

\* With FR_MAX_RETRIES = 3 at most one sale of more than dust stands, whatever
\* the amount and however many blocks are dropped (transaction_retry.rs).
THEOREM OneSaleOfThree == ASSUME MaxRetries = 3 PROVE Spec => []OneSaleStands
<1>1. Init => ThreeInv
  <2> SUFFICES ASSUME Init PROVE ThreeInv
    OBVIOUS
  <2>1. RetryInv
    BY InitInv
  <2>2. Attempt = {1, 2, 3} /\ Amount \in Nat \ {0}
    BY <2>1, Amounts
  <2>3. sells = [k \in {1, 2, 3} |-> 0] /\ tx = [k \in {1, 2, 3} |-> "none"] /\ balance = Amount
    BY <2>2 DEF Init
  <2>4. Held = Amount
    BY <2>2, <2>3 DEF Held, Taken, Standing
  <2>5. BuiltInOrder
    BY <2>2, <2>3 DEF BuiltInOrder
  <2> QED BY <2>1, <2>2, <2>3, <2>4, <2>5 DEF ThreeInv, WholeSales
<1>2. ThreeInv /\ [Next]_vars => ThreeInv'
  <2>1. ASSUME ThreeInv, UNCHANGED vars PROVE ThreeInv'
    <3>1. RetryInv'
      BY <2>1, StepKeepsInv DEF ThreeInv
    <3>2. BuiltInOrder' /\ Held' = Held /\ sells' = sells
      BY <2>1 DEF vars, retryVars, ThreeInv, BuiltInOrder, Held, Taken, Standing
    <3> QED BY <2>1, <3>1, <3>2, NothingMoves
  <2> QED BY <2>1, SellerKeepsThree, ChainKeepsThree DEF Next, Settled
<1>3. ThreeInv => OneSaleStands
  <2> SUFFICES ASSUME ThreeInv, NEW j \in Attempt, NEW k \in Attempt, Standing(j), Standing(k),
                      sells[j] > 1, sells[k] > 1, j < k
               PROVE  FALSE
    <3>1. ASSUME NEW j \in Attempt, NEW k \in Attempt, j # k PROVE j < k \/ k < j
      BY <3>1 DEF Attempt
    <3> QED BY <3>1 DEF OneSaleStands, Standing
  <2>1. /\ Attempt = {1, 2, 3} /\ Amount \in Nat \ {0}
        /\ balance \in Nat /\ Held \in Nat
        /\ \A i \in {1, 2, 3} : sells[i] \in Nat /\ Taken(i) \in {0, sells[i]}
    BY Amounts DEF ThreeInv
  <2> DEFINE t1 == Taken(1)
             t2 == Taken(2)
             t3 == Taken(3)
             a == sells[1]
             b == sells[2]
             c == sells[3]
  <2>2. /\ t1 \in Nat /\ t2 \in Nat /\ t3 \in Nat /\ a \in Nat /\ b \in Nat /\ c \in Nat
        /\ balance + t1 + t2 + t3 <= Amount
        /\ a > 1 => a = Amount
        /\ b > 1 => b = Amount
        /\ c > 1 => c >= Amount - 1
    BY <2>1 DEF ThreeInv, WholeSales, Held
  <2>3. \/ t1 = a /\ a > 1 /\ t2 = b /\ b > 1
        \/ t1 = a /\ a > 1 /\ t3 = c /\ c > 1
        \/ t2 = b /\ b > 1 /\ t3 = c /\ c > 1
    BY <2>1 DEF Taken
  <2> HIDE DEF t1, t2, t3, a, b, c
  <2> QED BY <2>1, <2>2, <2>3
<1> QED BY <1>1, <1>2, <1>3, PTL DEF Spec

-----------------------------------------------------------------------------
(* One sale stands, however many attempts, as long as no block is dropped *)

\* What is built sells no less than there is, and what stands took it all.
WholeBalance ==
  \A k \in Attempt : sells[k] > 1 =>
    /\ sells[k] >= balance
    /\ Standing(k) => balance = 0

RootedInv == RetryInv /\ WholeBalance /\ OneSaleStands

\* The seller builds from the balance of the moment, in an attempt that has
\* nothing on the chain yet.
LEMMA SellerKeepsRooted ==
  ASSUME RootedInv, RetryInv', SellerStep
  PROVE  RootedInv'
<1> USE DEF RootedInv, RetryInv, TypeOK
<1>1. CASE UNCHANGED <<tx, sells, balance>>
  BY <1>1 DEF WholeBalance, OneSaleStands, Standing
<1>2. ASSUME Build, sells' = [sells EXCEPT ![attempt] = AmountToSell] PROVE RootedInv'
  <2>1. /\ UNCHANGED <<tx, balance>> /\ balance \in Nat /\ attempt \in Attempt
        /\ tx[attempt] = "none" /\ pc = "build"
    BY <1>2 DEF Build, BroadcastInOrder
  <2>2. \A k \in Attempt : sells'[k] = IF k = attempt THEN AmountToSell ELSE sells[k]
    BY <1>2, <2>1
  <2>3. AmountToSell > 1 => AmountToSell = balance
    BY DEF AmountToSell
  <2>4. ~ Standing(attempt)
    BY <2>1 DEF Standing
  <2>5. WholeBalance'
    BY <2>1, <2>2, <2>3, <2>4 DEF WholeBalance, Standing
  <2>6. OneSaleStands'
    BY <2>1, <2>2, <2>4 DEF OneSaleStands, Standing
  <2> QED BY <2>5, <2>6
<1>3. ASSUME Send, tx' = [tx EXCEPT ![attempt] = "flying"] PROVE RootedInv'
  BY <1>3 DEF Send, WholeBalance, OneSaleStands, Standing
<1> QED BY <1>1, <1>2, <1>3 DEF SellerStep, ReadBalance, Build, Send, PollSucceeds, PollEnds,
                                PollSeesNothing, Retry, Cleanup

\* A sale that lands finds exactly what it sells, and leaves nothing.
LEMMA ChainKeepsRooted ==
  ASSUME MaxForks = 0, RootedInv, RetryInv', ChainStep
  PROVE  RootedInv'
<1> USE DEF RootedInv, RetryInv, TypeOK
<1>1. ASSUME NEW k \in Attempt, SaleLands(k) PROVE RootedInv'
  <2>1. /\ balance \in Nat /\ sells[k] \in Nat /\ balance' = balance - sells[k] /\ sells' = sells
        /\ balance >= sells[k] /\ tx[k] = "flying" /\ tx' = [tx EXCEPT ![k] = "processed"]
    BY <1>1 DEF SaleLands, Covered
  <2>2. \A j \in Attempt : Standing(j)' <=> Standing(j) \/ j = k
    BY <2>1 DEF Standing
  <2>3. sells[k] > 1 => balance' = 0 /\ \A j \in Attempt : sells[j] > 1 => ~ Standing(j)
    BY <2>1 DEF WholeBalance
  <2>4. balance' <= balance /\ balance' >= 0 /\ \A j \in Attempt : sells[j] \in Nat
    BY <2>1
  <2>5. WholeBalance'
    BY <2>1, <2>2, <2>3, <2>4 DEF WholeBalance
  <2>6. OneSaleStands'
    <3> SUFFICES ASSUME NEW i \in Attempt, NEW j \in Attempt, sells[i] > 1, sells[j] > 1,
                        Standing(i)', Standing(j)'
                 PROVE  i = j
      BY <2>1 DEF OneSaleStands, Standing
    <3>1. CASE i # k /\ j # k
      BY <2>2, <3>1 DEF OneSaleStands, Standing
    <3>2. CASE i = k \/ j = k
      BY <2>2, <2>3, <3>2
    <3> QED BY <3>1, <3>2
  <2> QED BY <2>5, <2>6
<1>2. ASSUME NEW k \in Attempt, SaleFails(k) \/ SaleRooted(k) PROVE RootedInv'
  <2>1. UNCHANGED <<balance, sells>> /\ \A j \in Attempt : Standing(j)' <=> Standing(j)
    BY <1>2 DEF SaleFails, SaleRooted, Standing
  <2>2. OneSaleStands'
    BY <2>1 DEF OneSaleStands, Standing
  <2> QED BY <2>1, <2>2 DEF WholeBalance
<1>3. ASSUME NEW k \in Attempt PROVE ~ SaleRolledBack(k)
  BY DEF SaleRolledBack
<1>4. CASE SoldByOther
  BY <1>4 DEF SoldByOther, WholeBalance, OneSaleStands, Standing
<1> QED BY <1>1, <1>2, <1>3, <1>4 DEF ChainStep

\* Only dropped blocks could make a sale stand twice: without them, however many
\* attempts are made and however late their broadcasts land (transaction_retry.rs:45),
\* at most one sale of more than dust stands.
THEOREM OneSaleWithoutForks == ASSUME MaxForks = 0 PROVE Spec => []OneSaleStands
<1>1. Init => RootedInv
  BY InitInv DEF Init, RootedInv, WholeBalance, OneSaleStands
<1>2. RetryInv' /\ RootedInv /\ [Next]_vars => RootedInv'
  <2>1. ASSUME RootedInv, RetryInv', UNCHANGED vars PROVE RootedInv'
    BY <2>1 DEF vars, RootedInv, WholeBalance, OneSaleStands, Standing
  <2> QED BY <2>1, MaxForks = 0, SellerKeepsRooted, ChainKeepsRooted DEF Next, Settled
<1>3. RootedInv => OneSaleStands
  BY DEF RootedInv
<1> QED BY <1>1, <1>2, <1>3, RetryInvariant, PTL DEF Spec
=============================================================================
