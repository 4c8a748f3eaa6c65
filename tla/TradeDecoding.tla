----------------------------- MODULE TradeDecoding -----------------------------
(***************************************************************************)
(* transaction_parser.rs: what the program reads from the event a DEX      *)
(* program emits for a trade.  The event's format is told by its length in *)
(* bytes; the mint of some formats, and the side of a PumpSwap trade, are  *)
(* guessed from the rest of the transaction.                               *)
(*                                                                         *)
(* Integers are u64 with saturating multiplication, at a smaller width.    *)
(***************************************************************************)
EXTENDS Integers, Sequences

CONSTANTS
  LAMPORTS,               \* factor of a price: 1_000_000_000 in the code
  U64MAX,                 \* largest u64
  WSOL, DefaultMint       \* the wrapped SOL mint, and the mint of no balances

ASSUME DecodingAssumption ==
  /\ LAMPORTS \in Nat \ {0} /\ U64MAX \in Nat
  /\ WSOL # DefaultMint

\* Mutant: wrapping multiplication, that of a release build.
WrappingMul(a, b) == (a * b) % (U64MAX + 1)

Saturated(n) == IF n <= U64MAX THEN n ELSE U64MAX

SaturatingMul(a, b) == Saturated(a * b)

\* SOL per token in billionths, in u64 arithmetic and in that of an f64.
Ratio(numerator, denominator) ==
  IF denominator = 0 THEN 0 ELSE SaturatingMul(numerator, LAMPORTS) \div denominator

FloatRatio(numerator, denominator) ==
  IF denominator > 0 THEN (numerator * LAMPORTS) \div denominator ELSE 0

\* The first mint of the balances that is not WSOL, if it is among three.
fr_extract_token_info(balances) ==
  LET first == SubSeq(balances, 1, IF Len(balances) < 3 THEN Len(balances) ELSE 3)
      mints == SelectSeq(first, LAMBDA mint : mint # WSOL)
  IN  CASE mints # <<>>    -> Head(mints)
        [] balances = <<>> -> DefaultMint
        [] OTHER           -> WSOL

\* Logs of any instruction of the transaction.
fr_has_buy_instruction(tx)  == "Buy" \in tx.logs
fr_has_sell_instruction(tx) == "Sell" \in tx.logs

\* Mutant: which of the two is read is swapped.
SideSwapped(tx, reverse) ==
  IF reverse THEN fr_has_buy_instruction(tx) ELSE fr_has_sell_instruction(tx)

PumpSwapSide(tx, reverse) ==
  IF reverse THEN fr_has_sell_instruction(tx) ELSE fr_has_buy_instruction(tx)

\* Every format leaves the slot to somebody else: "Will be set from transaction
\* data".  Nobody does.
Parsed(dex, mint, is_buy, price, sol, token) ==
  [dex_type |-> dex, slot |-> 0, mint |-> mint, is_buy |-> is_buy, price |-> price,
   virtual_sol_reserves |-> sol, virtual_token_reserves |-> token]

\* 368 bytes: reverse (the base mint is WSOL) is told by a price below one.
PumpSwapTrade(tx) ==
  LET base == tx.event.base
      quote == tx.event.quote
      reverse == base > 0 /\ quote > 0 /\ Ratio(base, quote) < 1
      price == IF base = 0 \/ reverse THEN 0 ELSE Ratio(quote, base)
  IN Parsed("PumpSwap", fr_extract_token_info(tx.balances), PumpSwapSide(tx, reverse),
            price, quote, base)

\* 270 bytes: reverse is told by the mint.
PumpSwapMigrationTrade(tx) ==
  LET base == tx.event.base
      quote == tx.event.quote
      mint == fr_extract_token_info(tx.balances)
      reverse == mint = WSOL
      price == IF base = 0 \/ quote = 0 THEN 0
               ELSE IF reverse THEN Ratio(base, quote) ELSE Ratio(quote, base)
  IN Parsed("PumpSwap", mint, PumpSwapSide(tx, reverse), price, quote, base)

\* 266 bytes: the event names its mint and its side.
PumpFunTrade(tx) ==
  Parsed("PumpFun", tx.event.mint, tx.event.is_buy,
         Ratio(tx.event.virtual_sol, tx.event.virtual_token),
         tx.event.virtual_sol, tx.event.virtual_token)

\* 146 bytes: virtual reserves and what was really traded so far; an f64 division
\* whose result saturates when it becomes a u64.
LaunchpadTrade(tx) ==
  LET sol == tx.event.virtual_quote + tx.event.real_quote_after
      token == tx.event.virtual_base - tx.event.real_base_after
      price == Saturated(FloatRatio(sol, token))
  IN Parsed("RaydiumLaunchpad", fr_extract_token_info(tx.balances), ~tx.event.is_sell,
            price, tx.event.virtual_quote, tx.event.virtual_base)

\* The result as a set: empty for None.  The Meteora formats (170 and 138 bytes)
\* are read like PumpFun's, whose creator field lies behind their end.
fr_interpret_transaction_data(tx) ==
  CASE tx.event.length = 368 -> {PumpSwapTrade(tx)}
    [] tx.event.length = 270 -> {PumpSwapMigrationTrade(tx)}
    [] tx.event.length = 266 -> {PumpFunTrade(tx)}
    [] tx.event.length = 146 -> {LaunchpadTrade(tx)}
    [] OTHER                 -> {}

\* Mutant: the parser's price for every DEX.
ParsedPrice(trade) == trade.price

\* fr_refresh_metrics computes the price of a PumpFun trade anew, as an f64.
MetricsPrice(trade) ==
  IF trade.dex_type = "PumpFun"
    THEN FloatRatio(trade.virtual_sol_reserves, trade.virtual_token_reserves)
    ELSE trade.price
=============================================================================
