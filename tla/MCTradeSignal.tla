---------------------------- MODULE MCTradeSignal ----------------------------
(* An instance of TradeSignal for TLC. *)
EXTENDS TradeSignal

\* A constant product between a dust position, whose price rounds to nothing,
\* and a drained one, where a token costs more than LAMPORTS.
MCCurve == << <<1, 1500>>, <<4, 12>>, <<12, 4>>, <<16, 3>>, <<2500, 2>> >>

\* The last: the token comes fourth.
MCBalances == { <<Token, WSOL>>, <<WSOL, WSOL, Token>>, <<WSOL, WSOL, WSOL, Token>> }
=============================================================================
