----------------------------- MODULE MCSimBroker -----------------------------
(***************************************************************************)
(* A small backtest: two symbols, a rising and a falling market with and   *)
(* without spread, orders of every type, days of three hours.              *)
(***************************************************************************)
EXTENDS SimBroker

CONSTANTS eur, usd

MCSymbols == {eur, usd}
Req(symbol, side, type, volume, price, sl, tp) ==
  [symbol |-> symbol, side |-> side, type |-> type, volume |-> volume,
   price |-> price, sl |-> sl, tp |-> tp]
MCRequests == {
  Req(eur, "buy", "market", 2, None, 4, 8),
  Req(usd, "sell", "market", 1, None, 8, None),
  Req(eur, "buy", "stop", 2, 8, 4, None),
  Req(eur, "sell", "limit", 1, 8, None, 4) }
MCChanges == { [sl |-> None, tp |-> 8, price |-> 6, volume |-> 1],
               [sl |-> None, tp |-> None, price |-> None, volume |-> 0] }
MCVolumes == {1, None}
MCQuotes == {[bid |-> 4, ask |-> 6], [bid |-> 8, ask |-> 8]}
MCBars == {[high |-> 8, low |-> 6, close |-> 6], [high |-> 6, low |-> 4, close |-> 4]}
MCModels == {"spread", "volatility"}
=============================================================================
