---------------------------- MODULE MCWorkbench ----------------------------
(***************************************************************************)
(* Files: two tick files of one symbol, one in local time, that meet on   *)
(* the second day, and two downloads of its bars, the first with a bar     *)
(* that was still forming; the range replayed begins and ends within a     *)
(* day.                                                                    *)
(* Search: two parameters of two values, two folds, and reports with a     *)
(* fall below the initial balance, without a loss, and with a position     *)
(* closed after the last sample.  Bars: every anchor hour, with the Forex  *)
(* week without and with a daily break, with a week that opens before most *)
(* anchors, and with a market that never closes.                           *)
(***************************************************************************)
EXTENDS Workbench, TLC

Row(t, v) == [time |-> t, value |-> v]

MCSource ==
  [fxA |-> [kind |-> "ticks", form |-> "epoch", rows |-> <<Row(2, "x"), Row(1, "y"), Row(2, "x")>>],
   fxB |-> [kind |-> "ticks", form |-> "local", rows |-> <<Row(2, "x"), Row(3, "z")>>],
   early |-> [kind |-> "bars", form |-> "epoch", rows |-> <<Row(2, "forming")>>],
   late |-> [kind |-> "bars", form |-> "epoch", rows |-> <<Row(1, "a"), Row(2, "closed")>>]]

MCImports == DOMAIN MCSource
MCRanges == {<<1, 3>>}

MCWorst == -1000
MCNames == <<"fast", "slow">>
MCGrid == [fast |-> <<1, 2>>, slow |-> <<3, 4>>]
MCReports ==
  {[trades |-> <<-2, 3>>, initial |-> 4, final |-> 5, curve |-> <<<<1, 2>>, <<3, 5>>>>],
   [trades |-> <<2>>, initial |-> 4, final |-> 6, curve |-> <<<<2, 6>>>>],
   [trades |-> <<2, -3>>, initial |-> 4, final |-> 3, curve |-> <<<<1, 6>>, <<2, 4>>>>]}
MCObjectives == {[metric |-> "net_pnl", dir |-> "max"], [metric |-> "max_drawdown", dir |-> "min"]}

Calendar(open, close, breaks) == [always |-> FALSE, open |-> open, close |-> close, breaks |-> breaks]
MCMarkets ==
  {[anchor |-> a] @@ c : a \in 0..23,
     c \in {Calendar(22, 22, {}), Calendar(17, 17, {21}), Calendar(10, 22, {}),
           [Calendar(0, 0, {}) EXCEPT !.always = TRUE]}}
=============================================================================
