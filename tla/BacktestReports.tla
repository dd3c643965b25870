---------------------------- MODULE BacktestReports ----------------------------
(***************************************************************************)
(* What the backtest package computes from finished runs: the metrics of   *)
(* one report (backtest/reports.py), the Pareto frontier of a sweep        *)
(* (pareto.py), the portfolio of several reports (portfolio.py) and the    *)
(* bands of a Monte Carlo bootstrap (monte_carlo.py).                      *)
(*                                                                         *)
(* Money is a whole number of units, percentages are rounded down and a    *)
(* percentile is a number of hundredths.  What takes a square root (Sharpe *)
(* ratio, correlation) is left out.                                        *)
(***************************************************************************)
EXTENDS Integers, Sequences, FiniteSets, SequencesExt, FiniteSetsExt

CONSTANTS
  None,        \* a metric without a number
  Worst        \* minus infinity: below every metric

(* A report: trades is the sequence of their pnl, curve the sequence of    *)
(* <<time, equity>> samples in the order they were taken.                  *)
Equities(r) == [i \in DOMAIN r.curve |-> r.curve[i][2]]
Total(s) == FoldLeft(LAMBDA x, y : x + y, 0, s)

NetPnl(r) == r.final - r.initial
GrossProfit(r) == Total(SelectSeq(r.trades, LAMBDA p : p > 0))
GrossLoss(r) == Total(SelectSeq(r.trades, LAMBDA p : p < 0))

(* profit_factor in twelfths; to_metrics_dict() reports infinity as None.  *)
ProfitFactor(r) ==
  IF GrossLoss(r) # 0 THEN (12 * GrossProfit(r)) \div (-GrossLoss(r))
  ELSE IF GrossProfit(r) > 0 THEN None ELSE 0

(* Peak and deepest fall so far, folded along a sequence of equities.      *)
Fall(acc, eq) ==
  LET peak == IF eq > acc.peak THEN eq ELSE acc.peak
  IN  [peak |-> peak,
       money |-> Max({acc.money, peak - eq}),
       pct |-> IF peak > 0 THEN Max({acc.pct, (100 * (peak - eq)) \div peak}) ELSE acc.pct]

FallFrom(start, eqs) == FoldLeft(Fall, [peak |-> start, money |-> 0, pct |-> 0], eqs)

(* (mutant) The curve is measured from its first sample on.                *)
MaxDrawdownFirst(r) == IF r.curve = <<>> THEN 0 ELSE FallFrom(Equities(r)[1], Equities(r)).money

(* BacktestReport.max_drawdown: from the initial balance on.               *)
MaxDrawdown(r) == FallFrom(r.initial, Equities(r)).money

(* to_metrics_dict().                                                      *)
MetricsOf(r) ==
  [net_pnl |-> NetPnl(r), profit_factor |-> ProfitFactor(r),
   max_drawdown |-> MaxDrawdown(r), trades |-> Len(r.trades)]
-----------------------------------------------------------------------------
(* pareto.py: an objective is a metric and the direction that is better.   *)

Coerce(v, dir) == IF v = None THEN (IF dir = "max" THEN Worst ELSE -Worst) ELSE v

Better(a, b, obj) ==
  LET x == Coerce(a[obj.metric], obj.dir)
      y == Coerce(b[obj.metric], obj.dir)
  IN  IF obj.dir = "max" THEN x > y ELSE x < y

Dominates(a, b, objectives) ==
  /\ \A obj \in objectives : ~Better(b, a, obj)
  /\ \E obj \in objectives : Better(a, b, obj)

(* extract_pareto_frontier(): the positions of the cells (their metrics)   *)
(* that no other dominates.                                                *)
Frontier(cells, objectives) ==
  {i \in DOMAIN cells : \A j \in DOMAIN cells : ~Dominates(cells[j], cells[i], objectives)}
-----------------------------------------------------------------------------
(* portfolio.py.                                                           *)

Instants(rs) == UNION {{r.curve[i][1] : i \in DOMAIN r.curve} : r \in ToSet(rs)}

(* Forward fill: the last sample at or before t, of those at one time the  *)
(* last in the curve; the initial balance before the first one.            *)
EquityAt(r, t) ==
  LET upTo == {i \in DOMAIN r.curve : r.curve[i][1] <= t}
      newest == {i \in upTo : \A j \in upTo : r.curve[j][1] <= r.curve[i][1]}
  IN  IF upTo = {} THEN r.initial ELSE r.curve[Max(newest)][2]

(* _merge_equity_curves(): equities of all reports, summed at each instant.*)
Combined(rs) ==
  LET times == SetToSortSeq(Instants(rs), <)
  IN  [k \in DOMAIN times |-> Total([i \in DOMAIN rs |-> EquityAt(rs[i], times[k])])]

InitialOf(rs) == Total([i \in DOMAIN rs |-> rs[i].initial])

(* aggregate_portfolio(): the final balance is that of the curve.          *)
FinalOf(rs) == IF Combined(rs) = <<>> THEN InitialOf(rs) ELSE Last(Combined(rs))

(* PortfolioReport.max_drawdown_pct: from the first sample on.             *)
PortfolioDrawdown(rs) ==
  IF Combined(rs) = <<>> THEN 0 ELSE FallFrom(Combined(rs)[1], Combined(rs)).pct
-----------------------------------------------------------------------------
(* monte_carlo.py: a sample draws as many trades as there were.            *)

Samples(r) == [DOMAIN r.trades -> ToSet(r.trades)]

(* Equity after each trade of a sample.                                    *)
CurveOf(r, sample) ==
  FoldLeft(LAMBDA c, p : Append(c, p + (IF c = <<>> THEN r.initial ELSE Last(c))), <<>>, sample)

SortedSeq(s) == SortSeq(s, <)

(* _percentile(): linear between the two neighbours, in hundredths.        *)
Percentile(sorted, p) ==
  LET n == Len(sorted)
      at == p * (n - 1)
      lo == at \div 100
      hi == Min({lo + 1, n - 1})
  IN  IF p <= 0 THEN 100 * sorted[1]
      ELSE IF p >= 100 THEN 100 * sorted[n]
      ELSE sorted[lo + 1] * (100 - (at % 100)) + sorted[hi + 1] * (at % 100)

(* The bands of simulations (a sequence of samples): result and envelope.  *)
NetPnlBand(r, sims, p) ==
  Percentile(SortedSeq([i \in DOMAIN sims |-> Last(CurveOf(r, sims[i])) - r.initial]), p)

Envelope(r, sims, p) ==
  [k \in DOMAIN r.trades |->
     Percentile(SortedSeq([i \in DOMAIN sims |-> CurveOf(r, sims[i])[k]]), p)]
=============================================================================
