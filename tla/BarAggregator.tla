----------------------------- MODULE BarAggregator -----------------------------
(***************************************************************************)
(* brokers/bar_aggregator.py: what one tick does to the bar of one feed.   *)
(*                                                                         *)
(* A bar is the period it opened and the set of ticks folded into it; its  *)
(* open, high, low, close and volume are functions of those.  Ticks are    *)
(* numbered in the order the market made them, and Period(tf, n) is the    *)
(* number of the period of timeframe tf that tick n lies in.               *)
(***************************************************************************)
EXTENDS Naturals

CONSTANTS
  TicksPer     \* TicksPer[tf]: ticks in one period of timeframe tf

(* _bar_open_time(): the time of a tick truncated to its period.           *)
Period(tf, n) == n \div TicksPer[tf]

(* An aggregator that has seen no tick: _open_time is None.                *)
NoBar == [open |-> 0, ticks |-> {}]

Opened(bar) == bar.ticks # {}

(* (mutant) A tick of the next period is still folded in.                  *)
FoldLate(tf, bar, n) ==
  IF ~Opened(bar) \/ Period(tf, n) > bar.open + 1
  THEN [open |-> Period(tf, n), ticks |-> {n}]
  ELSE [bar EXCEPT !.ticks = @ \cup {n}]

(* on_tick() and _reset(): a later period starts a new bar; anything else, *)
(* a tick of an earlier period included, is folded into the current one.   *)
Fold(tf, bar, n) ==
  IF ~Opened(bar) \/ Period(tf, n) > bar.open
  THEN [open |-> Period(tf, n), ticks |-> {n}]
  ELSE [bar EXCEPT !.ticks = @ \cup {n}]

(* _emit(): the bars that tick n closes.                                   *)
Closes(tf, bar, n) == IF Opened(bar) /\ Period(tf, n) > bar.open THEN {bar} ELSE {}
=============================================================================
