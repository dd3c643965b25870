----------------------------- MODULE Workbench -----------------------------
(***************************************************************************)
(* What is around the live engine: the commands that start and stop it,    *)
(* the history store, the parameter search, the backtest of the web UI,    *)
(* the bridge to the tester of MT5, and the folding of bars.  No part      *)
(* shares a file or an object with another one, so a behaviour is one of   *)
(* the six, chosen at the start.                                           *)
(***************************************************************************)
EXTENDS DetachedEngine, HistoryStore, ParameterSearch, LiveBacktest, TesterBridge, SwingBars

VARIABLE subject

vars == <<subject, engineVars, historyVars, searchVars, backtestVars, bridgeVars, swingVars>>

Subjects == {"engine", "history", "search", "backtest", "tester", "bars"}

(* The parts a behaviour is not about start in some one state.             *)
Init ==
  /\ subject \in Subjects
  /\ EngineInit /\ HistoryInit /\ SearchInit /\ BacktestInit /\ BridgeInit /\ SwingInit
  /\ subject # "search" => algo = "grid" /\ rankBy = CHOOSE x \in RankBys : TRUE
  /\ subject # "bars" => mkt = CHOOSE m \in Markets : TRUE

Is(part) == subject = part /\ UNCHANGED subject

SameBut(part) ==
  /\ part # "engine" => UNCHANGED engineVars
  /\ part # "history" => UNCHANGED historyVars
  /\ part # "search" => UNCHANGED searchVars
  /\ part # "backtest" => UNCHANGED backtestVars
  /\ part # "tester" => UNCHANGED bridgeVars
  /\ part # "bars" => UNCHANGED swingVars

Next ==
  \/ Is("engine") /\ EngineNext /\ SameBut("engine")
  \/ Is("history") /\ HistoryNext /\ SameBut("history")
  \/ Is("search") /\ SearchNext /\ SameBut("search")
  \/ Is("backtest") /\ BacktestNext /\ SameBut("backtest")
  \/ Is("tester") /\ BridgeNext /\ SameBut("tester")
  \/ Is("bars") /\ SwingNext /\ SameBut("bars")

Driver == Is("tester") /\ DriverStep /\ SameBut("tester")

(* The driver of the tester is one task that runs whenever it can.         *)
Spec == Init /\ [][Next]_vars /\ WF_vars(Driver)
=============================================================================
