----------------------------- MODULE MCRiskMonitor -----------------------------
(***************************************************************************)
(* Instances of RiskMonitor for TLC: an engine of one account, and in the  *)
(* larger instance one of two accounts as well.                            *)
(***************************************************************************)
EXTENDS RiskMonitor

OneAccount == {<<"main">>}
OneOrTwo == {<<"main">>, <<"main", "second">>}
Equities == [a \in Accounts |-> 100]
Trades == {-10, 10}

(* Of the pair the starts are of interest, which one account does not      *)
(* have: one restart, one close and no failure. A failure or an early      *)
(* snapshot meets one close, and both together one stop.                   *)
IsSmall ==
  /\ Len(pool) = 1 \/ (stops <= 1 /\ closes <= 1 /\ day = 1 /\ failures = 0)
  /\ failures > 0 \/ early => closes <= 1
  /\ failures > 0 /\ early => stops <= 1
===============================================================================
