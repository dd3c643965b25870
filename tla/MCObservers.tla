----------------------------- MODULE MCObservers -----------------------------
(***************************************************************************)
(* One ticket, two channels that both want the alerts of the strategy's    *)
(* state, one of them the fills as well, a close that wins and one that    *)
(* loses, and a reload that takes the strategy out and may put it back.    *)
(***************************************************************************)
EXTENDS Observers

MCTickets == {"t"}
MCPnls == {-1, 1}
MCChannels == <<<<"order_filled", "strategy_state_changed">>, <<"strategy_state_changed">>>>
MCClasses == {"filled", "state", "drift"}
MCRegistry ==
  [name \in {"order_filled", "strategy_state_changed", "strategy_drift"} |->
     CASE name = "order_filled" -> "filled"
       [] name = "strategy_state_changed" -> "state"
       [] OTHER -> "drift"]
MCFormats(name, evt) ==
  name = "strategy_state_changed" => evt.about = <<"paused">>
=============================================================================
