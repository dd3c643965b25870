---------------------------- MODULE TesterBridge ----------------------------
(***************************************************************************)
(* backtest/mt5_backtester.py: a strategy driven by the MT5 strategy       *)
(* tester.  The tester's expert asks, by a message for every tick, and     *)
(* waits for the reply; the driver gives the tick to the strategy and      *)
(* answers with the oldest order the strategy has asked for by then.       *)
(*                                                                         *)
(* The driver gives way three times before it answers: the strategy's      *)
(* task may be done with the tick by then or not.                          *)
(***************************************************************************)
EXTENDS Naturals, Sequences

CONSTANTS
  MaxTicks,    \* bound: ticks of the tester
  MaxOrders    \* bound: orders the strategy asks for

ASSUME BridgeAssumption == {MaxTicks, MaxOrders} \subseteq Nat

VARIABLES
  proc,        \* the terminal: "up", "gone"
  expert,      \* the expert: "free", or "waits" for a reply
  wire,        \* the message or the reply under way
  serving,     \* _serve(): "receiving", "handling" a message, "broken", "ended"
  unread,      \* ticks the strategy's task has not had yet
  pendingOrders, \* _pending_orders
  ticks, orders,
  got          \* history: the orders the expert has been told

bridgeVars == <<proc, expert, wire, serving, unread, pendingOrders, ticks, orders, got>>

Orders == 1..MaxOrders

BridgeTypeOK ==
  /\ proc \in {"up", "gone"} /\ expert \in {"free", "waits"}
  /\ wire \in {<<>>} \cup {<<m>> : m \in {"tick", "other"}} \cup {<<"reply", o>> : o \in Orders \cup {0}}
  /\ serving \in {"receiving", "handling", "broken", "ended"}
  /\ unread \in 0..MaxTicks
  /\ pendingOrders \in Seq(Orders) /\ got \in Seq(Orders)
  /\ ticks \in 0..MaxTicks /\ orders \in 0..MaxOrders

BridgeInit ==
  /\ proc = "up" /\ expert = "free" /\ wire = <<>> /\ serving = "receiving"
  /\ unread = 0 /\ pendingOrders = <<>> /\ ticks = 0 /\ orders = 0 /\ got = <<>>
-----------------------------------------------------------------------------
(* The expert sends a tick, or another message, and waits.                 *)
ExpertSends ==
  /\ proc = "up" /\ expert = "free" /\ ticks < MaxTicks
  /\ ticks' = ticks + 1
  /\ expert' = "waits"
  /\ wire' \in {<<"tick">>, <<"other">>}
  /\ UNCHANGED <<proc, serving, unread, pendingOrders, orders, got>>

ExpertReceives ==
  /\ proc = "up" /\ expert = "waits" /\ Len(wire) = 2
  /\ got' = IF wire[2] = 0 THEN got ELSE Append(got, wire[2])
  /\ expert' = "free" /\ wire' = <<>>
  /\ UNCHANGED <<proc, serving, unread, pendingOrders, ticks, orders>>

(* The test is over, or the terminal crashes.                              *)
TerminalExits ==
  /\ proc = "up"
  /\ proc' = "gone"
  /\ UNCHANGED <<expert, wire, serving, unread, pendingOrders, ticks, orders, got>>

(* recv() in _serve(): the tick is published.                              *)
Receive ==
  /\ serving = "receiving" /\ Len(wire) = 1
  /\ unread' = IF wire = <<"tick">> THEN unread + 1 ELSE unread
  /\ serving' = "handling"
  /\ UNCHANGED <<proc, expert, wire, pendingOrders, ticks, orders, got>>

(* The second is over as the message comes: it is taken off the socket and *)
(* lost with the cancelled recv(), and the next recv() raises.             *)
ReceiveCancelled ==
  /\ serving = "receiving" /\ Len(wire) = 1
  /\ serving' = "broken" /\ wire' = <<>>
  /\ UNCHANGED <<proc, expert, unread, pendingOrders, ticks, orders, got>>

(* The strategy's task has a tick and asks for an order or for none.       *)
OnTick ==
  /\ unread > 0 /\ serving # "ended"
  /\ unread' = unread - 1
  /\ \/ UNCHANGED <<pendingOrders, orders>>
     \/ /\ orders < MaxOrders
        /\ orders' = orders + 1
        /\ pendingOrders' = Append(pendingOrders, orders + 1)
  /\ UNCHANGED <<proc, expert, wire, serving, ticks, got>>

(* (mutant) The newest order is sent, the oldest dropped.                  *)
DequeueNewest ==
  IF pendingOrders = <<>> THEN <<0, <<>>>>
  ELSE <<pendingOrders[Len(pendingOrders)], Tail(pendingOrders)>>

(* _dequeue_action(): what is sent and what is left.                       *)
DequeueAction ==
  IF pendingOrders = <<>> THEN <<0, <<>>>> ELSE <<Head(pendingOrders), Tail(pendingOrders)>>

(* _serve() answers; a message that is no tick gets no order.              *)
Answer ==
  /\ serving = "handling"
  /\ IF wire = <<"tick">>
     THEN wire' = <<"reply", DequeueAction[1]>> /\ pendingOrders' = DequeueAction[2]
     ELSE wire' = <<"reply", 0>> /\ UNCHANGED pendingOrders
  /\ serving' = "receiving"
  /\ UNCHANGED <<proc, expert, unread, ticks, orders, got>>

(* run() goes on when the terminal is gone, or fails; in either case the   *)
(* terminal is terminated.                                                 *)
Conclude ==
  /\ \/ serving = "receiving" /\ proc = "gone"
     \/ serving = "broken"
  /\ serving' = "ended" /\ proc' = "gone"
  /\ UNCHANGED <<expert, wire, unread, pendingOrders, ticks, orders, got>>

BridgeNext ==
  \/ ExpertSends \/ ExpertReceives \/ TerminalExits
  \/ Receive \/ ReceiveCancelled \/ OnTick \/ Answer \/ Conclude

(* What the driver does next: its loop runs, and recv() gives up after a   *)
(* second and is called again, so an exit of the terminal is noticed.      *)
DriverStep == Receive \/ Answer \/ Conclude
-----------------------------------------------------------------------------
(* The tester is told every order once and in the order the strategy asked *)
(* for them, late by the ticks the answers take, never to overtake; what   *)
(* it was not told is still in the queue or in the reply under way.        *)
OrdersInOrder ==
  LET underWay == IF Len(wire) = 2 /\ wire[2] # 0 THEN <<wire[2]>> ELSE <<>>
  IN  got \o underWay \o pendingOrders = [n \in 1..orders |-> n]

(* A tester that waits is answered, or the run ends; and after a terminal  *)
(* that exits it ends too.                                                 *)
NeverStuck ==
  /\ (expert = "waits") ~> (expert = "free" \/ Len(wire) = 2 \/ serving = "ended")
  /\ (proc = "gone") ~> (serving = "ended")

(* The whole contract of the bridge, with the types.                       *)
BridgeSound == [](BridgeTypeOK /\ OrdersInOrder) /\ NeverStuck
=============================================================================
