------------------------------ MODULE MCEventBus ------------------------------
(***************************************************************************)
(* An instance of EventBus for TLC.                                        *)
(*                                                                         *)
(* market (drop_oldest, one slot, wants everything) feeds a handler that   *)
(* publishes; orders (block, one slot) takes signals only; a broker task   *)
(* publishes beside them.                                                  *)
(***************************************************************************)
EXTENDS EventBus

MCSubs == {"market", "orders"}
MCTypes == {"Tick", "Signal"}
MCPublishers == {"broker", "strategy"}
MCWants == [s \in MCSubs |-> IF s = "orders" THEN {"Signal"} ELSE MCTypes]
MCOverflow == [s \in MCSubs |-> IF s = "orders" THEN "block" ELSE "drop_oldest"]
MCMaxSize == [s \in MCSubs |-> 1]
MCHost == [p \in MCPublishers |-> IF p = "strategy" THEN "market" ELSE "none"]
===============================================================================
