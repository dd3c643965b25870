---------------------------- MODULE MCMarketFeed ----------------------------
(***************************************************************************)
(* Two symbols, one of them with two feeds: the second is wired while the  *)
(* symbol streams.  Periods of one and of three ticks.                     *)
(***************************************************************************)
EXTENDS MarketFeed

CONSTANTS a, b

MCSymbols == {a, b}
MCTimeframes == {"fast", "slow"}
MCTicksPer == [tf \in MCTimeframes |-> IF tf = "fast" THEN 1 ELSE 3]
MCWiring == <<<<a, "slow">>, <<a, "fast">>, <<b, "slow">>>>
MCMaxTick == [s \in MCSymbols |-> IF s = a THEN 3 ELSE 1]
MCMalformed == [s \in MCSymbols |-> IF s = b THEN {1} ELSE {}]
=============================================================================
