---------------------------- MODULE MCStrategyHost ----------------------------
(***************************************************************************)
(* Every strategy and every manager, each with the events that test it.    *)
(* One error is forgiven: a strategy that raises once goes on, one that    *)
(* raises twice within a minute is quarantined.                            *)
(***************************************************************************)
EXTENDS StrategyHost

Nothing == [managers |-> <<>>, trailing |-> FALSE, bracket |-> FALSE, pauses |-> 0,
            raises |-> 0, fails |-> 0, restarts |-> 0, bars |-> None]
Plainly(k) == [kind |-> k] @@ Nothing
Manager(type) == <<[type |-> type, distance |-> 1]>>

MCCases ==
  {Plainly(k) : k \in {"lsr", "orb", "mtc", "pairs", "ma"}}
    \cup {[Plainly(k) EXCEPT !.fails = 1] : k \in {"bbr", "prs"}}
    \cup {[Plainly("vpc") EXCEPT !.raises = 1],
          [Plainly("mbs") EXCEPT !.raises = 2],
          [Plainly("ofis") EXCEPT !.fails = 1, !.raises = 1],
          [Plainly("ofis") EXCEPT !.pauses = 1],
          [Plainly("d1h4") EXCEPT !.bars = 3, !.restarts = 1],
          [Plainly("ma") EXCEPT !.managers = Manager("time_exit"), !.fails = 1],
          [Plainly("ma") EXCEPT !.managers = Manager("oco"), !.bracket = TRUE],
          [Plainly("pairs") EXCEPT !.managers = Manager("oco")]}
    \cup {[Plainly("ma") EXCEPT !.managers = Manager(type), !.bars = 1, !.fails = 1] :
             type \in {"trailing", "break_even", "ladder"}}
=============================================================================
