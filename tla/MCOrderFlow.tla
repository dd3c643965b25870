----------------------------- MODULE MCOrderFlow -----------------------------
(***************************************************************************)
(* Instances of OrderFlow for TLC: two strategies, one or two accounts.    *)
(***************************************************************************)
EXTENDS OrderFlow
===============================================================================
