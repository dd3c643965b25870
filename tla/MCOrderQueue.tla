---------------------------- MODULE MCOrderQueue ----------------------------
(***************************************************************************)
(* Instances of OrderQueue for TLC.                                        *)
(***************************************************************************)
EXTENDS OrderQueue
===============================================================================
