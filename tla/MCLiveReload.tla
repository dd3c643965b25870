---------------------------- MODULE MCLiveReload ----------------------------
(***************************************************************************)
(* Instances of LiveReload for TLC: two strategies that share a feed.      *)
(***************************************************************************)
EXTENDS LiveReload

OneFeed == [s \in Strategies |-> "EURUSD.M5"]

EntryOf(c, on, p, a) == [code |-> c, enabled |-> on, params |-> p, account |-> a]

(* The first strategy runs, the second is absent or was disabled.          *)
Started ==
  LET first == CHOOSE s \in Strategies : TRUE
      c == CHOOSE c \in Codes : TRUE
      p == CHOOSE p \in Params \ Invalid : TRUE
      a == Primary
  IN {[s \in Strategies |-> IF s = first THEN EntryOf(c, TRUE, p, a) ELSE other] :
        other \in {None, EntryOf(c, FALSE, p, a)}}
===============================================================================
