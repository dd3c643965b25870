------------------------------ MODULE TicketLife ------------------------------
(***************************************************************************)
(* What a broker promises about a ticket: it is handed out once, waits or  *)
(* is open, its volume only shrinks while it is open, and once it is gone  *)
(* it never comes back.                                                    *)
(***************************************************************************)
EXTENDS Naturals

CONSTANTS MaxTicket

VARIABLES
  life,     \* life[t] \in {"new", "pending", "open", "gone"}
  volume    \* volume[t]: what is waiting or open under ticket t

vars == <<life, volume>>

Tickets == 1..MaxTicket

(* Only t moves on, to the given state.                                    *)
Become(t, state) ==
  /\ life' = [life EXCEPT ![t] = state]
  /\ volume' = [volume EXCEPT ![t] = volume'[t]]

(* A new ticket waits for its price, or is open at once.                   *)
Submit(t) == life[t] = "new" /\ Become(t, "pending") /\ volume'[t] \in Nat \ {0}
Open(t) == life[t] = "new" /\ Become(t, "open") /\ volume'[t] \in Nat \ {0}

(* A pending order may be resized; it fills with its whole volume.         *)
Resize(t) == life[t] = "pending" /\ Become(t, "pending") /\ volume'[t] \in Nat \ {0}
Fill(t) == life[t] = "pending" /\ Become(t, "open") /\ volume'[t] = volume[t]

(* Part of a position, or all that is left, goes.                          *)
Reduce(t) == life[t] = "open" /\ Become(t, "open") /\ volume'[t] \in 1..(volume[t] - 1)
Retire(t) == life[t] \in {"pending", "open"} /\ Become(t, "gone") /\ volume'[t] = 0

Init ==
  /\ life = [t \in Tickets |-> "new"]
  /\ volume = [t \in Tickets |-> 0]

Next == \E t \in Tickets :
  Submit(t) \/ Open(t) \/ Resize(t) \/ Fill(t) \/ Reduce(t) \/ Retire(t)

Spec == Init /\ [][Next]_vars
=============================================================================
