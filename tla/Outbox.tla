-------------------------------- MODULE Outbox --------------------------------
(***************************************************************************)
(* What the order queue promises, without its calls, crashes and replays:  *)
(* an accepted request stays pending until it is resolved, the broker      *)
(* executes only pending requests, and a request is resolved once, as sent *)
(* only if the broker has executed it.                                     *)
(***************************************************************************)
EXTENDS Naturals

CONSTANT Orders

VARIABLES
  row,       \* the durable status of each request
  executed   \* how often the broker has executed it

outboxVars == <<row, executed>>

OutboxInit ==
  /\ row = [o \in Orders |-> "none"]
  /\ executed = [o \in Orders |-> 0]

Accept(o) ==
  /\ row[o] = "none"
  /\ row' = [row EXCEPT ![o] = "pending"]
  /\ UNCHANGED executed

Execute(o) ==
  /\ row[o] = "pending"
  /\ executed' = [executed EXCEPT ![o] = @ + 1]
  /\ UNCHANGED row

Resolve(o) ==
  /\ row[o] = "pending"
  /\ \/ row' = [row EXCEPT ![o] = "failed"]
     \/ executed[o] > 0 /\ row' = [row EXCEPT ![o] = "sent"]
  /\ UNCHANGED executed

OutboxNext == \E o \in Orders : Accept(o) \/ Execute(o) \/ Resolve(o)

OutboxSpec == OutboxInit /\ [][OutboxNext]_outboxVars
===============================================================================
