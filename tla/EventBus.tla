------------------------------- MODULE EventBus -------------------------------
(***************************************************************************)
(* The in-process publish/subscribe bus, core/event_bus.py.                *)
(*                                                                         *)
(* Every subscription owns a bounded asyncio.Queue and one consumer task.  *)
(* publish() walks the list of subscriptions and offers the event to each  *)
(* open one that wants it: a drop_oldest subscription evicts its oldest    *)
(* event when it is full, a block subscription makes the publisher wait.   *)
(* asyncio switches tasks only at an await, so the whole walk up to the    *)
(* next full block queue is one step.                                      *)
(*                                                                         *)
(* A publisher is a task: the scheduler, a broker, or the handler of a     *)
(* subscription (Host), which publishes while it handles an event.         *)
(***************************************************************************)
EXTENDS Naturals, Sequences, FiniteSets

CONSTANTS
  Subs,        \* subscriptions that may be made
  Types,       \* event types
  Publishers,  \* tasks that call publish()
  External,    \* the Host of a publisher that is no handler
  Wants,       \* Wants[s]: the types isinstance(event, sub.event_type) accepts
  Overflow,    \* Overflow[s] \in {"drop_oldest", "block"}
  MaxSize,     \* MaxSize[s]: asyncio.Queue(maxsize)
  Host,        \* Host[p]: the subscription whose handler p is, or External
  MaxEvents    \* bound: events published in one behaviour

ASSUME BusAssumption ==
  /\ Wants \in [Subs -> SUBSET Types]
  /\ Overflow \in [Subs -> {"drop_oldest", "block"}]
  /\ MaxSize \in [Subs -> Nat \ {0}]
  /\ External \notin Subs
  /\ Host \in [Publishers -> Subs \cup {External}]
  /\ MaxEvents \in Nat

VARIABLES
  busClosed,   \* AsyncEventBus._closed
  subList,     \* AsyncEventBus._subs, in subscription order
  open,        \* subscriptions whose `closed` flag is not set
  queue,       \* queue[s]: the events in the subscription's asyncio.Queue
  task,        \* task[s]: what the consumer task is doing
  pub,         \* pub[p]: the put() that publisher p waits in, or Idle
  nextId,      \* history: number of the next published event
  offered,     \* history: events put into queue[s], in order
  taken,       \* history: events consumer s took from its queue, in order
  returned,    \* history: the events whose publish() has returned
  joined       \* history: nextId when s subscribed

vars == <<busClosed, subList, open, queue, task, pub, nextId, offered, taken, returned, joined>>

Events == [id : 1..MaxEvents, type : Types, by : Publishers]
Idle == [waits |-> FALSE]

PutSkipsOne(s, e, i) == [waits |-> TRUE, sub |-> s, evt |-> e, next |-> i + 1]

(* The put() a publisher waits in, and where its loop goes on after it.    *)
Put(s, e, i) == [waits |-> TRUE, sub |-> s, evt |-> e, next |-> i]
Puts == [waits : {TRUE}, sub : Subs, evt : Events, next : Nat]
TaskStates == {"none", "waiting", "handling", "cancelled", "done"}

TypeOK ==
  /\ busClosed \in BOOLEAN
  /\ subList \in Seq(Subs)
  /\ open \subseteq Subs
  /\ queue \in [Subs -> Seq(Events)]
  /\ \A s \in Subs : Len(queue[s]) <= MaxSize[s]
  /\ task \in [Subs -> TaskStates]
  /\ pub \in [Publishers -> {Idle} \cup Puts]
  /\ nextId \in 1..(MaxEvents + 1)
  /\ offered \in [Subs -> Seq(Events)]
  /\ taken \in [Subs -> Seq(Events)]
  /\ returned \subseteq Events
  /\ joined \in [Subs -> Nat]

-----------------------------------------------------------------------------
Full(s) == Len(queue[s]) >= MaxSize[s]

(* The queue of s once e is put into it, evicting the oldest event if s is *)
(* full (only a drop_oldest subscription is ever offered an event then).   *)
Enqueue(s, e) == IF Full(s) THEN Append(Tail(queue[s]), e) ELSE Append(queue[s], e)

Matches(s, e) == s \in open /\ e.type \in Wants[s]

(* (mutant) The overflow policy is not looked at.                          *)
WaitsNever(e, i) == {}

(* Positions from i on at which publish() has to wait.                     *)
Waits(e, i) == {j \in i..Len(subList) : /\ Matches(subList[j], e)
                                        /\ Overflow[subList[j]] = "block"
                                        /\ Full(subList[j])}

First(S) == CHOOSE j \in S : \A k \in S : j <= k

(* The loop of publish() from position i until it has to wait or is done,  *)
(* after the put() it was waiting in (`got`) succeeded.                    *)
Walk(p, e, got, i) ==
  LET waits == Waits(e, i)
      stop == IF waits = {} THEN Len(subList) + 1 ELSE First(waits)
      reached == got \cup {s \in Subs : /\ Matches(s, e)
                                        /\ \E j \in i..(stop - 1) : subList[j] = s}
  IN /\ queue' = [s \in Subs |-> IF s \in reached THEN Enqueue(s, e) ELSE queue[s]]
     /\ offered' = [s \in Subs |-> IF s \in reached THEN Append(offered[s], e) ELSE offered[s]]
     /\ pub' = [pub EXCEPT ![p] = IF waits = {} THEN Idle ELSE Put(subList[stop], e, stop + 1)]
     /\ returned' = IF waits = {} THEN returned \cup {e} ELSE returned

-----------------------------------------------------------------------------
(* subscribe(): a new queue and a consumer task, last in the list.         *)
Subscribe(s) ==
  /\ ~busClosed
  /\ task[s] = "none"
  /\ subList' = Append(subList, s)
  /\ open' = open \cup {s}
  /\ task' = [task EXCEPT ![s] = "waiting"]
  /\ joined' = [joined EXCEPT ![s] = nextId]
  /\ UNCHANGED <<busClosed, queue, pub, nextId, offered, taken, returned>>

CanPublish(p) == Host[p] # External => task[Host[p]] = "handling"

(* publish(): a closed bus returns at once.                                *)
Publish(p, type) ==
  /\ ~busClosed
  /\ nextId <= MaxEvents
  /\ CanPublish(p)
  /\ pub[p] = Idle
  /\ Walk(p, [id |-> nextId, type |-> type, by |-> p], {}, 1)
  /\ nextId' = nextId + 1
  /\ UNCHANGED <<busClosed, subList, open, task, taken, joined>>

(* The awaited put() of a block subscription finds room: it no longer      *)
(* looks whether the subscription is still open.                           *)
PutResumes(p) ==
  /\ pub[p].waits
  /\ CanPublish(p)
  /\ ~Full(pub[p].sub)
  /\ Walk(p, pub[p].evt, {pub[p].sub}, pub[p].next)
  /\ UNCHANGED <<busClosed, subList, open, task, nextId, taken, joined>>

(* _consumer_loop: queue.get(), then the handler starts.                   *)
Take(s) ==
  /\ task[s] = "waiting"
  /\ queue[s] # <<>>
  /\ queue' = [queue EXCEPT ![s] = Tail(@)]
  /\ taken' = [taken EXCEPT ![s] = Append(@, Head(queue[s]))]
  /\ task' = [task EXCEPT ![s] = "handling"]
  /\ UNCHANGED <<busClosed, subList, open, pub, nextId, offered, returned, joined>>

(* The handler returns, or raises and the loop logs it and goes on.        *)
HandlerReturns(s) ==
  /\ task[s] = "handling"
  /\ \A p \in Publishers : Host[p] = s => pub[p] = Idle
  /\ task' = [task EXCEPT ![s] = "waiting"]
  /\ UNCHANGED <<busClosed, subList, open, queue, pub, nextId, offered, taken, returned, joined>>

(* Subscription.unsubscribe(): the flag and the cancellation; the          *)
(* subscription stays in the bus's list.                                   *)
Unsubscribe(s) ==
  /\ s \in open
  /\ open' = open \ {s}
  /\ task' = [task EXCEPT ![s] = "cancelled"]
  /\ UNCHANGED <<busClosed, subList, queue, pub, nextId, offered, taken, returned, joined>>

(* (mutant) The cancelled handler stays in its put().                      *)
CancelKeepsPut(s) ==
  /\ task[s] = "cancelled"
  /\ task' = [task EXCEPT ![s] = "done"]
  /\ UNCHANGED <<busClosed, subList, open, queue, pub, nextId, offered, taken, returned, joined>>

(* CancelledError reaches the consumer: at its queue.get(), or inside the  *)
(* handler, whose pending put() is abandoned.                              *)
CancelDelivered(s) ==
  /\ task[s] = "cancelled"
  /\ task' = [task EXCEPT ![s] = "done"]
  /\ pub' = [p \in Publishers |-> IF Host[p] = s THEN Idle ELSE pub[p]]
  /\ UNCHANGED <<busClosed, subList, open, queue, nextId, offered, taken, returned, joined>>

(* close(), up to the gather: every subscription of the list is flagged    *)
(* and cancelled.                                                          *)
Close ==
  /\ ~busClosed
  /\ busClosed' = TRUE
  /\ open' = {}
  /\ task' = [s \in Subs |-> IF s \in open THEN "cancelled" ELSE task[s]]
  /\ UNCHANGED <<subList, queue, pub, nextId, offered, taken, returned, joined>>

(* ... and after it: all consumers have ended.                             *)
CloseReturns ==
  /\ busClosed
  /\ subList # <<>>
  /\ \A s \in Subs : task[s] \in {"none", "done"}
  /\ subList' = <<>>
  /\ UNCHANGED <<busClosed, open, queue, task, pub, nextId, offered, taken, returned, joined>>

(* After close() the bus does nothing more.                                *)
Stopped == busClosed /\ subList = <<>> /\ UNCHANGED vars

Init ==
  /\ busClosed = FALSE
  /\ subList = <<>>
  /\ open = {}
  /\ queue = [s \in Subs |-> <<>>]
  /\ task = [s \in Subs |-> "none"]
  /\ pub = [p \in Publishers |-> Idle]
  /\ nextId = 1
  /\ offered = [s \in Subs |-> <<>>]
  /\ taken = [s \in Subs |-> <<>>]
  /\ returned = {}
  /\ joined = [s \in Subs |-> 0]

Next ==
  \/ \E s \in Subs : Subscribe(s)
  \/ \E p \in Publishers, type \in Types : Publish(p, type)
  \/ \E p \in Publishers : PutResumes(p)
  \/ \E s \in Subs : Take(s)
  \/ \E s \in Subs : HandlerReturns(s)
  \/ \E s \in Subs : Unsubscribe(s)
  \/ \E s \in Subs : CancelDelivered(s)
  \/ Close
  \/ CloseReturns
  \/ Stopped

Spec == Init /\ [][Next]_vars

(* The event loop runs every ready task; handlers end (they await brokers, *)
(* the database and timers, which answer).                                 *)
Fairness ==
  /\ \A s \in Subs : /\ WF_vars(Take(s))
                     /\ WF_vars(HandlerReturns(s))
                     /\ WF_vars(CancelDelivered(s))
  /\ \A p \in Publishers : WF_vars(PutResumes(p))
  /\ WF_vars(CloseReturns)

FairSpec == Spec /\ Fairness

-----------------------------------------------------------------------------
(* Properties.                                                             *)

Stream(s) == taken[s] \o queue[s]

(* A block subscription loses nothing: whatever was put into its queue was *)
(* handed to the handler or still waits, in the order it was put           *)
(* ("we never silently drop trades", event_bus.py docstring).              *)
BlockKeepsAll == \A s \in Subs : Overflow[s] = "block" => offered[s] = Stream(s)

(* A drop_oldest subscription loses an event only when MaxSize newer ones  *)
(* were put behind it: the freshest MaxSize events are never lost.         *)
FreshestKept ==
  \A s \in Subs : \A i \in DOMAIN offered[s] :
    \/ \E j \in DOMAIN Stream(s) : Stream(s)[j] = offered[s][i]
    \/ /\ Overflow[s] = "drop_oldest"
       /\ Len(offered[s]) - i >= MaxSize[s]

(* No subscriber sees two events of one publisher in the wrong order, or   *)
(* one event twice, however often the publisher had to wait on the way.    *)
PublisherOrder ==
  \A s \in Subs : \A i, j \in DOMAIN Stream(s) :
    (i < j /\ Stream(s)[i].by = Stream(s)[j].by) => Stream(s)[i].id < Stream(s)[j].id

(* An event that publish() has finished with was offered to every          *)
(* subscription that wants it, was made before publish() and is still open.*)
ReachesEverySubscriber ==
  \A s \in open, e \in returned :
    (e.type \in Wants[s] /\ joined[s] <= e.id) => \E i \in DOMAIN offered[s] : offered[s][i] = e

(* A publisher waits on a block subscription only for as long as that      *)
(* subscription is slow: it goes on, or the subscription was closed.       *)
PublishReturns ==
  \A p \in Publishers : \A s \in Subs :
    (pub[p].waits /\ pub[p].sub = s) ~> (~pub[p].waits \/ pub[p].sub # s \/ s \notin open)

(* The handler of s waits to publish to a subscription that was closed     *)
(* while its queue was full: nobody takes from that queue any more.        *)
Stuck(s) == \E p \in Publishers : Host[p] = s /\ pub[p].waits /\ pub[p].sub \notin open

(* An event in the queue of an open subscription is handled, unless it is  *)
(* evicted by newer ones, the subscription is closed, or its handler hangs *)
(* on one that was.                                                        *)
QueueDrains ==
  \A s \in Subs : (s \in open /\ queue[s] # <<>>) ~> (s \notin open \/ queue[s] = <<>> \/ Stuck(s))

(* What a subscription is handed, over its whole life: everything if it    *)
(* blocks, the freshest events if it drops, in each publisher's order.     *)
Delivered == TypeOK /\ BlockKeepsAll /\ FreshestKept /\ PublisherOrder

(* Neither side waits for ever: publishers go on, queues are emptied.      *)
Progress == PublishReturns /\ QueueDrains
===============================================================================
