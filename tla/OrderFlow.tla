------------------------------ MODULE OrderFlow ------------------------------
(***************************************************************************)
(* From a strategy's signal to the risk counters, and back from a close:   *)
(* OrderRouter (execution/order_router.py), the open-position counters of  *)
(* RiskMonitor (risk/monitor.py), their bus subscriptions, and the brokers *)
(* they talk to.                                                           *)
(*                                                                         *)
(* The processes are asyncio tasks: the consumer of the router's signal    *)
(* subscription, the consumer of its close subscription, and the consumers *)
(* risk.fill and risk.close. A task runs until it awaits something that is *)
(* not ready. `turn` is "router" while the router's signal consumer runs   *)
(* on without an await: queue.get() on a non-empty queue does not suspend, *)
(* so it handles its next signal before any other task runs.               *)
(*                                                                         *)
(* The loop runs ready tasks in the order they became ready. risk.fill     *)
(* and risk.close become ready when an event is published to them, and     *)
(* never await inside their handlers; a broker call started later returns  *)
(* after them. This is the guard `fillQ = <<>>` (`closeQ = <<>>`) on the   *)
(* replies of the broker to the task that published.                       *)
(***************************************************************************)
EXTENDS Naturals, Sequences, FiniteSets

CONSTANTS
  Strategies,
  Accounts,     \* ids of the broker pool
  Primary,      \* the pool's first account
  None,
  Cap,          \* risk.max_open_positions_per_strategy
  FetchesInfo,  \* strategies whose signals need the symbol info, which the router awaits
  QueueSize,    \* maxsize of a bus subscription
  BrokerCloses, \* positions can be closed at the broker (stop loss, take profit)
  Reroutes,     \* the configuration is reloaded with other accounts
  PendingFills, \* strategies place pending orders, which the broker fills later
  MaxAttempts,  \* ORDER_MAX_RETRIES of the MT5 broker
  MaxSignals,   \* bound: signals emitted in one behaviour
  MaxLost       \* bound: executed orders whose answer is lost

ASSUME FlowAssumption ==
  /\ Primary \in Accounts
  /\ None \notin Accounts \cup Strategies
  /\ Cap \in Nat \ {0}
  /\ QueueSize \in Nat \ {0}
  /\ FetchesInfo \subseteq Strategies
  /\ {BrokerCloses, Reroutes, PendingFills} \subseteq BOOLEAN
  /\ MaxAttempts \in Nat \ {0}
  /\ MaxSignals \in Nat
  /\ MaxLost \in Nat

VARIABLES
  account,    \* OrderRouter.strategy_accounts
  emitted,    \* number of signals emitted so far
  signals,    \* queue of the router's SignalEvent subscription
  turn,       \* "router" while the signal consumer runs on
  router,     \* where handle_signal() stands
  requests,   \* queue of the router's ClosePositionRequestEvent subscription
  closer,     \* where handle_close() stands
  fillQ,      \* queue of risk.fill
  closeQ,     \* queue of risk.close
  openCount,  \* RiskMonitor._open_positions
  owner,      \* RiskMonitor._ticket_to_strategy
  tracked,    \* tickets in the strategies' ctx.position (StrategyRunner)
  attempt,    \* of place_order()'s attempts, the one under way
  lost,       \* number of answers lost so far
  positions,  \* the positions open at the brokers whose fill was, or will be, answered
  unreported, \* the positions open at the brokers of whose fill nobody is told
  pendings,   \* pending orders waiting at the brokers
  nextTicket  \* the next ticket number of each broker

vars == <<account, emitted, signals, turn, router, requests, closer,
          fillQ, closeQ, openCount, owner, tracked, attempt, lost, positions, unreported, pendings, nextTicket>>

riskVars == <<openCount, owner, tracked>>
brokerVars == <<attempt, lost, positions, unreported, pendings, nextTicket>>

Tickets == 1..(MaxSignals + MaxLost)
Keys == Accounts \X Tickets
Position == [acct : Accounts, ticket : Tickets, sid : Strategies]

(* The key of _ticket_to_strategy: brokers number tickets per account.     *)
KeyOf(p) == <<p.acct, p.ticket>>

Of(sid) == {p \in positions : p.sid = sid}

RouterIdle == [pc |-> "idle", sid |-> None, acct |-> None, ticket |-> 0]
CloserIdle == [pc |-> "idle", sid |-> None, acct |-> None, ticket |-> 0]

(* A signal before and after the broker has given it a ticket, and a close *)
(* request, each with the account chosen for it.                           *)
Routed == [pc : {"info", "check", "placing"}, sid : Strategies, acct : Accounts, ticket : {0}]
Ticketed == [pc : {"filled", "submitted"}, sid : Strategies, acct : Accounts, ticket : Tickets]
Closes == [pc : {"reading", "closing", "closed"}, sid : Strategies, acct : Accounts, ticket : Tickets]

TypeOK ==
  /\ account \in [Strategies -> Accounts \cup {None}]
  /\ emitted \in 0..MaxSignals
  /\ signals \in Seq(Strategies)
  /\ turn \in {"free", "router"}
  /\ router \in {RouterIdle} \cup Routed \cup Ticketed
  /\ requests \in Seq([sid : Strategies, ticket : Tickets])
  /\ closer \in {CloserIdle} \cup Closes
  /\ fillQ \in Seq(Position)
  /\ closeQ \in Seq(Position)
  /\ openCount \in [Strategies -> Nat]
  /\ owner \in [Keys -> Strategies \cup {None}]
  /\ tracked \in [Strategies -> SUBSET Tickets]
  /\ attempt \in 1..MaxAttempts
  /\ lost \in 0..MaxLost
  /\ positions \subseteq Position
  /\ unreported \subseteq Position
  /\ pendings \subseteq Position
  /\ nextTicket \in [Accounts -> 1..(MaxSignals + MaxLost + 1)]
  /\ Len(signals) <= QueueSize /\ Len(requests) <= QueueSize
  /\ Len(fillQ) <= QueueSize /\ Len(closeQ) <= QueueSize

-----------------------------------------------------------------------------
(* (mutant) The queue is not bounded.                                      *)
OfferUnbounded(q, e) == Append(q, e)

(* The bus, seen from one drop_oldest subscription (see EventBus).         *)
Offer(q, e) == IF Len(q) >= QueueSize THEN Append(Tail(q), e) ELSE Append(q, e)

(* _broker_for(): the account the strategy is mapped to, else the primary. *)
BrokerFor(sid) == IF account[sid] = None THEN Primary ELSE account[sid]

-----------------------------------------------------------------------------
(* A strategy calls ctx.buy() / ctx.sell(): a SignalEvent.                 *)
Emit(sid) ==
  /\ turn = "free"
  /\ emitted < MaxSignals
  /\ emitted' = emitted + 1
  /\ signals' = Offer(signals, sid)
  /\ UNCHANGED <<account, turn, router, requests, closer, fillQ, closeQ, riskVars, brokerVars>>

(* The signal consumer takes a signal: handle_signal() picks the broker    *)
(* and awaits the symbol info when the signal needs it: a stop loss to     *)
(* size the order by, or to add to the aggregate risk.                     *)
TakeSignal ==
  /\ router.pc = "idle"
  /\ signals # <<>>
  /\ signals' = Tail(signals)
  /\ LET sid == Head(signals) IN
       /\ router' = [pc |-> IF sid \in FetchesInfo THEN "info" ELSE "check",
                     sid |-> sid, acct |-> BrokerFor(sid), ticket |-> 0]
       /\ turn' = IF sid \in FetchesInfo THEN "free" ELSE "router"
  /\ UNCHANGED <<account, emitted, requests, closer, fillQ, closeQ, riskVars, brokerVars>>

(* With no signal left the consumer suspends in queue.get().               *)
Suspend ==
  /\ turn = "router"
  /\ router.pc = "idle"
  /\ signals = <<>>
  /\ turn' = "free"
  /\ UNCHANGED <<account, emitted, signals, router, requests, closer, fillQ, closeQ, riskVars, brokerVars>>

InfoReplies ==
  /\ turn = "free"
  /\ router.pc = "info"
  /\ fillQ = <<>>
  /\ router' = [router EXCEPT !.pc = "check"]
  /\ turn' = "router"
  /\ UNCHANGED <<account, emitted, signals, requests, closer, fillQ, closeQ, riskVars, brokerVars>>

(* (mutant) The cap is off by one.                                         *)
AllowedOffByOne(sid) == openCount[sid] <= Cap

(* check_signal(), the open-position cap.                                  *)
Allowed(sid) == openCount[sid] < Cap

(* The verdict is no: a rejected DecisionEvent, and the next signal.       *)
Refuse ==
  /\ turn = "router"
  /\ router.pc = "check"
  /\ ~Allowed(router.sid)
  /\ router' = RouterIdle
  /\ UNCHANGED <<account, emitted, signals, turn, requests, closer, fillQ, closeQ, riskVars, brokerVars>>

(* Another rule refuses it: the trading filter, or a limit of the account  *)
(* or the symbol.                                                          *)
RefuseOther ==
  /\ turn = "router"
  /\ router.pc = "check"
  /\ router' = RouterIdle
  /\ UNCHANGED <<account, emitted, signals, turn, requests, closer, fillQ, closeQ, riskVars, brokerVars>>

(* The verdict is yes: the order goes to the broker, and the task awaits   *)
(* place_order(), or first the positions for the aggregate risk.           *)
Place ==
  /\ turn = "router"
  /\ router.pc = "check"
  /\ Allowed(router.sid)
  /\ router' = [router EXCEPT !.pc = "placing"]
  /\ turn' = "free"
  /\ UNCHANGED <<account, emitted, signals, requests, closer, fillQ, closeQ, riskVars, brokerVars>>

(* place_order() at the broker, one attempt after another: ...             *)
NewTicket(a) == nextTicket' = [nextTicket EXCEPT ![a] = @ + 1]
NewPosition == [acct |-> router.acct, ticket |-> nextTicket[router.acct], sid |-> router.sid]

(* ... the order is filled and the answer says so, ...                     *)
BrokerFills ==
  /\ turn = "free"
  /\ router.pc = "placing"
  /\ positions' = positions \cup {NewPosition}
  /\ NewTicket(router.acct)
  /\ router' = [router EXCEPT !.pc = "filled", !.ticket = nextTicket[router.acct]]
  /\ attempt' = 1
  /\ UNCHANGED <<account, emitted, signals, turn, requests, closer, fillQ, closeQ, riskVars,
                 lost, unreported, pendings>>

(* ... or a pending order is accepted, ...                                 *)
BrokerAccepts ==
  /\ PendingFills
  /\ turn = "free"
  /\ router.pc = "placing"
  /\ pendings' = pendings \cup {NewPosition}
  /\ NewTicket(router.acct)
  /\ router' = [router EXCEPT !.pc = "submitted", !.ticket = nextTicket[router.acct]]
  /\ attempt' = 1
  /\ UNCHANGED <<account, emitted, signals, turn, requests, closer, fillQ, closeQ, riskVars,
                 lost, positions, unreported>>

(* ... or it is refused for now (REQUOTE, REJECT, PRICE_OFF, TIMEOUT) and  *)
(* tried again, ...                                                        *)
TryAgain ==
  /\ turn = "free"
  /\ router.pc = "placing"
  /\ attempt < MaxAttempts
  /\ attempt' = attempt + 1
  /\ UNCHANGED <<account, emitted, signals, turn, router, requests, closer, fillQ, closeQ, riskVars,
                 lost, positions, unreported, pendings, nextTicket>>

(* ... or the broker executes it, or accepts it, and the answer is lost: a *)
(* TIMEOUT is tried again although it may execute twice; order_send() that *)
(* returns None, the last TIMEOUT, and an outcome that cannot be written   *)
(* to the outbox, end as a rejection or an exception.                      *)
AnswerLost ==
  /\ turn = "free"
  /\ router.pc = "placing"
  /\ lost < MaxLost
  /\ lost' = lost + 1
  /\ NewTicket(router.acct)
  /\ \/ unreported' = unreported \cup {NewPosition} /\ UNCHANGED pendings
     \/ PendingFills /\ pendings' = pendings \cup {NewPosition} /\ UNCHANGED unreported
  /\ \/ attempt < MaxAttempts /\ attempt' = attempt + 1 /\ UNCHANGED router
     \/ /\ router' = [router EXCEPT !.pc = "submitted", !.ticket = nextTicket[router.acct]]
        /\ attempt' = 1
  /\ UNCHANGED <<account, emitted, signals, turn, requests, closer, fillQ, closeQ, riskVars, positions>>

(* The account of the OrderFilledEvent is looked up after the await.       *)
FillAccount == BrokerFor(router.sid)

(* place_order() returns a fill: OrderFilledEvent, and the consumer goes   *)
(* on with its next signal.                                                *)
FillReplies ==
  /\ turn = "free"
  /\ router.pc = "filled"
  /\ fillQ = <<>>
  /\ fillQ' = Offer(fillQ, [acct |-> FillAccount, ticket |-> router.ticket, sid |-> router.sid])
  /\ router' = RouterIdle
  /\ turn' = "router"
  /\ UNCHANGED <<account, emitted, signals, requests, closer, closeQ, riskVars, brokerVars>>

(* (mutant) An exception of place_order() ends the consumer.               *)
OtherRepliesEndsLoop ==
  /\ turn = "free"
  /\ router.pc \in {"placing", "submitted"}
  /\ router' = [router EXCEPT !.pc = "ended"]
  /\ UNCHANGED <<account, emitted, signals, turn, requests, closer, fillQ, closeQ, riskVars, brokerVars>>

(* The order is over the aggregate risk, or place_order() returns          *)
(* SUBMITTED or a rejection, or raises: the risk monitor hears nothing of  *)
(* it, executed (AnswerLost) or not.                                       *)
OtherReplies ==
  /\ turn = "free"
  /\ router.pc \in {"placing", "submitted"}
  /\ fillQ = <<>>
  /\ router' = RouterIdle
  /\ attempt' = 1
  /\ turn' = "router"
  /\ UNCHANGED <<account, emitted, signals, requests, closer, fillQ, closeQ, riskVars,
                 lost, positions, unreported, pendings, nextTicket>>

-----------------------------------------------------------------------------
(* risk.fill: RiskMonitor._on_filled. The strategy's own handler, woken    *)
(* right after it, tracks the new position.                                *)
OnFilled ==
  /\ turn = "free"
  /\ fillQ # <<>>
  /\ LET e == Head(fillQ) IN
       /\ openCount' = [openCount EXCEPT ![e.sid] = @ + 1]
       /\ owner' = [owner EXCEPT ![KeyOf(e)] = e.sid]
       /\ tracked' = [tracked EXCEPT ![e.sid] = @ \cup {e.ticket}]
  /\ fillQ' = Tail(fillQ)
  /\ UNCHANGED <<account, emitted, signals, turn, router, requests, closer, closeQ, brokerVars>>

(* (mutant) The first bucket that is not empty, whoever owns the ticket.   *)
FirstBucket(e) == IF \E s \in Strategies : openCount[s] > 0
                  THEN CHOOSE s \in Strategies : openCount[s] > 0 ELSE None

(* The bucket a close is attributed to: the strategy recorded for its      *)
(* ticket at its account, or None.                                         *)
Bucket(e) == owner[KeyOf(e)]

(* risk.close: RiskMonitor._on_closed; a ticket that was never recorded    *)
(* touches no bucket.                                                      *)
OnClosed ==
  /\ turn = "free"
  /\ closeQ # <<>>
  /\ LET e == Head(closeQ)
         sid == Bucket(e)
     IN /\ openCount' = [s \in Strategies |-> IF s = sid /\ openCount[s] > 0
                                              THEN openCount[s] - 1 ELSE openCount[s]]
        /\ owner' = [owner EXCEPT ![KeyOf(e)] = None]
        /\ tracked' = [tracked EXCEPT ![e.sid] = @ \ {e.ticket}]
  /\ closeQ' = Tail(closeQ)
  /\ UNCHANGED <<account, emitted, signals, turn, router, requests, closer, fillQ, brokerVars>>

-----------------------------------------------------------------------------
(* A strategy calls ctx.close() for a position it tracks. Bound: one       *)
(* request waits at a time.                                                *)
RequestClose(sid, t) ==
  /\ turn = "free"
  /\ requests = <<>>
  /\ requests' = Offer(requests, [sid |-> sid, ticket |-> t])
  /\ UNCHANGED <<account, emitted, signals, turn, router, closer, fillQ, closeQ, riskVars, brokerVars>>

(* handle_close() picks the broker of the strategy, as it is mapped now,   *)
(* and awaits get_positions().                                             *)
TakeRequest ==
  /\ turn = "free"
  /\ closer.pc = "idle"
  /\ requests # <<>>
  /\ requests' = Tail(requests)
  /\ LET r == Head(requests) IN
       closer' = [pc |-> "reading", sid |-> r.sid, acct |-> BrokerFor(r.sid), ticket |-> r.ticket]
  /\ UNCHANGED <<account, emitted, signals, turn, router, fillQ, closeQ, riskVars, brokerVars>>

(* What get_positions() of the brokers can show.                           *)
Open == positions \cup unreported

Target == [acct |-> closer.acct, ticket |-> closer.ticket, sid |-> closer.sid]

(* (mutant) The ownership check by magic is missing.                       *)
OwnsAny == \E p \in Open : p.acct = closer.acct /\ p.ticket = closer.ticket

(* The position is there and carries the strategy's magic.                 *)
Owns == Target \in Open

PositionsReply ==
  /\ turn = "free"
  /\ closer.pc = "reading"
  /\ closer' = IF Owns THEN [closer EXCEPT !.pc = "closing"] ELSE CloserIdle
  /\ UNCHANGED <<account, emitted, signals, turn, router, requests, fillQ, closeQ, riskVars, brokerVars>>

(* broker.close_position(): the closing deal is done at the broker, ...    *)
BrokerClosesOnRequest ==
  /\ turn = "free"
  /\ closer.pc = "closing"
  /\ \E p \in Open :
       /\ p.acct = closer.acct /\ p.ticket = closer.ticket
       /\ positions' = positions \ {p} /\ unreported' = unreported \ {p}
  /\ closer' = [closer EXCEPT !.pc = "closed"]
  /\ UNCHANGED <<account, emitted, signals, turn, router, requests, fillQ, closeQ, riskVars,
                 attempt, lost, pendings, nextTicket>>

(* ... or is refused: no tick, no connection, or the position is gone.     *)
CloseFails ==
  /\ turn = "free"
  /\ closer.pc = "closing"
  /\ closer' = CloserIdle
  /\ UNCHANGED <<account, emitted, signals, turn, router, requests, fillQ, closeQ, riskVars, brokerVars>>

(* The reply: PositionClosedEvent with the broker's own account.           *)
CloseReplies ==
  /\ turn = "free"
  /\ closer.pc = "closed"
  /\ closeQ = <<>>
  /\ closeQ' = Offer(closeQ, Target)
  /\ closer' = CloserIdle
  /\ UNCHANGED <<account, emitted, signals, turn, router, requests, fillQ, riskVars, brokerVars>>

-----------------------------------------------------------------------------
(* The environment.                                                        *)

(* A stop loss or take profit is hit. MT5Broker polls ticks only: no event *)
(* is published.                                                           *)
BrokerSideClose(p) ==
  /\ BrokerCloses
  /\ turn = "free"
  /\ positions' = positions \ {p} /\ unreported' = unreported \ {p}
  /\ UNCHANGED <<account, emitted, signals, turn, router, requests, closer, fillQ, closeQ, riskVars,
                 attempt, lost, pendings, nextTicket>>

(* A pending order triggers at the broker. MT5Broker publishes no event.   *)
BrokerSideFill(p) ==
  /\ turn = "free"
  /\ pendings' = pendings \ {p}
  /\ unreported' = unreported \cup {p}
  /\ UNCHANGED <<account, emitted, signals, turn, router, requests, closer, fillQ, closeQ, riskVars,
                 attempt, lost, positions, nextTicket>>

(* change_account(), or remove() (a = None), of a configuration reload.    *)
ChangeAccount(sid, a) ==
  /\ Reroutes
  /\ turn = "free"
  /\ account' = [account EXCEPT ![sid] = a]
  /\ UNCHANGED <<emitted, signals, turn, router, requests, closer, fillQ, closeQ, riskVars, brokerVars>>

-----------------------------------------------------------------------------
Init ==
  /\ account \in [Strategies -> Accounts \cup {None}]
  /\ emitted = 0
  /\ signals = <<>>
  /\ turn = "free"
  /\ router = RouterIdle
  /\ requests = <<>>
  /\ closer = CloserIdle
  /\ fillQ = <<>>
  /\ closeQ = <<>>
  /\ openCount = [s \in Strategies |-> 0]
  /\ owner = [k \in Keys |-> None]
  /\ tracked = [s \in Strategies |-> {}]
  /\ attempt = 1
  /\ lost = 0
  /\ positions = {}
  /\ unreported = {}
  /\ pendings = {}
  /\ nextTicket = [a \in Accounts |-> 1]

RouterStep ==
  \/ TakeSignal \/ Suspend \/ InfoReplies \/ Refuse \/ RefuseOther \/ Place
  \/ BrokerFills \/ BrokerAccepts \/ TryAgain \/ AnswerLost \/ FillReplies \/ OtherReplies

CloserStep ==
  \/ TakeRequest \/ PositionsReply \/ BrokerClosesOnRequest \/ CloseFails \/ CloseReplies

RiskStep == OnFilled \/ OnClosed

Environment ==
  \/ \E sid \in Strategies : Emit(sid)
  \/ \E sid \in Strategies : \E t \in tracked[sid] : RequestClose(sid, t)
  \/ \E p \in Open : BrokerSideClose(p)
  \/ \E p \in pendings : BrokerSideFill(p)
  \/ \E sid \in Strategies, a \in Accounts \cup {None} : ChangeAccount(sid, a)

(* The bound on signals is reached and everything is handled.              *)
AllHandled ==
  /\ emitted = MaxSignals
  /\ turn = "free" /\ signals = <<>> /\ router.pc = "idle"
  /\ requests = <<>> /\ closer.pc = "idle" /\ fillQ = <<>> /\ closeQ = <<>>
  /\ UNCHANGED vars

Next == RouterStep \/ CloserStep \/ RiskStep \/ Environment \/ AllHandled

Spec == Init /\ [][Next]_vars

(* Ready tasks run, and the brokers answer.                                *)
Fairness == WF_vars(RouterStep) /\ WF_vars(CloserStep) /\ WF_vars(OnFilled) /\ WF_vars(OnClosed)

FairSpec == Spec /\ Fairness

-----------------------------------------------------------------------------
(* Properties.                                                             *)

Events(q) == {q[i] : i \in DOMAIN q}

(* The events about strategy sid in queue q.                               *)
InQueue(sid, q) == Cardinality({i \in DOMAIN q : q[i].sid = sid})

(* Fills the broker has made and risk.fill has not counted yet.            *)
Uncounted(sid) ==
  InQueue(sid, fillQ)
    + IF router.pc = "filled" /\ router.sid = sid THEN 1 ELSE 0

(* Closes the broker has made and risk.close has not counted yet.          *)
Unreleased(sid) ==
  InQueue(sid, closeQ)
    + IF closer.pc = "closed" /\ closer.sid = sid THEN 1 ELSE 0

(* The counter never shows fewer positions than are open, beyond the fills *)
(* still on their way to it and those nobody is told of: otherwise the cap *)
(* lets through too many.                                                  *)
NeverUndercounts ==
  \A sid \in Strategies :
    Cardinality(Of(sid)) + Unreleased(sid) <= openCount[sid] + Uncounted(sid)

(* A strategy's counter is the number of tickets recorded for it: the two  *)
(* handlers, woken through different queues, change both or neither.       *)
CountersExact ==
  \A sid \in Strategies : openCount[sid] = Cardinality({k \in Keys : owner[k] = sid})

(* Every position, open or just closed by the router, is recorded for its  *)
(* own strategy from the moment its fill is handled, and not before,       *)
(* although two accounts number their tickets alike (monitor.py:92-96); a  *)
(* position nobody is told of is recorded for no strategy.                 *)
OwnerMatchesPositions ==
  /\ \A p \in unreported : owner[KeyOf(p)] = None
  /\ \A p \in positions \cup Events(closeQ) \cup (IF closer.pc = "closed" THEN {Target} ELSE {}) :
       LET waitsForFill == \/ \E e \in Events(fillQ) : KeyOf(e) = KeyOf(p)
                           \/ router.pc = "filled" /\ <<router.acct, router.ticket>> = KeyOf(p)
       IN owner[KeyOf(p)] = IF waitsForFill THEN None ELSE p.sid

(* How far a strategy may exceed its cap. A signal that is handled right   *)
(* after a fill, without an await between, is checked before risk.fill     *)
(* has counted that fill; awaiting the symbol info closes the gap.         *)
Slack(sid) == IF sid \in FetchesInfo THEN 0 ELSE 1

(* Of the positions whose fill is answered a strategy has no more than its *)
(* cap and this slack. What exceeds the cap beyond it are positions nobody *)
(* was told of: executed with a lost answer, or twice by a retry, or       *)
(* pending orders the broker filled later (check_signal(), monitor.py:288).*)
CapWithSlack == \A sid \in Strategies : Cardinality(Of(sid)) <= Cap + Slack(sid)

(* Closing on behalf of a strategy never takes another strategy's position *)
(* away (ownership by magic, order_router.py handle_close), although two   *)
(* accounts number their tickets alike and accounts change under way.      *)
ClosesOwnOnly ==
  [][BrokerClosesOnRequest => \A p \in Open \ Open' : p.sid = closer.sid]_vars

(* Every signal in the queue is handled in the end.                        *)
SignalsHandled == signals # <<>> ~> signals = <<>>
(* The counters can be relied on for the cap: they are exact sums of the   *)
(* recorded tickets, tickets are recorded for their owners, and what they  *)
(* may miss is only what is on its way.                                    *)
CountersSound == CountersExact /\ OwnerMatchesPositions /\ NeverUndercounts
===============================================================================
