--------------------------- MODULE OrderFlowProofs ---------------------------
(***************************************************************************)
(* Theorems about OrderFlow, for any strategies, accounts, cap, queue size *)
(* and number of signals.                                                  *)
(***************************************************************************)
EXTENDS OrderFlow, FiniteSetTheorems, SequenceTheorems, TLAPS

(* The tickets a broker has issued and those it can still be asked for are *)
(* no more than the signals emitted and the answers lost.                  *)
Underway == IF router.pc \in {"info", "check", "placing"} THEN 1 ELSE 0
Budget == \A a \in Accounts : nextTicket[a] + Len(signals) + Underway <= emitted + 1 + lost

TypeInv == TypeOK /\ Budget

-----------------------------------------------------------------------------
(* Offering an event to a subscription keeps its queue within its bound.   *)
LEMMA OfferType ==
  ASSUME NEW S, NEW q \in Seq(S), NEW e \in S, Len(q) <= QueueSize
  PROVE  /\ Offer(q, e) \in Seq(S)
         /\ Len(Offer(q, e)) <= QueueSize
         /\ Len(Offer(q, e)) <= Len(q) + 1
         /\ q = <<>> => Offer(q, e) = <<e>>
<1> USE FlowAssumption DEF Offer
<1>1. CASE Len(q) >= QueueSize
  <2>1. q # <<>> /\ Tail(q) \in Seq(S) /\ Len(Tail(q)) = Len(q) - 1
    BY <1>1
  <2>2. Offer(q, e) = Append(Tail(q), e)
    BY <1>1
  <2>3. Append(Tail(q), e) \in Seq(S) /\ Len(Append(Tail(q), e)) = Len(Tail(q)) + 1
    BY <2>1
  <2>4. Len(Append(Tail(q), e)) = Len(q) /\ Len(q) \in Nat
    BY <2>1, <2>3
  <2> QED BY ONLY <1>1, <2>1, <2>2, <2>3, <2>4, Len(q) <= QueueSize, FlowAssumption
<1>2. CASE ~(Len(q) >= QueueSize)
  <2>1. Offer(q, e) = Append(q, e)
    BY <1>2
  <2>2. Append(q, e) \in Seq(S) /\ Len(Append(q, e)) = Len(q) + 1 /\ Len(q) \in Nat
    OBVIOUS
  <2>3. q = <<>> => Append(q, e) = <<e>>
    OBVIOUS
  <2> QED BY ONLY <1>2, <2>1, <2>2, <2>3, FlowAssumption
<1> QED BY <1>1, <1>2

(* Taking an event from a queue.                                           *)
LEMMA TakeType ==
  ASSUME NEW S, NEW q \in Seq(S), q # <<>>
  PROVE  Head(q) \in S /\ Tail(q) \in Seq(S) /\ Len(Tail(q)) = Len(q) - 1 /\ Len(q) \in Nat
OBVIOUS

(* A strategy's broker is one of the pool.                                 *)
LEMMA BrokerForType ==
  ASSUME account \in [Strategies -> Accounts \cup {None}], NEW sid \in Strategies
  PROVE  BrokerFor(sid) \in Accounts
BY FlowAssumption DEF BrokerFor

(* What the place of handle_signal() says of its fields.                   *)
LEMMA RouterFields ==
  ASSUME TypeOK
  PROVE  /\ router.pc \in {"idle", "info", "check", "placing", "filled", "submitted"}
         /\ router.pc \in {"info", "check", "placing"} => router \in Routed
         /\ router.pc \in {"filled", "submitted"} => router \in Ticketed
         /\ router.pc # "idle" => router.sid \in Strategies /\ router.acct \in Accounts
         /\ router.pc = "idle" => router = RouterIdle
<1>1. router \in {RouterIdle} \cup Routed \cup Ticketed
  BY DEF TypeOK
<1>2. CASE router = RouterIdle
  BY <1>2 DEF RouterIdle
<1>3. CASE router \in Routed
  BY <1>3 DEF Routed
<1>4. CASE router \in Ticketed
  BY <1>4 DEF Ticketed
<1> QED BY <1>1, <1>2, <1>3, <1>4

(* What the place of handle_close() says of its fields.                    *)
LEMMA CloserFields ==
  ASSUME TypeOK
  PROVE  /\ closer.pc \in {"idle", "reading", "closing", "closed"}
         /\ closer.pc # "idle" => closer \in Closes
         /\ closer.pc # "idle" => Target \in Position
         /\ closer.pc = "idle" => closer = CloserIdle
<1>1. closer \in {CloserIdle} \cup Closes
  BY DEF TypeOK
<1>2. CASE closer = CloserIdle
  BY <1>2 DEF CloserIdle
<1>3. CASE closer \in Closes
  BY <1>3 DEF Closes, Target, Position
<1> QED BY <1>1, <1>2, <1>3

(* The next place of a signal, and of a close request.                     *)
LEMMA RouterMoves ==
  /\ \A r \in Routed, s \in {"info", "check", "placing"} : [r EXCEPT !.pc = s] \in Routed
  /\ \A r \in Routed, s \in {"filled", "submitted"}, t \in Tickets :
       [r EXCEPT !.pc = s, !.ticket = t] \in Ticketed
  /\ \A c \in Closes, s \in {"reading", "closing", "closed"} : [c EXCEPT !.pc = s] \in Closes
BY DEF Routed, Ticketed, Closes

-----------------------------------------------------------------------------
(* Type correctness.                                                       *)
LEMMA TypeInit == Init => TypeInv
BY FlowAssumption
   DEF Init, TypeInv, TypeOK, Budget, Underway, RouterIdle, CloserIdle, Keys, Tickets

(* A broker that is asked for an order still has a ticket to give.         *)
LEMMA TicketIssued ==
  ASSUME TypeInv, router.pc = "placing", NewTicket(router.acct), UNCHANGED <<signals, emitted>>,
         \/ router'.pc \in {"filled", "submitted"} /\ lost' \in {lost, lost + 1}
         \/ UNCHANGED router /\ lost' = lost + 1
  PROVE  /\ nextTicket[router.acct] \in Tickets
         /\ nextTicket' \in [Accounts -> 1..(MaxSignals + MaxLost + 1)]
         /\ Budget'
<1> USE FlowAssumption DEF TypeInv
<1>1. router.acct \in Accounts /\ nextTicket[router.acct] \in 1..(MaxSignals + MaxLost + 1)
  BY RouterFields DEF TypeOK
<1>2. Len(signals) \in Nat /\ emitted \in 0..MaxSignals /\ lost \in 0..MaxLost
  BY DEF TypeOK
<1>3. nextTicket[router.acct] + Len(signals) + 1 <= emitted + 1 + lost
  BY <1>1 DEF Budget, Underway
<1>4. nextTicket[router.acct] \in Tickets
  BY <1>1, <1>2, <1>3 DEF Tickets
<1>5. nextTicket' = [nextTicket EXCEPT ![router.acct] = nextTicket[router.acct] + 1]
  BY DEF NewTicket
<1>6. nextTicket' \in [Accounts -> 1..(MaxSignals + MaxLost + 1)]
  BY <1>1, <1>4, <1>5 DEF TypeOK, Tickets
<1>7. Budget'
  <2> SUFFICES ASSUME NEW a \in Accounts
               PROVE  nextTicket'[a] + Len(signals') + Underway' <= emitted' + 1 + lost'
    BY DEF Budget
  <2>1. /\ Underway = 1
        /\ \/ Underway' = 0 /\ lost' \in {lost, lost + 1}
           \/ Underway' = 1 /\ lost' = lost + 1
    BY DEF Underway
  <2>2. nextTicket[a] \in Nat /\ nextTicket[a] + Len(signals) + 1 <= emitted + 1 + lost
    BY <2>1 DEF Budget, TypeOK
  <2>3. nextTicket'[a] <= nextTicket[a] + 1 /\ nextTicket'[a] \in Nat
    <3>1. nextTicket'[a] = IF a = router.acct THEN nextTicket[router.acct] + 1 ELSE nextTicket[a]
      BY <1>5, Zenon DEF TypeOK
    <3>2. nextTicket'[a] \in Nat
      BY <1>6
    <3>3. CASE a = router.acct
      BY <2>2, <3>1, <3>2, <3>3
    <3>4. CASE a # router.acct
      BY <2>2, <3>1, <3>2, <3>4
    <3> QED BY <3>3, <3>4
  <2>4. UNCHANGED <<signals, emitted>>
    OBVIOUS
  <2> QED BY ONLY <1>2, <2>1, <2>2, <2>3, <2>4, SMTT(30)
<1> QED BY <1>4, <1>6, <1>7

(* The order placed becomes a position of its strategy.                    *)
LEMMA NewPositionType ==
  ASSUME router \in Routed, nextTicket[router.acct] \in Tickets
  PROVE  NewPosition \in Position
BY DEF Routed, Position, NewPosition

(* What a step at the broker leaves alone keeps its type.                  *)
LEMMA QueuesKept ==
  ASSUME TypeOK, UNCHANGED <<account, emitted, signals, turn, requests, closer, fillQ, closeQ>>,
         UNCHANGED <<openCount, owner, tracked>>
  PROVE  /\ account' \in [Strategies -> Accounts \cup {None}] /\ emitted' \in 0..MaxSignals
         /\ signals' \in Seq(Strategies) /\ turn' \in {"free", "router"}
         /\ requests' \in Seq([sid : Strategies, ticket : Tickets])
         /\ closer' \in {CloserIdle} \cup Closes
         /\ fillQ' \in Seq(Position) /\ closeQ' \in Seq(Position)
         /\ openCount' \in [Strategies -> Nat] /\ owner' \in [Keys -> Strategies \cup {None}]
         /\ tracked' \in [Strategies -> SUBSET Tickets]
         /\ Len(signals') <= QueueSize /\ Len(requests') <= QueueSize
         /\ Len(fillQ') <= QueueSize /\ Len(closeQ') <= QueueSize
BY DEF TypeOK

(* The steps of handle_signal().                                           *)
LEMMA TypeRouter ==
  ASSUME TypeInv, RouterStep
  PROVE  TypeInv'
<1> USE FlowAssumption DEF TypeInv, riskVars, brokerVars
<1>1. CASE TakeSignal
  <2> DEFINE sid == Head(signals)
  <2>1. sid \in Strategies /\ Tail(signals) \in Seq(Strategies) /\ Len(Tail(signals)) = Len(signals) - 1
    BY <1>1 DEF TakeSignal, TypeOK
  <2>2. BrokerFor(sid) \in Accounts
    BY <2>1, BrokerForType DEF TypeOK
  <2>3. router' \in Routed /\ router'.pc \in {"info", "check"}
    BY <1>1, <2>1, <2>2 DEF TakeSignal, Routed
  <2>4. TypeOK'
    BY <1>1, <2>1, <2>3 DEF TakeSignal, TypeOK
  <2>5. Budget'
    BY <1>1, <2>1, <2>3 DEF TakeSignal, TypeOK, Budget, Underway
  <2> QED BY <2>4, <2>5
<1>2. CASE Suspend
  BY <1>2, SMTT(30) DEF Suspend, TypeOK, Budget, Underway
<1>3. CASE InfoReplies
  <2>1. router' \in Routed /\ router'.pc = "check"
    BY <1>3, RouterFields DEF InfoReplies, Routed
  <2> QED BY <1>3, <2>1 DEF InfoReplies, TypeOK, Budget, Underway
<1>4. CASE Refuse \/ RefuseOther
  <2>1. router' = RouterIdle /\ router.pc = "check"
    BY <1>4 DEF Refuse, RefuseOther
  <2>2. TypeOK'
    BY <1>4, <2>1 DEF Refuse, RefuseOther, TypeOK
  <2>3. Underway' = 0 /\ Underway = 1
    BY <2>1 DEF Underway, RouterIdle
  <2>4. UNCHANGED <<nextTicket, signals, emitted, lost>>
    BY <1>4 DEF Refuse, RefuseOther
  <2>5. \A a \in Accounts : nextTicket[a] + Len(signals) + 1 <= emitted + 1 + lost /\ nextTicket[a] \in Nat
    BY <2>3 DEF Budget, TypeOK
  <2>6. Len(signals) \in Nat /\ emitted \in Nat /\ lost \in Nat
    BY DEF TypeOK
  <2>7. Budget'
    BY <2>3, <2>4, <2>5, <2>6 DEF Budget
  <2> QED BY <2>2, <2>7
<1>5. CASE Place
  <2>1. router' \in Routed /\ router'.pc = "placing"
    BY <1>5, RouterFields DEF Place, Routed
  <2> QED BY <1>5, <2>1 DEF Place, TypeOK, Budget, Underway
<1>6. CASE BrokerFills
  <2>1. router.pc = "placing" /\ router \in Routed /\ router.acct \in Accounts /\ router.sid \in Strategies
    BY <1>6, RouterFields DEF BrokerFills
  <2>2. router' = [router EXCEPT !.pc = "filled", !.ticket = nextTicket[router.acct]]
    BY <1>6 DEF BrokerFills
  <2>3. router'.pc = "filled"
    BY <2>1, <2>2 DEF Routed
  <2>4. nextTicket[router.acct] \in Tickets /\ nextTicket' \in [Accounts -> 1..(MaxSignals + MaxLost + 1)] /\ Budget'
    BY <1>6, <2>1, <2>3, TicketIssued DEF BrokerFills
  <2>5. router' \in Ticketed
    BY <2>1, <2>2, <2>4, RouterMoves
  <2>6. positions' \subseteq Position
    <3>1. positions' = positions \cup {NewPosition} /\ positions \subseteq Position
      BY <1>6 DEF BrokerFills, TypeOK
    <3> QED BY <2>1, <2>4, <3>1, NewPositionType
  <2>7. attempt' \in 1..MaxAttempts
    BY <1>6 DEF BrokerFills
  <2>8. /\ UNCHANGED <<account, emitted, signals, turn, requests, closer, fillQ, closeQ>>
        /\ UNCHANGED <<openCount, owner, tracked, lost, pendings, unreported>>
    BY <1>6 DEF BrokerFills
  <2>9. TypeOK'
    <3>1. lost' \in 0..MaxLost /\ unreported' \subseteq Position /\ pendings' \subseteq Position
      BY <2>8 DEF TypeOK
    <3> QED BY <2>4, <2>5, <2>6, <2>7, <2>8, <3>1, QueuesKept, Zenon DEF TypeOK
  <2> QED BY <2>4, <2>9
<1>7. CASE BrokerAccepts
  <2>1. router.pc = "placing" /\ router \in Routed /\ router.acct \in Accounts /\ router.sid \in Strategies
    BY <1>7, RouterFields DEF BrokerAccepts
  <2>2. router' = [router EXCEPT !.pc = "submitted", !.ticket = nextTicket[router.acct]]
    BY <1>7 DEF BrokerAccepts
  <2>3. router'.pc = "submitted"
    BY <2>1, <2>2 DEF Routed
  <2>4. nextTicket[router.acct] \in Tickets /\ nextTicket' \in [Accounts -> 1..(MaxSignals + MaxLost + 1)] /\ Budget'
    BY <1>7, <2>1, <2>3, TicketIssued DEF BrokerAccepts
  <2>5. router' \in Ticketed
    BY <2>1, <2>2, <2>4, RouterMoves
  <2>6. pendings' \subseteq Position
    <3>1. pendings' = pendings \cup {NewPosition} /\ pendings \subseteq Position
      BY <1>7 DEF BrokerAccepts, TypeOK
    <3> QED BY <2>1, <2>4, <3>1, NewPositionType
  <2>7. attempt' \in 1..MaxAttempts
    BY <1>7 DEF BrokerAccepts
  <2>8. /\ UNCHANGED <<account, emitted, signals, turn, requests, closer, fillQ, closeQ>>
        /\ UNCHANGED <<openCount, owner, tracked, lost, positions, unreported>>
    BY <1>7 DEF BrokerAccepts
  <2>9. TypeOK'
    <3>1. lost' \in 0..MaxLost /\ unreported' \subseteq Position /\ positions' \subseteq Position
      BY <2>8 DEF TypeOK
    <3> QED BY <2>4, <2>5, <2>6, <2>7, <2>8, <3>1, QueuesKept, Zenon DEF TypeOK
  <2> QED BY <2>4, <2>9
<1>10. CASE TryAgain
  BY <1>10 DEF TryAgain, TypeOK, Budget, Underway
<1>11. CASE AnswerLost
  <2>1. router.pc = "placing" /\ router \in Routed /\ router.acct \in Accounts /\ router.sid \in Strategies
    BY <1>11, RouterFields DEF AnswerLost
  <2>2. /\ lost' = lost + 1 /\ lost' \in 0..MaxLost
        /\ \/ UNCHANGED router
           \/ router' = [router EXCEPT !.pc = "submitted", !.ticket = nextTicket[router.acct]]
    <3>1. lost' = lost + 1 /\ lost < MaxLost
      BY <1>11 DEF AnswerLost
    <3>2. lost \in 0..MaxLost
      BY DEF TypeOK
    <3>3. \/ UNCHANGED router
          \/ router' = [router EXCEPT !.pc = "submitted", !.ticket = nextTicket[router.acct]]
      BY <1>11 DEF AnswerLost
    <3>4. lost' \in 0..MaxLost
      BY <3>1, <3>2
    <3> QED BY <3>1, <3>3, <3>4
  <2>3. UNCHANGED router \/ router'.pc = "submitted"
    BY <2>1, <2>2 DEF Routed
  <2>4. /\ nextTicket[router.acct] \in Tickets
        /\ nextTicket' \in [Accounts -> 1..(MaxSignals + MaxLost + 1)] /\ Budget'
    BY <1>11, <2>1, <2>2, <2>3, TicketIssued DEF AnswerLost
  <2>5. router' \in Routed \cup Ticketed
    <3>1. CASE UNCHANGED router
      BY <2>1, <3>1
    <3>2. CASE router' = [router EXCEPT !.pc = "submitted", !.ticket = nextTicket[router.acct]]
      BY <2>1, <2>4, <3>2, RouterMoves
    <3> QED BY <2>2, <3>1, <3>2
  <2>6. pendings' \subseteq Position /\ unreported' \subseteq Position
    <3>1. /\ pendings' \in {pendings, pendings \cup {NewPosition}}
          /\ unreported' \in {unreported, unreported \cup {NewPosition}}
      BY <1>11 DEF AnswerLost
    <3>2. pendings \subseteq Position /\ unreported \subseteq Position
      BY DEF TypeOK
    <3> QED BY <2>1, <2>4, <3>1, <3>2, NewPositionType
  <2>7. attempt' \in 1..MaxAttempts
    <3>1. attempt' = 1 \/ (attempt < MaxAttempts /\ attempt' = attempt + 1)
      BY <1>11 DEF AnswerLost
    <3>2. attempt \in 1..MaxAttempts
      BY DEF TypeOK
    <3> QED BY <3>1, <3>2
  <2>8. /\ UNCHANGED <<account, emitted, signals, turn, requests, closer, fillQ, closeQ>>
        /\ UNCHANGED <<openCount, owner, tracked, positions>>
    BY <1>11 DEF AnswerLost
  <2>9. TypeOK'
    <3>1. positions' \subseteq Position
      BY <2>8 DEF TypeOK
    <3> QED BY <2>2, <2>4, <2>5, <2>6, <2>7, <2>8, <3>1, QueuesKept, Zenon DEF TypeOK
  <2> QED BY <2>4, <2>9
<1>8. CASE FillReplies
  <2> DEFINE e == [acct |-> FillAccount, ticket |-> router.ticket, sid |-> router.sid]
  <2>1. router \in Ticketed
    BY <1>8, RouterFields DEF FillReplies
  <2>2. e \in Position
    BY <2>1, BrokerForType DEF FillAccount, Ticketed, Position, TypeOK
  <2>3. fillQ' = Offer(fillQ, e) /\ router' = RouterIdle
    BY <1>8 DEF FillReplies
  <2>4. fillQ' \in Seq(Position) /\ Len(fillQ') <= QueueSize
    BY <2>2, <2>3, OfferType DEF TypeOK
  <2>5. Underway' = 0 /\ Underway = 0
    BY <1>8, <2>3 DEF Underway, RouterIdle, FillReplies
  <2> QED BY <1>8, <2>3, <2>4, <2>5 DEF FillReplies, TypeOK, Budget
<1>9. CASE OtherReplies
  <2>1. Underway' = 0 /\ Underway \in {0, 1}
    BY <1>9 DEF Underway, RouterIdle, OtherReplies
  <2>2. TypeOK'
    BY <1>9 DEF OtherReplies, TypeOK
  <2>3. Budget'
    BY <1>9, <2>1 DEF OtherReplies, TypeOK, Budget
  <2> QED BY <2>2, <2>3
<1> QED BY <1>1, <1>2, <1>3, <1>4, <1>5, <1>6, <1>7, <1>8, <1>9, <1>10, <1>11 DEF RouterStep

(* The steps of handle_close(), and of the monitor.                        *)
LEMMA TypeCloser ==
  ASSUME TypeInv, CloserStep
  PROVE  TypeInv'
<1> USE FlowAssumption DEF TypeInv, riskVars, brokerVars
<1>1. Budget'
  BY DEF CloserStep, TakeRequest, PositionsReply, BrokerClosesOnRequest, CloseFails,
         CloseReplies, Budget, Underway
<1>2. CASE TakeRequest
  <2> DEFINE r == Head(requests)
  <2>1. /\ r \in [sid : Strategies, ticket : Tickets]
        /\ Tail(requests) \in Seq([sid : Strategies, ticket : Tickets])
        /\ Len(Tail(requests)) = Len(requests) - 1
    BY <1>2, TakeType DEF TakeRequest, TypeOK
  <2>2. BrokerFor(r.sid) \in Accounts
    BY <2>1, BrokerForType DEF TypeOK
  <2>3. closer' \in Closes
    BY <1>2, <2>1, <2>2 DEF TakeRequest, Closes
  <2> QED BY <1>1, <1>2, <2>1, <2>3 DEF TakeRequest, TypeOK
<1>3. CASE PositionsReply
  <2>1. closer' \in {CloserIdle} \cup Closes
    BY <1>3, CloserFields, RouterMoves DEF PositionsReply
  <2> QED BY <1>1, <1>3, <2>1 DEF PositionsReply, TypeOK
<1>4. CASE BrokerClosesOnRequest
  <2>1. closer' \in Closes
    BY <1>4, CloserFields, RouterMoves DEF BrokerClosesOnRequest
  <2> QED BY <1>1, <1>4, <2>1 DEF BrokerClosesOnRequest, TypeOK
<1>5. CASE CloseFails
  BY <1>1, <1>5 DEF CloseFails, TypeOK
<1>6. CASE CloseReplies
  <2>1. Target \in Position
    BY <1>6, CloserFields DEF CloseReplies
  <2>2. closeQ' \in Seq(Position) /\ Len(closeQ') <= QueueSize
    BY <1>6, <2>1, OfferType DEF CloseReplies, TypeOK
  <2> QED BY <1>1, <1>6, <2>2 DEF CloseReplies, TypeOK
<1> QED BY <1>2, <1>3, <1>4, <1>5, <1>6 DEF CloserStep

(* The handlers of the risk monitor.                                       *)
LEMMA TypeRisk ==
  ASSUME TypeInv, RiskStep
  PROVE  TypeInv'
<1> USE FlowAssumption DEF TypeInv, riskVars, brokerVars
<1>1. Budget'
  BY DEF RiskStep, OnFilled, OnClosed, Budget, Underway
<1>2. CASE OnFilled
  <2> DEFINE e == Head(fillQ)
  <2>1. e \in Position /\ Tail(fillQ) \in Seq(Position) /\ Len(Tail(fillQ)) = Len(fillQ) - 1
    BY <1>2 DEF OnFilled, TypeOK
  <2>2. e.sid \in Strategies /\ e.ticket \in Tickets
    BY <2>1 DEF Position
  <2>3. openCount' \in [Strategies -> Nat]
    <3>1. openCount' = [openCount EXCEPT ![e.sid] = openCount[e.sid] + 1] /\ openCount \in [Strategies -> Nat]
      BY <1>2 DEF OnFilled, TypeOK
    <3> QED BY <2>2, <3>1
  <2>4. owner' \in [Keys -> Strategies \cup {None}]
    BY <1>2, <2>2 DEF OnFilled, TypeOK
  <2>5. tracked' \in [Strategies -> SUBSET Tickets]
    BY <1>2, <2>2 DEF OnFilled, TypeOK
  <2> QED BY <1>1, <1>2, <2>1, <2>3, <2>4, <2>5, SMTT(30) DEF OnFilled, TypeOK
<1>3. CASE OnClosed
  <2> DEFINE e == Head(closeQ)
  <2>1. e \in Position /\ Tail(closeQ) \in Seq(Position) /\ Len(Tail(closeQ)) = Len(closeQ) - 1
    BY <1>3 DEF OnClosed, TypeOK
  <2>2. e.sid \in Strategies /\ e.ticket \in Tickets
    BY <2>1 DEF Position
  <2>3. openCount' \in [Strategies -> Nat]
    BY <1>3 DEF OnClosed, TypeOK
  <2>4. owner' \in [Keys -> Strategies \cup {None}]
    BY <1>3 DEF OnClosed, TypeOK
  <2>5. tracked' \in [Strategies -> SUBSET Tickets]
    BY <1>3, <2>2 DEF OnClosed, TypeOK
  <2> QED BY <1>1, <1>3, <2>1, <2>3, <2>4, <2>5 DEF OnClosed, TypeOK
<1> QED BY <1>2, <1>3 DEF RiskStep

(* The strategies, the brokers' own steps, and the reloads.                *)
LEMMA TypeEnvironment ==
  ASSUME TypeInv, Environment \/ AllHandled \/ UNCHANGED vars
  PROVE  TypeInv'
<1> USE FlowAssumption DEF TypeInv, riskVars, brokerVars
<1>1. ASSUME NEW sid \in Strategies, Emit(sid) PROVE TypeInv'
  <2>1. /\ signals' \in Seq(Strategies) /\ Len(signals') <= QueueSize
        /\ Len(signals') <= Len(signals) + 1
    BY <1>1, OfferType DEF Emit, TypeOK
  <2>2. emitted' = emitted + 1 /\ emitted' \in 0..MaxSignals
    BY <1>1 DEF Emit, TypeOK
  <2>3. Underway' = Underway /\ Underway \in {0, 1} /\ nextTicket' = nextTicket
    BY <1>1 DEF Underway, Emit
  <2>4. Budget'
    <3> SUFFICES ASSUME NEW a \in Accounts
                 PROVE  nextTicket[a] + Len(signals') + Underway <= emitted' + 1 + lost
      BY <1>1, <2>3 DEF Budget, Emit
    <3>1. nextTicket[a] + Len(signals) + Underway <= emitted + 1 + lost /\ nextTicket[a] \in Nat
      BY DEF Budget, TypeOK
    <3>2. Len(signals) \in Nat /\ Len(signals') \in Nat /\ emitted \in Nat /\ lost \in Nat
      BY <2>1 DEF TypeOK
    <3> QED BY <2>1, <2>2, <2>3, <3>1, <3>2
  <2> QED BY <1>1, <2>1, <2>2, <2>4 DEF Emit, TypeOK
<1>2. ASSUME NEW sid \in Strategies, NEW t \in tracked[sid], RequestClose(sid, t) PROVE TypeInv'
  <2>1. [sid |-> sid, ticket |-> t] \in [sid : Strategies, ticket : Tickets]
    BY DEF TypeOK
  <2>2. requests' \in Seq([sid : Strategies, ticket : Tickets]) /\ Len(requests') <= QueueSize
    BY <1>2, <2>1, OfferType DEF RequestClose, TypeOK
  <2> QED BY <1>2, <2>2 DEF RequestClose, TypeOK, Budget, Underway
<1>3. ASSUME NEW p \in Open, BrokerSideClose(p) PROVE TypeInv'
  BY <1>3 DEF BrokerSideClose, TypeOK, Budget, Underway
<1>4. ASSUME NEW p \in pendings, BrokerSideFill(p) PROVE TypeInv'
  BY <1>4 DEF BrokerSideFill, TypeOK, Budget, Underway
<1>5. ASSUME NEW sid \in Strategies, NEW a \in Accounts \cup {None}, ChangeAccount(sid, a) PROVE TypeInv'
  BY <1>5 DEF ChangeAccount, TypeOK, Budget, Underway
<1>6. CASE AllHandled \/ UNCHANGED vars
  BY <1>6 DEF AllHandled, vars, TypeOK, Budget, Underway
<1> QED BY <1>1, <1>2, <1>3, <1>4, <1>5, <1>6 DEF Environment

(* Every variable keeps its type, the subscriptions their bounds, and no   *)
(* broker runs out of the tickets the model counts: for any strategies,    *)
(* accounts and bounds, with or without reloads, stops and pending orders. *)
THEOREM TypeCorrect == Spec => []TypeOK
<1>1. Init => TypeInv
  BY TypeInit
<1>2. TypeInv /\ [Next]_vars => TypeInv'
  BY TypeRouter, TypeCloser, TypeRisk, TypeEnvironment DEF Next
<1>3. TypeInv => TypeOK
  BY DEF TypeInv
<1> QED BY <1>1, <1>2, <1>3, PTL DEF Spec

-----------------------------------------------------------------------------
(* Whose position a ticket is. ClosesOwnOnly is not inductive: it needs    *)
(* that a broker never uses a ticket twice, for a position, a pending      *)
(* order or the position handle_close() has found, whatever account the    *)
(* strategy is mapped to in the meantime. The events under way name known  *)
(* positions too, unless a reload has made them name another account.      *)
Elements(q) == {q[i] : i \in DOMAIN q}
JustFilled == [acct |-> router.acct, ticket |-> router.ticket, sid |-> router.sid]

Found == IF closer.pc \in {"closing", "closed"} THEN {Target} ELSE {}
Reported == Elements(fillQ) \cup Elements(closeQ)
              \cup IF router.pc = "filled" THEN {JustFilled} ELSE {}
Known == Open \cup pendings \cup Found \cup IF Reroutes THEN {} ELSE Reported

Issued == \A p \in Known : p.ticket < nextTicket[p.acct]
OneOwner == \A p, q \in Known : KeyOf(p) = KeyOf(q) => p = q

(* Without reloads a signal's broker stays the one of its strategy.        *)
Mapped == (~Reroutes /\ router.pc # "idle") => router.acct = BrokerFor(router.sid)

OwnInv == TypeInv /\ Issued /\ OneOwner /\ Mapped

(* What is known is a set of positions.                                    *)
LEMMA KnownType ==
  ASSUME TypeOK
  PROVE  Known \subseteq Position
<1>1. Elements(fillQ) \subseteq Position /\ Elements(closeQ) \subseteq Position
  BY DEF Elements, TypeOK
<1>2. router.pc = "filled" => JustFilled \in Position
  BY RouterFields DEF JustFilled, Ticketed, Position
<1>3. Open \cup pendings \subseteq Position
  BY DEF TypeOK, Open
<1> QED BY <1>1, <1>2, <1>3, CloserFields DEF Known, Found, Reported

(* What a queue holds after an event is offered to it when it is empty,    *)
(* and after its first event is taken.                                     *)
LEMMA OfferedElement ==
  ASSUME NEW e, NEW q, q = <<>>
  PROVE  Elements(Offer(q, e)) = {e}
<1>1. Offer(q, e) = <<e>>
  BY FlowAssumption DEF Offer
<1> QED BY <1>1 DEF Elements

(* Taking the first event of a queue.                                      *)
LEMMA TakenElement ==
  ASSUME NEW S, NEW q \in Seq(S), q # <<>>
  PROVE  Head(q) \in Elements(q) /\ Elements(Tail(q)) \subseteq Elements(q)
<1>1. Len(q) \in Nat \ {0} /\ DOMAIN q = 1..Len(q) /\ Head(q) = q[1]
  OBVIOUS
<1>2. DOMAIN Tail(q) = 1..(Len(q) - 1) /\ \A i \in 1..(Len(q) - 1) : Tail(q)[i] = q[i + 1]
  BY <1>1
<1>3. \A i \in 1..(Len(q) - 1) : i + 1 \in 1..Len(q)
  BY <1>1
<1> QED BY <1>1, <1>2, <1>3 DEF Elements

(* A step that makes no new position known keeps the tickets apart.        *)
LEMMA NothingNew ==
  ASSUME OwnInv, Known' \subseteq Known, UNCHANGED nextTicket
  PROVE  Issued' /\ OneOwner'
BY DEF OwnInv, Issued, OneOwner, KeyOf

(* A broker's new ticket is unlike all known ones.                         *)
LEMMA NewTicketApart ==
  ASSUME OwnInv, TypeInv', NEW p \in Position,
         p.ticket = nextTicket[p.acct], NewTicket(p.acct), Known' \subseteq Known \cup {p}
  PROVE  Issued' /\ OneOwner'
<1> USE DEF OwnInv, TypeInv
<1>1. nextTicket \in [Accounts -> Nat] /\ p.acct \in Accounts /\ p.ticket \in Nat
  <2>1. nextTicket \in [Accounts -> 1..(MaxSignals + MaxLost + 1)]
    BY DEF TypeOK
  <2>2. p.acct \in Accounts /\ p.ticket \in Nat
    BY DEF Position, Tickets
  <2> QED BY <2>1, <2>2, FlowAssumption
<1>2. nextTicket' = [nextTicket EXCEPT ![p.acct] = nextTicket[p.acct] + 1]
  BY DEF NewTicket
<1>3. ASSUME NEW q \in Known
      PROVE  q.acct \in Accounts /\ q.ticket \in Nat /\ q.ticket < nextTicket[q.acct] /\ KeyOf(q) # KeyOf(p)
  <2>1. q \in Position /\ q.ticket < nextTicket[q.acct]
    BY <1>3, KnownType DEF Issued
  <2>2. q.acct \in Accounts /\ q.ticket \in Nat
    BY <2>1 DEF Position, Tickets
  <2>3. q.acct = p.acct => q.ticket # p.ticket
    BY <1>1, <2>1, <2>2
  <2> QED BY <2>1, <2>2, <2>3 DEF KeyOf
<1>4. Issued'
  <2> SUFFICES ASSUME NEW q \in Known' PROVE q.ticket < nextTicket'[q.acct]
    BY DEF Issued
  <2>1. CASE q = p
    BY <1>1, <1>2, <2>1
  <2>2. CASE q \in Known
    BY <1>1, <1>2, <1>3, <2>2
  <2> QED BY <2>1, <2>2
<1>5. OneOwner'
  <2> SUFFICES ASSUME NEW q \in Known', NEW r \in Known', <<q.acct, q.ticket>> = <<r.acct, r.ticket>>
               PROVE  q = r
    BY DEF OneOwner, KeyOf
  <2>1. q \in Known \cup {p} /\ r \in Known \cup {p}
    OBVIOUS
  <2> QED BY <1>3, <2>1 DEF OneOwner, KeyOf
<1> QED BY <1>4, <1>5

(* An order filled or accepted at the broker makes one position known,     *)
(* whether the answer arrives or not.                                      *)
LEMMA OwnTicketed ==
  ASSUME OwnInv, TypeOK, TypeInv', BrokerFills \/ BrokerAccepts \/ AnswerLost
  PROVE  /\ Mapped'
         /\ NewPosition \in Position /\ NewTicket(NewPosition.acct)
         /\ Known' \subseteq Known \cup {NewPosition}
<1> USE DEF riskVars, brokerVars, Open
<1>1. router \in Routed /\ router.pc = "placing"
  BY RouterFields DEF BrokerFills, BrokerAccepts, AnswerLost
<1>2. /\ router'.sid = router.sid /\ router'.acct = router.acct
      /\ router'.pc = "filled" => JustFilled' = NewPosition
  BY <1>1 DEF BrokerFills, BrokerAccepts, AnswerLost, JustFilled, NewPosition, Routed
<1>3. UNCHANGED <<closer, fillQ, closeQ, account>>
  BY DEF BrokerFills, BrokerAccepts, AnswerLost
<1>4. /\ NewPosition \in Open' \cup pendings'
      /\ Open' \cup pendings' \subseteq Open \cup pendings \cup {NewPosition}
  BY DEF BrokerFills, BrokerAccepts, AnswerLost
<1>5. Known' \subseteq Known \cup {NewPosition}
  BY <1>2, <1>3, <1>4 DEF Known, Found, Reported, Target
<1>6. NewPosition \in Position
  BY <1>4 DEF TypeOK, TypeInv
<1>7. NewTicket(NewPosition.acct)
  BY DEF BrokerFills, BrokerAccepts, AnswerLost, NewPosition
<1>8. Mapped'
  BY <1>1, <1>2, <1>3 DEF Mapped, OwnInv, BrokerFor
<1> QED BY <1>5, <1>6, <1>7, <1>8

(* The other steps of handle_signal() make nothing known: ...              *)
RouterOnly == TakeSignal \/ Suspend \/ InfoReplies \/ Refuse \/ RefuseOther \/ Place \/ TryAgain \/ FillReplies \/ OtherReplies

(* ... they only pass on what is known, and choose the strategy's broker.  *)
LEMMA OwnRouter ==
  ASSUME OwnInv, TypeOK, RouterOnly
  PROVE  Known' \subseteq Known /\ UNCHANGED nextTicket /\ Mapped'
<1> USE DEF riskVars, brokerVars, Open
<1>1. CASE FillReplies
  <2> DEFINE e == [acct |-> FillAccount, ticket |-> router.ticket, sid |-> router.sid]
  <2>1. ~Reroutes => e = JustFilled
    BY <1>1 DEF FillReplies, OwnInv, Mapped, FillAccount, JustFilled
  <2>2. Elements(fillQ') = {e}
    BY <1>1, OfferedElement DEF FillReplies
  <2>3. Known' \subseteq Known
    BY <1>1, <2>1, <2>2 DEF FillReplies, Known, Found, Reported, Target, RouterIdle
  <2>4. Mapped'
    BY <1>1 DEF FillReplies, Mapped, RouterIdle
  <2> QED BY <1>1, <2>3, <2>4 DEF FillReplies
<1>2. CASE TakeSignal \/ Suspend \/ InfoReplies \/ Refuse \/ RefuseOther \/ Place \/ TryAgain \/ OtherReplies
  <2>1. UNCHANGED <<positions, unreported, pendings, closer, nextTicket, fillQ, closeQ, account>>
    BY <1>2 DEF TakeSignal, Suspend, InfoReplies, Refuse, RefuseOther, Place, TryAgain, OtherReplies
  <2>2. router'.pc # "filled" \/ UNCHANGED router
    <3>1. CASE TakeSignal \/ Suspend \/ Refuse \/ RefuseOther \/ OtherReplies
      BY <3>1 DEF TakeSignal, Suspend, Refuse, RefuseOther, OtherReplies, RouterIdle
    <3>2. CASE InfoReplies \/ Place \/ TryAgain
      BY <3>2, RouterFields DEF InfoReplies, Place, TryAgain, Routed
    <3> QED BY <1>2, <3>1, <3>2
  <2>3. Known' \subseteq Known
    BY <2>1, <2>2 DEF Known, Found, Reported, Target, JustFilled
  <2>4. Mapped'
    <3>1. CASE TakeSignal
      BY <3>1 DEF TakeSignal, Mapped, BrokerFor
    <3>2. CASE Suspend \/ Refuse \/ RefuseOther \/ OtherReplies
      BY <3>2 DEF Suspend, Refuse, RefuseOther, OtherReplies, Mapped, RouterIdle
    <3>3. CASE InfoReplies \/ Place \/ TryAgain
      BY <3>3, <2>1, RouterFields DEF InfoReplies, Place, TryAgain, Mapped, Routed, OwnInv, BrokerFor
    <3> QED BY <1>2, <3>1, <3>2, <3>3
  <2> QED BY <2>1, <2>3, <2>4
<1> QED BY <1>1, <1>2 DEF RouterOnly

(* handle_close() looks for a position, closes it and reports it: it makes *)
(* none known.                                                             *)
LEMMA OwnCloser ==
  ASSUME OwnInv, TypeOK, CloserStep
  PROVE  Known' \subseteq Known /\ UNCHANGED nextTicket /\ Mapped'
<1> USE DEF riskVars, brokerVars, Open
<1>1. UNCHANGED <<pendings, nextTicket, fillQ, router, account>> /\ Open' \subseteq Open
  BY DEF CloserStep, TakeRequest, PositionsReply, BrokerClosesOnRequest, CloseFails, CloseReplies
<1>2. Mapped'
  BY <1>1 DEF OwnInv, Mapped, BrokerFor
<1>3. CASE PositionsReply /\ Owns
  <2>1. Target' = Target
    BY <1>3, CloserFields DEF PositionsReply, Closes, Target
  <2> QED BY <1>1, <1>2, <1>3, <2>1 DEF PositionsReply, Found, Known, Owns, Reported, JustFilled
<1>4. CASE BrokerClosesOnRequest
  <2>1. Target' = Target
    BY <1>4, CloserFields DEF BrokerClosesOnRequest, Closes, Target
  <2> QED BY <1>1, <1>2, <1>4, <2>1 DEF BrokerClosesOnRequest, Found, Known, Reported, JustFilled
<1>5. CASE CloseReplies
  <2>1. Elements(closeQ') = {Target}
    BY <1>5, OfferedElement DEF CloseReplies
  <2> QED BY <1>1, <1>2, <1>5, <2>1 DEF CloseReplies, CloserIdle, Found, Known, Reported, JustFilled
<1>6. CASE TakeRequest \/ (PositionsReply /\ ~Owns) \/ CloseFails
  <2>1. closer'.pc \in {"idle", "reading"} /\ UNCHANGED <<positions, unreported, closeQ>>
    BY <1>6 DEF TakeRequest, PositionsReply, CloseFails, CloserIdle
  <2> QED BY <1>1, <1>2, <2>1 DEF Found, Known, Reported, JustFilled
<1> QED BY <1>3, <1>4, <1>5, <1>6 DEF CloserStep

(* Neither do the risk handlers, the strategies and the brokers on their   *)
(* own.                                                                    *)
LEMMA OwnRest ==
  ASSUME OwnInv, TypeOK, RiskStep \/ Environment \/ AllHandled \/ UNCHANGED vars
  PROVE  Known' \subseteq Known /\ UNCHANGED nextTicket /\ Mapped'
<1> USE DEF riskVars, brokerVars, Open
<1>1. CASE RiskStep
  <2>1. Elements(fillQ') \subseteq Elements(fillQ) /\ Elements(closeQ') \subseteq Elements(closeQ)
    BY <1>1, TakenElement DEF RiskStep, OnFilled, OnClosed, TypeOK
  <2>2. UNCHANGED <<positions, unreported, pendings, closer, router, nextTicket, account>>
    BY <1>1 DEF RiskStep, OnFilled, OnClosed
  <2> QED BY <2>1, <2>2 DEF Known, Found, Reported, Target, JustFilled, OwnInv, Mapped, BrokerFor
<1>2. CASE Environment
  <2>1. /\ UNCHANGED <<closer, router, fillQ, closeQ, nextTicket>>
        /\ Open' \cup pendings' \subseteq Open \cup pendings
        /\ ~Reroutes => UNCHANGED account
    BY <1>2 DEF Environment, Emit, RequestClose, BrokerSideClose, BrokerSideFill, ChangeAccount
  <2>2. Mapped'
    BY <2>1 DEF OwnInv, Mapped, BrokerFor
  <2> QED BY <2>1, <2>2 DEF Known, Found, Reported, Target, JustFilled
<1>3. CASE AllHandled \/ UNCHANGED vars
  BY <1>3 DEF AllHandled, vars, Known, Found, Reported, Target, JustFilled, OwnInv, Mapped, BrokerFor
<1> QED BY <1>1, <1>2, <1>3

(* Every step keeps the tickets apart.                                     *)
LEMMA OwnNext ==
  ASSUME OwnInv, [Next]_vars
  PROVE  OwnInv'
<1> USE DEF riskVars, brokerVars, Open
<1>1. TypeInv' /\ TypeOK /\ TypeOK'
  BY TypeRouter, TypeCloser, TypeRisk, TypeEnvironment DEF Next, OwnInv, TypeInv
<1>2. CASE BrokerFills \/ BrokerAccepts \/ AnswerLost
  <2>1. NewPosition.ticket = nextTicket[NewPosition.acct]
    BY DEF NewPosition
  <2> QED BY <1>1, <1>2, <2>1, OwnTicketed, NewTicketApart DEF OwnInv
<1>3. CASE RouterOnly \/ CloserStep
  BY <1>1, <1>3, OwnRouter, OwnCloser, NothingNew DEF OwnInv
<1>4. CASE RiskStep \/ Environment \/ AllHandled \/ UNCHANGED vars
  BY <1>1, <1>4, OwnRest, NothingNew DEF OwnInv
<1> QED BY <1>2, <1>3, <1>4 DEF Next, RouterStep, RouterOnly

(* handle_close() takes away no other strategy's position: not after a     *)
(* reload has mapped the strategy to another account, not when two         *)
(* accounts use the same ticket numbers, not when the position is closed   *)
(* at the broker while the request is under way.                           *)
THEOREM ClosesOwn == Spec => ClosesOwnOnly
<1>1. Init => OwnInv
  BY TypeInit
  DEF OwnInv, Init, Issued, OneOwner, Known, Open, Found, Reported, Elements, Mapped, CloserIdle, RouterIdle
<1>2. OwnInv /\ [Next]_vars => OwnInv'
  BY OwnNext
<1>3. ASSUME OwnInv
      PROVE  [BrokerClosesOnRequest => \A p \in Open \ Open' : p.sid = closer.sid]_vars
  <2> SUFFICES ASSUME BrokerClosesOnRequest, NEW p \in Open \ Open'
               PROVE  p.sid = closer.sid
    OBVIOUS
  <2>1. p.acct = closer.acct /\ p.ticket = closer.ticket
    BY DEF BrokerClosesOnRequest, Open
  <2>2. p \in Known /\ Target \in Known /\ KeyOf(p) = KeyOf(Target)
    BY <2>1 DEF BrokerClosesOnRequest, Known, Found, KeyOf, Target
  <2>3. p = Target
    BY <1>3, <2>2 DEF OwnInv, OneOwner
  <2> QED BY <2>3 DEF Target
<1> QED BY <1>1, <1>2, <1>3, PTL DEF Spec, ClosesOwnOnly

-----------------------------------------------------------------------------
(* What nobody is told of. No strategy asks to close a position whose fill *)
(* was not answered, for it follows only tickets that an event has shown   *)
(* it: the positions the events and the requests are about are apart from  *)
(* those, without reloads.                                                 *)
Quiet == unreported \cup pendings

AsPosition(r) == [acct |-> BrokerFor(r.sid), ticket |-> r.ticket, sid |-> r.sid]
Followed == {r \in [sid : Strategies, ticket : Tickets] : r.ticket \in tracked[r.sid]}
Meant == {AsPosition(r) : r \in Elements(requests) \cup Followed}
           \cup IF closer.pc # "idle" THEN {Target} ELSE {}
Heard == positions \cup Reported \cup Meant

QuietApart == \A p \in Heard : p \notin Quiet /\ p.ticket < nextTicket[p.acct]
Addressed == \A e \in Elements(fillQ) : e.acct = BrokerFor(e.sid)

QuietInv == OwnInv /\ QuietApart /\ Addressed

(* What a queue holds has the type of its events.                          *)
LEMMA ElementsType ==
  ASSUME NEW S, NEW q \in Seq(S)
  PROVE  Elements(q) \subseteq S
<1>1. \A i \in DOMAIN q : q[i] \in S
  OBVIOUS
<1> QED BY <1>1 DEF Elements

(* What is heard of is a set of positions.                                 *)
LEMMA HeardType ==
  ASSUME TypeOK
  PROVE  Heard \subseteq Position /\ Quiet \subseteq Known
<1>1. positions \cup Reported \subseteq Position
  <2>1. Elements(fillQ) \subseteq Position /\ Elements(closeQ) \subseteq Position
    BY DEF Elements, TypeOK
  <2>2. router.pc = "filled" => JustFilled \in Position
    BY RouterFields DEF JustFilled, Ticketed, Position
  <2> QED BY <2>1, <2>2 DEF Reported, TypeOK
<1>2. \A r \in [sid : Strategies, ticket : Tickets] : AsPosition(r) \in Position
  BY BrokerForType DEF AsPosition, Position, TypeOK
<1>3. Elements(requests) \subseteq [sid : Strategies, ticket : Tickets]
  <2>1. requests \in Seq([sid : Strategies, ticket : Tickets])
    BY DEF TypeOK
  <2> QED BY <2>1, ElementsType
<1>4. Meant \subseteq Position
  BY <1>2, <1>3, CloserFields DEF Meant, Followed
<1> QED BY <1>1, <1>4 DEF Heard, Quiet, Known, Open

(* A step that lets nothing new be heard of, or be quiet, keeps them apart.*)
LEMMA QuietKept ==
  ASSUME QuietInv, UNCHANGED nextTicket, Heard' \subseteq Heard, Quiet' \subseteq Quiet
  PROVE  QuietApart'
BY DEF QuietInv, QuietApart

(* A new ticket is unlike those heard of and those that are quiet.         *)
LEMMA QuietTicketed ==
  ASSUME QuietInv, ~Reroutes, TypeInv', BrokerFills \/ BrokerAccepts \/ AnswerLost
  PROVE  QuietApart' /\ Addressed'
<1> USE DEF riskVars, brokerVars
<1>1. TypeOK /\ TypeOK' /\ OwnInv
  BY DEF QuietInv, OwnInv, TypeInv
<1>2. NewPosition \in Position /\ NewTicket(NewPosition.acct)
  BY <1>1, OwnTicketed
<1>3. /\ NewPosition.acct \in Accounts /\ NewPosition.ticket = nextTicket[NewPosition.acct]
      /\ nextTicket \in [Accounts -> Nat]
  BY <1>1, <1>2, SMTT(30) DEF NewPosition, Position, TypeOK
<1>4. /\ nextTicket' = [nextTicket EXCEPT ![NewPosition.acct] = nextTicket[NewPosition.acct] + 1]
  BY <1>2 DEF NewTicket
<1>5. ASSUME NEW p \in Heard \cup Quiet
      PROVE  p.acct \in Accounts /\ p.ticket \in Nat /\ p.ticket < nextTicket[p.acct]
  <2>1. p \in Position /\ p.ticket < nextTicket[p.acct]
    BY <1>1, HeardType, KnownType DEF QuietInv, QuietApart, OwnInv, Issued
  <2> QED BY <2>1 DEF Position, Tickets
<1>6. ASSUME NEW p \in Heard \cup Quiet
      PROVE  p # NewPosition /\ p.ticket < nextTicket'[p.acct]
  <2>1. p.acct \in Accounts /\ p.ticket \in Nat /\ p.ticket < nextTicket[p.acct] /\ nextTicket[p.acct] \in Nat
    BY <1>3, <1>5
  <2>2. nextTicket'[p.acct] \in {nextTicket[p.acct], nextTicket[p.acct] + 1}
    BY <1>3, <1>4, <2>1
  <2> QED BY <1>3, <2>1, <2>2
<1>7. NewPosition.ticket < nextTicket'[NewPosition.acct]
  BY <1>3, <1>4
<1>8. UNCHANGED <<account, requests, tracked, closer, fillQ, closeQ>>
  BY DEF BrokerFills, BrokerAccepts, AnswerLost
<1>9. Meant' = Meant /\ Addressed'
  BY <1>8 DEF Meant, Followed, AsPosition, BrokerFor, Target, Elements, QuietInv, Addressed
<1>10. CASE BrokerFills
  <2>1. router'.pc = "filled" /\ JustFilled' = NewPosition
    BY <1>1, <1>10, RouterFields DEF BrokerFills, JustFilled, NewPosition, Routed
  <2>2. Heard' \subseteq Heard \cup {NewPosition} /\ Quiet' = Quiet
    BY <1>8, <1>9, <1>10, <2>1 DEF BrokerFills, Heard, Reported, Elements, Quiet
  <2> QED BY <1>6, <1>7, <1>9, <2>2 DEF QuietInv, QuietApart
<1>11. CASE BrokerAccepts \/ AnswerLost
  <2>1. router'.pc # "filled"
    BY <1>1, <1>11, RouterFields DEF BrokerAccepts, AnswerLost, Routed
  <2>2. Heard' \subseteq Heard /\ Quiet' \subseteq Quiet \cup {NewPosition}
    BY <1>8, <1>9, <1>11, <2>1 DEF BrokerAccepts, AnswerLost, Heard, Reported, Elements, Quiet
  <2> QED BY <1>6, <1>9, <2>2 DEF QuietInv, QuietApart
<1> QED BY <1>10, <1>11

(* The other steps of handle_signal() make nothing heard of.               *)
LEMMA QuietRouter ==
  ASSUME QuietInv, ~Reroutes, RouterOnly
  PROVE  QuietApart' /\ Addressed'
<1> USE DEF riskVars, brokerVars
<1>1. TypeOK /\ OwnInv
  BY DEF QuietInv, OwnInv, TypeInv
<1>2. UNCHANGED <<account, requests, tracked, closer, closeQ, positions, unreported, pendings, nextTicket>>
  BY DEF RouterOnly, TakeSignal, Suspend, InfoReplies, Refuse, RefuseOther, Place, TryAgain, FillReplies, OtherReplies
<1>3. Meant' = Meant /\ Quiet' = Quiet
  BY <1>2 DEF Meant, Followed, AsPosition, BrokerFor, Target, Elements, Quiet
<1>4. CASE FillReplies
  <2> DEFINE e == [acct |-> FillAccount, ticket |-> router.ticket, sid |-> router.sid]
  <2>1. e = JustFilled /\ router.pc = "filled" /\ router'.pc = "idle"
    BY <1>1, <1>4 DEF FillReplies, OwnInv, Mapped, FillAccount, JustFilled, RouterIdle
  <2>2. Elements(fillQ') = {e}
    BY <1>4, OfferedElement DEF FillReplies
  <2>3. Heard' \subseteq Heard
    BY <1>2, <1>3, <2>1, <2>2 DEF Heard, Reported, Elements
  <2>4. Addressed'
    BY <1>2, <2>2 DEF Addressed, BrokerFor, FillAccount
  <2> QED BY <1>2, <1>3, <2>3, <2>4, QuietKept
<1>5. CASE RouterOnly /\ ~FillReplies
  <2>1. UNCHANGED fillQ
    BY <1>5 DEF RouterOnly, TakeSignal, Suspend, InfoReplies, Refuse, RefuseOther, Place, TryAgain, OtherReplies
  <2>2. router'.pc # "filled" \/ UNCHANGED router
    <3>1. CASE TakeSignal \/ Suspend \/ Refuse \/ RefuseOther \/ OtherReplies
      BY <3>1 DEF TakeSignal, Suspend, Refuse, RefuseOther, OtherReplies, RouterIdle
    <3>2. CASE InfoReplies \/ Place \/ TryAgain
      BY <1>1, <3>2, RouterFields DEF InfoReplies, Place, TryAgain, Routed
    <3> QED BY <1>5, <3>1, <3>2 DEF RouterOnly
  <2>3. Heard' \subseteq Heard /\ Addressed'
    BY <1>2, <1>3, <2>1, <2>2 DEF Heard, Reported, Elements, JustFilled, QuietInv, Addressed, BrokerFor
  <2> QED BY <1>2, <1>3, <2>3, QuietKept
<1> QED BY <1>4, <1>5

(* handle_close() closes only what is meant by a request.                  *)
LEMMA QuietCloser ==
  ASSUME QuietInv, ~Reroutes, CloserStep
  PROVE  QuietApart' /\ Addressed'
<1> USE DEF riskVars, brokerVars
<1>1. TypeOK /\ OwnInv
  BY DEF QuietInv, OwnInv, TypeInv
<1>2. /\ UNCHANGED <<account, tracked, router, fillQ, pendings, nextTicket>>
      /\ positions' \subseteq positions /\ unreported' \subseteq unreported
  BY DEF CloserStep, TakeRequest, PositionsReply, BrokerClosesOnRequest, CloseFails, CloseReplies
<1>3. Followed' = Followed /\ Quiet' \subseteq Quiet /\ Addressed'
  BY <1>2 DEF Followed, Quiet, QuietInv, Addressed, Elements, BrokerFor
<1>4. \A r : AsPosition(r)' = [acct |-> BrokerFor(r.sid), ticket |-> r.ticket, sid |-> r.sid]
  BY <1>2 DEF AsPosition, BrokerFor
<1>5. CASE TakeRequest
  <2>1. Head(requests) \in Elements(requests) /\ Elements(requests') \subseteq Elements(requests)
    BY <1>1, <1>5, TakenElement DEF TakeRequest, TypeOK
  <2>2. closer'.pc # "idle" /\ Target' = AsPosition(Head(requests)) /\ UNCHANGED closeQ
    BY <1>5 DEF TakeRequest, Target, AsPosition
  <2>3. Meant' \subseteq Meant
    BY <1>3, <1>4, <2>1, <2>2 DEF Meant, AsPosition, Elements
  <2>4. Heard' \subseteq Heard
    BY <1>2, <2>2, <2>3 DEF Heard, Reported, Elements, JustFilled
  <2> QED BY <1>2, <1>3, <2>4, QuietKept
<1>6. CASE CloserStep /\ ~TakeRequest
  <2>1. UNCHANGED requests
    BY <1>6 DEF CloserStep, PositionsReply, BrokerClosesOnRequest, CloseFails, CloseReplies
  <2>2. closer.pc # "idle" /\ (closer'.pc = "idle" \/ Target' = Target)
    BY <1>1, <1>6, CloserFields
    DEF CloserStep, PositionsReply, BrokerClosesOnRequest, CloseFails, CloseReplies, Closes, Target, CloserIdle
  <2>3. Meant' \subseteq Meant /\ Target \in Meant
    <3>1. \A r : AsPosition(r)' = AsPosition(r)
      BY <1>4 DEF AsPosition
    <3>2. Elements(requests)' = Elements(requests)
      BY <2>1 DEF Elements
    <3> QED BY <1>3, <2>2, <3>1, <3>2 DEF Meant
  <2>4. Elements(closeQ') \subseteq Elements(closeQ) \cup {Target}
    <3>1. CASE CloseReplies
      BY <3>1, OfferedElement DEF CloseReplies
    <3>2. CASE ~CloseReplies
      BY <1>6, <3>2 DEF CloserStep, PositionsReply, BrokerClosesOnRequest, CloseFails
    <3> QED BY <3>1, <3>2
  <2>5. Heard' \subseteq Heard
    BY <1>2, <2>3, <2>4 DEF Heard, Reported, Elements, JustFilled
  <2> QED BY <1>2, <1>3, <2>5, QuietKept
<1> QED BY <1>5, <1>6

(* A strategy follows what a fill has shown it, and asks for what it       *)
(* follows.                                                                *)
LEMMA QuietRest ==
  ASSUME QuietInv, ~Reroutes, RiskStep \/ Environment \/ AllHandled \/ UNCHANGED vars
  PROVE  QuietApart' /\ Addressed'
<1> USE DEF riskVars, brokerVars
<1>1. TypeOK /\ OwnInv
  BY DEF QuietInv, OwnInv, TypeInv
<1>2. CASE OnFilled
  <2> DEFINE e == Head(fillQ)
  <2>1. /\ e \in Elements(fillQ) /\ Elements(fillQ') \subseteq Elements(fillQ) /\ e \in Position
    BY <1>1, <1>2, TakenElement, TakeType DEF OnFilled, TypeOK
  <2>2. UNCHANGED <<account, requests, router, closer, closeQ, positions, unreported, pendings, nextTicket>>
    BY <1>2 DEF OnFilled
  <2>3. \A r : AsPosition(r)' = AsPosition(r)
    BY <2>2 DEF AsPosition, BrokerFor
  <2>4. tracked' = [tracked EXCEPT ![e.sid] = tracked[e.sid] \cup {e.ticket}]
    BY <1>2 DEF OnFilled
  <2>5. ASSUME NEW r \in Followed' PROVE r \in Followed \/ AsPosition(r) = e
    <3>1. r \in [sid : Strategies, ticket : Tickets] /\ r.ticket \in tracked'[r.sid]
      BY DEF Followed
    <3>2. r.ticket \in tracked[r.sid] \/ (r.sid = e.sid /\ r.ticket = e.ticket)
      BY <1>1, <2>4, <3>1 DEF TypeOK
    <3>3. CASE r.sid = e.sid /\ r.ticket = e.ticket
      <4>1. e.acct = BrokerFor(e.sid)
        BY <2>1 DEF QuietInv, Addressed
      <4> QED BY <2>1, <3>3, <4>1 DEF AsPosition, Position
    <3> QED BY <3>1, <3>2, <3>3 DEF Followed
  <2>6. Meant' \subseteq Meant \cup {e}
    <3>1. Elements(requests') = Elements(requests) /\ Target' = Target /\ closer' = closer
      BY <2>2 DEF Target
    <3>2. ASSUME NEW r \in Elements(requests) \cup Followed' PROVE AsPosition(r) \in Meant \cup {e}
      BY <2>5 DEF Meant
    <3> QED BY <2>3, <3>1, <3>2 DEF Meant
  <2>7. Heard' \subseteq Heard
    BY <2>1, <2>2, <2>6 DEF Heard, Reported, Elements, JustFilled
  <2>8. Quiet' = Quiet /\ Addressed'
    BY <2>1, <2>2 DEF Quiet, QuietInv, Addressed, Elements, BrokerFor
  <2> QED BY <2>2, <2>7, <2>8, QuietKept
<1>3. CASE OnClosed
  <2>1. Elements(closeQ') \subseteq Elements(closeQ)
    BY <1>1, <1>3, TakenElement DEF OnClosed, TypeOK
  <2>2. UNCHANGED <<account, requests, router, closer, fillQ, positions, unreported, pendings, nextTicket>>
    BY <1>3 DEF OnClosed
  <2>3. \A s \in Strategies : tracked'[s] \subseteq tracked[s]
    BY <1>1, <1>3 DEF OnClosed, TypeOK
  <2>4. Meant' \subseteq Meant
    BY <2>2, <2>3 DEF Meant, Followed, AsPosition, BrokerFor, Elements, Target
  <2>5. Heard' \subseteq Heard /\ Quiet' = Quiet /\ Addressed'
    BY <2>1, <2>2, <2>4 DEF Heard, Reported, Elements, JustFilled, Quiet, QuietInv, Addressed, BrokerFor
  <2> QED BY <2>2, <2>5, QuietKept
<1>4. CASE Environment \/ AllHandled \/ UNCHANGED vars
  <2>1. /\ UNCHANGED <<account, tracked, closer, router, fillQ, closeQ, nextTicket>>
        /\ positions' \subseteq positions /\ Quiet' \subseteq Quiet
    BY <1>4
    DEF Environment, Emit, RequestClose, BrokerSideClose, BrokerSideFill, ChangeAccount, AllHandled, vars, Quiet
  <2>2. Elements(requests') \subseteq Elements(requests) \cup Followed
    <3>1. ASSUME NEW sid \in Strategies, NEW n \in tracked[sid], RequestClose(sid, n)
          PROVE  Elements(requests') \subseteq Elements(requests) \cup Followed
      <4>1. Elements(requests') = {[sid |-> sid, ticket |-> n]}
        BY <3>1, OfferedElement DEF RequestClose
      <4>2. [sid |-> sid, ticket |-> n] \in Followed
        BY <1>1 DEF Followed, TypeOK
      <4> QED BY <4>1, <4>2
    <3>2. CASE ~\E sid \in Strategies : \E n \in tracked[sid] : RequestClose(sid, n)
      BY <1>4, <3>2 DEF Environment, Emit, BrokerSideClose, BrokerSideFill, ChangeAccount, AllHandled, vars
    <3> QED BY <3>1, <3>2
  <2>3. Meant' \subseteq Meant
    BY <2>1, <2>2 DEF Meant, Followed, AsPosition, BrokerFor, Target
  <2>4. Heard' \subseteq Heard /\ Addressed'
    BY <2>1, <2>3 DEF Heard, Reported, Elements, JustFilled, QuietInv, Addressed, BrokerFor
  <2> QED BY <2>1, <2>4, QuietKept
<1> QED BY <1>2, <1>3, <1>4 DEF RiskStep

(* Every step keeps what is quiet apart.                                   *)
LEMMA QuietNext ==
  ASSUME QuietInv, ~Reroutes, [Next]_vars
  PROVE  QuietInv'
<1>1. OwnInv' /\ TypeInv'
  BY OwnNext DEF QuietInv, OwnInv
<1>2. QuietApart' /\ Addressed'
  BY <1>1, QuietTicketed, QuietRouter, QuietCloser, QuietRest DEF Next, RouterStep, RouterOnly
<1> QED BY <1>1, <1>2 DEF QuietInv

-----------------------------------------------------------------------------
(* The cap. CapWithSlack follows from two bounds on the counter of a       *)
(* strategy: it covers the open positions, up to fills under way           *)
(* (NeverUndercounts), and with the fills and the order under way it stays *)
(* within the cap and its slack (Reserved). The first needs the monitor's  *)
(* ticket map to release the right bucket, the second that at most one     *)
(* fill is under way when the next signal is checked.                      *)
InFlight(sid) == Uncounted(sid) + IF router.pc = "placing" /\ router.sid = sid THEN 1 ELSE 0
Reserved == \A sid \in Strategies : openCount[sid] + InFlight(sid) <= Cap + Slack(sid)

OneAtATime ==
  /\ Len(fillQ) <= 1 /\ Len(closeQ) <= 1
  /\ router.pc = "check" /\ router.sid \in FetchesInfo => fillQ = <<>>
  /\ router.pc = "info" => router.sid \in FetchesInfo

(* A recorded ticket belongs to the strategy of its position, and a ticket *)
(* that no broker has issued is not recorded.                              *)
Recorded == \A p \in Known : owner[KeyOf(p)] \in {None, p.sid}
Unrecorded == \A a \in Accounts, t \in Tickets : t >= nextTicket[a] => owner[<<a, t>>] = None

CapInv ==
  /\ QuietInv
  /\ IsFiniteSet(positions)
  /\ OneAtATime
  /\ Recorded /\ Unrecorded
  /\ NeverUndercounts
  /\ Reserved

(* How many events about a strategy a queue of at most one event holds.    *)
LEMMA InQueueEmpty == \A sid, q : q = <<>> => InQueue(sid, q) = 0
<1> SUFFICES ASSUME NEW sid, NEW q, q = <<>>
             PROVE  InQueue(sid, q) = 0
  OBVIOUS
<1>1. {i \in DOMAIN q : q[i].sid = sid} = {}
  OBVIOUS
<1> QED BY <1>1, FS_EmptySet DEF InQueue

(* ... one event counts for its own strategy only.                         *)
LEMMA InQueueSingle ==
  \A sid, e : InQueue(sid, <<e>>) = IF e.sid = sid THEN 1 ELSE 0
<1> SUFFICES ASSUME NEW sid, NEW e
             PROVE  InQueue(sid, <<e>>) = IF e.sid = sid THEN 1 ELSE 0
  OBVIOUS
<1>1. CASE e.sid = sid
  <2>1. {i \in DOMAIN <<e>> : <<e>>[i].sid = sid} = {1}
    BY <1>1
  <2> QED BY <1>1, <2>1, FS_Singleton DEF InQueue
<1>2. CASE e.sid # sid
  <2>1. {i \in DOMAIN <<e>> : <<e>>[i].sid = sid} = {}
    BY <1>2
  <2> QED BY <1>2, <2>1, FS_EmptySet DEF InQueue
<1> QED BY <1>1, <1>2

(* A queue of at most one event.                                           *)
LEMMA ShortQueue ==
  ASSUME NEW S, NEW q \in Seq(S), Len(q) <= 1
  PROVE  /\ q = <<>> \/ (q = <<Head(q)>> /\ Tail(q) = <<>>)
         /\ \A sid : InQueue(sid, q) \in {0, 1}
<1>1. q = <<>> \/ (q = <<Head(q)>> /\ Tail(q) = <<>>)
  <2>1. CASE Len(q) = 0
    BY <2>1
  <2>2. CASE Len(q) = 1
    <3>1. q = <<Head(q)>>
      BY <2>2
    <3>2. Tail(q) \in Seq(S) /\ Len(Tail(q)) = 0
      BY <2>2
    <3>3. Tail(q) = <<>>
      BY <3>2, EmptySeq
    <3> QED BY <3>1, <3>3, Zenon
  <2>3. Len(q) = 0 \/ Len(q) = 1
    <3>1. Len(q) \in Nat
      BY LenProperties
    <3> QED BY ONLY <3>1, Len(q) <= 1
  <2> QED BY <2>1, <2>2, <2>3, Zenon
<1>2. ASSUME NEW sid PROVE InQueue(sid, q) \in {0, 1}
  <2>1. CASE q = <<>>
    BY <2>1, InQueueEmpty
  <2>2. CASE q = <<Head(q)>>
    <3> DEFINE e == Head(q)
    <3>1. InQueue(sid, <<e>>) \in {0, 1}
      BY InQueueSingle
    <3> QED BY <2>2, <3>1
  <2> QED BY <1>1, <2>1, <2>2
<1> QED BY <1>1, <1>2

(* Opening and closing one position changes the count of its strategy.     *)
LEMMA OfAdds ==
  ASSUME IsFiniteSet(positions), NEW p, p \notin positions, positions' = positions \cup {p}
  PROVE  /\ IsFiniteSet(positions')
         /\ \A sid : Cardinality(Of(sid))' = Cardinality(Of(sid)) + (IF p.sid = sid THEN 1 ELSE 0)
<1>1. IsFiniteSet(positions')
  BY FS_AddElement
<1>2. ASSUME NEW sid
      PROVE  Cardinality(Of(sid))' = Cardinality(Of(sid)) + (IF p.sid = sid THEN 1 ELSE 0)
  <2>1. IsFiniteSet(Of(sid)) /\ Cardinality(Of(sid)) \in Nat /\ p \notin Of(sid)
    BY FS_Subset, FS_CardinalityType DEF Of
  <2>2. CASE p.sid = sid
    <3>1. Of(sid)' = Of(sid) \cup {p}
      BY <2>2 DEF Of
    <3> QED BY <2>1, <2>2, <3>1, FS_AddElement
  <2>3. CASE p.sid # sid
    <3>1. Of(sid)' = Of(sid)
      BY <2>3 DEF Of
    <3> QED BY <2>1, <2>3, <3>1
  <2> QED BY <2>2, <2>3
<1> QED BY <1>1, <1>2

(* ... and a position that is gone counts for its strategy no more.        *)
LEMMA OfRemoves ==
  ASSUME IsFiniteSet(positions), NEW p \in positions, positions' = positions \ {p}
  PROVE  /\ IsFiniteSet(positions')
         /\ \A sid : Cardinality(Of(sid))' + (IF p.sid = sid THEN 1 ELSE 0) = Cardinality(Of(sid))
         /\ \A sid : Cardinality(Of(sid))' \in Nat
<1>1. IsFiniteSet(positions')
  BY FS_RemoveElement
<1>2. ASSUME NEW sid
      PROVE  /\ Cardinality(Of(sid))' + (IF p.sid = sid THEN 1 ELSE 0) = Cardinality(Of(sid))
             /\ Cardinality(Of(sid))' \in Nat
  <2>1. IsFiniteSet(Of(sid)) /\ Cardinality(Of(sid)) \in Nat
    BY FS_Subset, FS_CardinalityType DEF Of
  <2>2. IsFiniteSet(Of(sid)') /\ Cardinality(Of(sid)') \in Nat
    BY <1>1, FS_Subset, FS_CardinalityType DEF Of
  <2>3. CASE p.sid = sid
    <3>1. Of(sid)' = Of(sid) \ {p} /\ p \in Of(sid)
      BY <2>3 DEF Of
    <3> QED BY <2>1, <2>2, <2>3, <3>1, FS_RemoveElement
  <2>4. CASE p.sid # sid
    <3>1. Of(sid)' = Of(sid)
      BY <2>4 DEF Of
    <3> QED BY <2>1, <2>4, <3>1
  <2> QED BY <2>2, <2>3, <2>4
<1> QED BY <1>1, <1>2

(* The counts of the two bounds are natural numbers.                       *)
LEMMA CapNumbers ==
  ASSUME CapInv
  PROVE  /\ Cap \in Nat \ {0} /\ \A sid : Slack(sid) \in {0, 1}
         /\ \A sid \in Strategies : /\ Cardinality(Of(sid)) \in Nat
                                    /\ openCount[sid] \in Nat
                                    /\ InQueue(sid, fillQ) \in {0, 1}
                                    /\ InQueue(sid, closeQ) \in {0, 1}
<1>1. Cap \in Nat \ {0} /\ \A sid : Slack(sid) \in {0, 1}
  BY FlowAssumption DEF Slack
<1>2. fillQ \in Seq(Position) /\ Len(fillQ) <= 1 /\ closeQ \in Seq(Position) /\ Len(closeQ) <= 1
  BY DEF CapInv, OneAtATime, QuietInv, OwnInv, TypeInv, TypeOK
<1>3. \A sid : InQueue(sid, fillQ) \in {0, 1} /\ InQueue(sid, closeQ) \in {0, 1}
  BY <1>2, ShortQueue
<1>4. ASSUME NEW sid \in Strategies
      PROVE  Cardinality(Of(sid)) \in Nat /\ openCount[sid] \in Nat
  <2>1. Of(sid) \subseteq positions /\ IsFiniteSet(positions)
    BY DEF Of, CapInv
  <2>2. IsFiniteSet(Of(sid))
    BY <2>1, FS_Subset
  <2> QED BY <2>2, FS_CardinalityType DEF CapInv, QuietInv, OwnInv, TypeInv, TypeOK
<1> QED BY <1>1, <1>3, <1>4

(* The tickets known, and what the monitor has recorded of them.           *)
LEMMA CapRecorded ==
  ASSUME CapInv, ~Reroutes, [Next]_vars
  PROVE  Recorded' /\ Unrecorded'
<1> USE DEF riskVars, brokerVars
<1>1. OwnInv /\ OwnInv' /\ TypeInv' /\ TypeOK /\ TypeOK'
  BY OwnNext DEF CapInv, QuietInv, OwnInv, TypeInv
<1>2. Known \subseteq Position
  BY <1>1, KnownType
<1>3. ASSUME UNCHANGED owner, Known' \subseteq Known, UNCHANGED nextTicket
      PROVE  Recorded' /\ Unrecorded'
  BY <1>3 DEF CapInv, Recorded, Unrecorded, KeyOf
<1>4. CASE BrokerFills \/ BrokerAccepts \/ AnswerLost
  <2>1. /\ NewPosition \in Position /\ NewTicket(NewPosition.acct)
        /\ Known' \subseteq Known \cup {NewPosition}
    BY <1>1, <1>4, OwnTicketed
  <2>2. UNCHANGED owner
    BY <1>4 DEF BrokerFills, BrokerAccepts, AnswerLost
  <2>3. owner[KeyOf(NewPosition)] = None
    BY <1>1, <2>1, SMTT(30) DEF CapInv, Unrecorded, NewPosition, KeyOf, Position, TypeOK, Tickets
  <2>4. Recorded'
    BY <2>1, <2>2, <2>3 DEF CapInv, Recorded, KeyOf
  <2>5. \A a \in Accounts : nextTicket[a] \in Nat /\ nextTicket'[a] \in Nat /\ nextTicket[a] <= nextTicket'[a]
    <3>1. /\ nextTicket' = [nextTicket EXCEPT ![NewPosition.acct] = nextTicket[NewPosition.acct] + 1]
          /\ nextTicket \in [Accounts -> 1..(MaxSignals + MaxLost + 1)] /\ NewPosition.acct \in Accounts
      BY <1>1, <2>1 DEF NewTicket, TypeOK, Position
    <3> QED BY <3>1, FlowAssumption
  <2>6. Unrecorded'
    BY <2>2, <2>5 DEF CapInv, Unrecorded, Tickets
  <2> QED BY <2>4, <2>6
<1>5. CASE RouterOnly
  BY <1>1, <1>3, <1>5, OwnRouter
  DEF RouterOnly, TakeSignal, Suspend, InfoReplies, Refuse, RefuseOther, Place, TryAgain, FillReplies, OtherReplies
<1>6. CASE CloserStep
  BY <1>1, <1>3, <1>6, OwnCloser
  DEF CloserStep, TakeRequest, PositionsReply, BrokerClosesOnRequest, CloseFails, CloseReplies
<1>7. CASE OnFilled
  <2> DEFINE e == Head(fillQ)
  <2>1. e \in Known
    BY <1>1, <1>7, TakenElement DEF OnFilled, TypeOK, Known, Reported
  <2>2. Known' \subseteq Known /\ UNCHANGED nextTicket
    BY <1>1, <1>7, OwnRest DEF RiskStep
  <2>3. owner' = [owner EXCEPT ![KeyOf(e)] = e.sid] /\ owner \in [Keys -> Strategies \cup {None}]
    BY <1>1, <1>7 DEF OnFilled, TypeOK
  <2>4. ASSUME NEW q \in Known' PROVE owner'[KeyOf(q)] \in {None, q.sid}
    <3>1. q \in Known /\ KeyOf(q) \in Keys /\ owner[KeyOf(q)] \in {None, q.sid}
      BY <1>2, <2>2 DEF CapInv, Recorded, KeyOf, Keys, Position
    <3>2. CASE KeyOf(q) = KeyOf(e)
      <4>1. q = e
        BY <1>1, <2>1, <3>1, <3>2 DEF OwnInv, OneOwner
      <4> QED BY <2>3, <3>1, <4>1
    <3>3. CASE KeyOf(q) # KeyOf(e)
      BY <2>3, <3>1, <3>3
    <3> QED BY <3>2, <3>3
  <2>5. Recorded'
    BY <2>4 DEF Recorded, KeyOf
  <2>6. ASSUME NEW a \in Accounts, NEW n \in Tickets, n >= nextTicket'[a] PROVE owner'[<<a, n>>] = None
    <3>1. n >= nextTicket[a] /\ owner[<<a, n>>] = None
      BY <2>2, <2>6 DEF CapInv, Unrecorded
    <3>2. e.ticket < nextTicket[e.acct] /\ e.ticket \in Nat
      BY <1>1, <1>2, <2>1 DEF OwnInv, Issued, Position, Tickets
    <3>3. <<a, n>> # KeyOf(e)
      <4>1. nextTicket[a] \in Nat /\ n \in Nat
        BY <1>1, SMTT(30) DEF TypeOK, Tickets
      <4>2. a = e.acct => n # e.ticket
        BY <3>1, <3>2, <4>1
      <4> QED BY <4>2 DEF KeyOf
    <3> QED BY <2>3, <3>1, <3>3 DEF Keys
  <2>7. Unrecorded'
    BY <2>6 DEF Unrecorded
  <2> QED BY <2>5, <2>7
<1>8. CASE OnClosed
  <2>1. Known' \subseteq Known /\ UNCHANGED nextTicket
    BY <1>1, <1>8, OwnRest DEF RiskStep
  <2>2. owner' = [owner EXCEPT ![KeyOf(Head(closeQ))] = None] /\ owner \in [Keys -> Strategies \cup {None}]
    BY <1>1, <1>8 DEF OnClosed, TypeOK
  <2>3. \A k \in Keys : owner'[k] \in {None, owner[k]}
    BY <2>2
  <2>4. \A p \in Known : KeyOf(p) \in Keys
    BY <1>2 DEF KeyOf, Keys, Position
  <2>5. Recorded'
    BY <2>1, <2>3, <2>4 DEF CapInv, Recorded, KeyOf
  <2>6. Unrecorded'
    BY <2>1, <2>3 DEF CapInv, Unrecorded, Keys
  <2> QED BY <2>5, <2>6
<1>9. CASE Environment \/ AllHandled \/ UNCHANGED vars
  BY <1>1, <1>3, <1>9, OwnRest
  DEF Environment, Emit, RequestClose, BrokerSideClose, BrokerSideFill, ChangeAccount, AllHandled, vars
<1> QED BY <1>4, <1>5, <1>6, <1>7, <1>8, <1>9 DEF Next, RouterStep, RouterOnly, RiskStep

(* One event at a time: a broker's answer is handled when the queue it     *)
(* goes to is empty, and a signal is checked after it when the router has  *)
(* awaited the symbol info.                                                *)
LEMMA CapShape ==
  ASSUME CapInv, [Next]_vars
  PROVE  IsFiniteSet(positions)' /\ OneAtATime'
<1> USE DEF riskVars, brokerVars
<1>1. TypeOK /\ IsFiniteSet(positions) /\ OneAtATime
  BY DEF CapInv, QuietInv, OwnInv, TypeInv
<1>2. positions' \subseteq positions \/ \E p : positions' = positions \cup {p}
  BY DEF Next, RouterStep, CloserStep, RiskStep, Environment, AllHandled, vars, TakeSignal,
     Suspend, InfoReplies, Refuse, RefuseOther, Place, BrokerFills, BrokerAccepts, TryAgain, AnswerLost,
     FillReplies, OtherReplies, TakeRequest, PositionsReply, BrokerClosesOnRequest, CloseFails,
     CloseReplies, OnFilled, OnClosed, Emit, RequestClose, BrokerSideClose, BrokerSideFill, ChangeAccount
<1>3. IsFiniteSet(positions)'
  BY <1>1, <1>2, FS_Subset, FS_AddElement
<1>4. OneAtATime'
  <2>1. CASE FillReplies
    <3>1. Len(fillQ') <= 1 /\ router'.pc = "idle" /\ UNCHANGED closeQ
      BY <2>1 , FlowAssumption DEF FillReplies, Offer, RouterIdle
    <3> QED BY <1>1, <3>1 DEF OneAtATime
  <2>2. CASE CloseReplies
    <3>1. Len(closeQ') <= 1 /\ UNCHANGED <<router, fillQ>>
      BY <2>2, FlowAssumption DEF CloseReplies, Offer
    <3> QED BY <1>1, <3>1 DEF OneAtATime
  <2>3. CASE OnFilled
    <3>1. Len(fillQ') <= 1 /\ UNCHANGED <<router, closeQ>> /\ fillQ # <<>>
      BY <1>1, <2>3, TakeType DEF OnFilled, OneAtATime, TypeOK
    <3> QED BY <1>1, <3>1 DEF OneAtATime
  <2>4. CASE OnClosed
    <3>1. Len(closeQ') <= 1 /\ UNCHANGED <<router, fillQ>>
      BY <1>1, <2>4, TakeType DEF OnClosed, OneAtATime, TypeOK
    <3> QED BY <1>1, <3>1 DEF OneAtATime
  <2>5. CASE TakeSignal
    BY <1>1, <2>5 DEF TakeSignal, OneAtATime
  <2>6. CASE InfoReplies
    BY <1>1, <2>6 DEF InfoReplies, OneAtATime
  <2>7. CASE Place \/ BrokerFills \/ BrokerAccepts \/ TryAgain \/ AnswerLost
    <3>1. router'.pc \in {"placing", "filled", "submitted"} /\ UNCHANGED <<fillQ, closeQ>>
      BY <1>1, <2>7, RouterFields DEF Place, BrokerFills, BrokerAccepts, TryAgain, AnswerLost, Routed
    <3> QED BY <1>1, <3>1 DEF OneAtATime
  <2>8. CASE Suspend \/ Refuse \/ RefuseOther \/ OtherReplies
    BY <1>1, <2>8 DEF Suspend, Refuse, RefuseOther, OtherReplies, RouterIdle, OneAtATime
  <2>9. CASE (CloserStep /\ ~CloseReplies) \/ Environment \/ AllHandled \/ UNCHANGED vars
    <3>1. UNCHANGED <<router, fillQ, closeQ>>
      BY <2>9 DEF CloserStep, Environment, AllHandled, vars, TakeRequest, PositionsReply,
         BrokerClosesOnRequest, CloseFails, Emit, RequestClose, BrokerSideClose, BrokerSideFill,
         ChangeAccount
    <3> QED BY <1>1, <3>1 DEF OneAtATime
  <2> QED BY <2>1, <2>2, <2>3, <2>4, <2>5, <2>6, <2>7, <2>8, <2>9
          DEF Next, RouterStep, RiskStep
<1> QED BY <1>3, <1>4

(* Where a strategy's signal, and its close, stand.                        *)
At(pc, sid) == router.pc = pc /\ router.sid = sid
Closed(sid) == closer.pc = "closed" /\ closer.sid = sid

(* A step that neither makes, counts nor closes a fill keeps the bounds.   *)
LEMMA CapQuiet ==
  ASSUME CapInv, UNCHANGED <<positions, fillQ, closeQ, openCount>>,
         \A sid \in Strategies : /\ At("filled", sid)' <=> At("filled", sid)
                                 /\ At("placing", sid)' => At("placing", sid)
                                 /\ Closed(sid)' <=> Closed(sid)
  PROVE  NeverUndercounts' /\ Reserved'
<1>1. ASSUME NEW sid \in Strategies
      PROVE  /\ Uncounted(sid)' = Uncounted(sid)
             /\ Unreleased(sid)' = Unreleased(sid)
             /\ Of(sid)' = Of(sid)
  BY DEF Uncounted, Unreleased, Of, InQueue, At, Closed
<1>2. NeverUndercounts'
  BY <1>1 DEF CapInv, NeverUndercounts
<1>3. ASSUME NEW sid \in Strategies
      PROVE  openCount'[sid] + InFlight(sid)' <= Cap + Slack(sid)
  <2>1. openCount[sid] + InFlight(sid) <= Cap + Slack(sid) /\ openCount'[sid] = openCount[sid]
    BY DEF CapInv, Reserved
  <2>2. openCount[sid] \in Nat /\ Cap \in Nat /\ Slack(sid) \in Nat /\ Uncounted(sid) \in Nat
    BY CapNumbers DEF Uncounted
  <2>3. CASE At("placing", sid)'
    BY <1>1, <2>1, <2>3 DEF InFlight, At
  <2>4. CASE ~At("placing", sid)'
    <3>1. InFlight(sid)' = Uncounted(sid) + 0
      BY <1>1, <2>4 DEF InFlight, At
    <3>2. InFlight(sid) = Uncounted(sid) \/ InFlight(sid) = Uncounted(sid) + 1
      BY <2>2 DEF InFlight
    <3> QED BY <2>1, <2>2, <3>1, <3>2
  <2> QED BY <2>3, <2>4
<1> QED BY <1>2, <1>3 DEF Reserved

(* Placing takes a place under the cap: the strategy is below it, and of   *)
(* the fills made for it at most one is not counted yet, none if the       *)
(* router awaited the symbol info.                                         *)
LEMMA CapPlace ==
  ASSUME CapInv, Place
  PROVE  NeverUndercounts' /\ Reserved'
<1> USE DEF riskVars, brokerVars
<1>1. TypeOK /\ router.pc = "check" /\ router' = [router EXCEPT !.pc = "placing"]
  BY DEF CapInv, QuietInv, OwnInv, TypeInv, Place
<1>2. router'.pc = "placing" /\ router'.sid = router.sid
  BY <1>1, RouterFields DEF Routed
<1>3. UNCHANGED <<positions, fillQ, closeQ, openCount, closer>>
  BY DEF Place
<1>4. ASSUME NEW sid \in Strategies
      PROVE  /\ Uncounted(sid)' = InQueue(sid, fillQ) + 0
             /\ Uncounted(sid) = InQueue(sid, fillQ) + 0
             /\ Unreleased(sid)' = Unreleased(sid)
             /\ Of(sid)' = Of(sid)
  BY <1>1, <1>2, <1>3 DEF Uncounted, Unreleased, Of, InQueue
<1>5. NeverUndercounts'
  BY <1>3, <1>4 DEF CapInv, NeverUndercounts
<1>6. ASSUME NEW sid \in Strategies
      PROVE  openCount'[sid] + InFlight(sid)' <= Cap + Slack(sid)
  <2>1. openCount[sid] \in Nat /\ Cap \in Nat /\ Slack(sid) \in {0, 1} /\ InQueue(sid, fillQ) \in {0, 1}
    BY CapNumbers
  <2>2. CASE sid = router.sid
    <3>1. openCount[sid] < Cap
      BY <2>2 DEF Place, Allowed
    <3>2. InFlight(sid)' = InQueue(sid, fillQ) + 0 + 1
      BY <1>2, <1>4, <2>2 DEF InFlight
    <3>3. InQueue(sid, fillQ) <= Slack(sid)
      <4>1. CASE sid \in FetchesInfo
        <5>1. fillQ = <<>>
          BY <1>1, <2>2, <4>1 DEF CapInv, OneAtATime
        <5> QED BY <2>1, <5>1, InQueueEmpty
      <4>2. CASE sid \notin FetchesInfo
        BY <2>1, <4>2 DEF Slack
      <4> QED BY <4>1, <4>2
    <3> QED BY <1>3, <2>1, <3>1, <3>2, <3>3
  <2>3. CASE sid # router.sid
    <3>1. InFlight(sid)' = InQueue(sid, fillQ) + 0 + 0 /\ InFlight(sid) = InQueue(sid, fillQ) + 0 + 0
      BY <1>1, <1>2, <1>4, <2>3 DEF InFlight
    <3>2. openCount[sid] + InFlight(sid) <= Cap + Slack(sid)
      BY DEF CapInv, Reserved
    <3> QED BY <1>3, <2>1, <3>1, <3>2
  <2> QED BY <2>2, <2>3
<1> QED BY <1>5, <1>6 DEF Reserved

(* A fill at the broker: one position more, and one fill not counted yet.  *)
LEMMA CapBrokerFills ==
  ASSUME CapInv, BrokerFills
  PROVE  NeverUndercounts' /\ Reserved'
<1> USE DEF riskVars, brokerVars
<1>1. TypeOK /\ IsFiniteSet(positions) /\ Issued /\ positions \subseteq Known
  BY DEF CapInv, QuietInv, OwnInv, TypeInv, Known, Open
<1>2. router.pc = "placing" /\ router'.pc = "filled" /\ router'.sid = router.sid
  BY <1>1, RouterFields DEF BrokerFills, Routed
<1>3. UNCHANGED <<fillQ, closeQ, openCount, closer>> /\ positions' = positions \cup {NewPosition}
  BY DEF BrokerFills, NewPosition
<1>4. NewPosition \notin positions
  <2>1. router.acct \in Accounts /\ nextTicket[router.acct] \in Nat
    BY <1>1, <1>2, RouterFields DEF TypeOK
  <2>2. ~(nextTicket[router.acct] < nextTicket[router.acct])
    BY <2>1
  <2> QED BY <1>1, <2>2 DEF Issued, NewPosition
<1>5. ASSUME NEW sid \in Strategies
      PROVE  /\ Cardinality(Of(sid))' + Unreleased(sid)' <= openCount'[sid] + Uncounted(sid)'
             /\ openCount'[sid] + InFlight(sid)' <= Cap + Slack(sid)
  <2>1. /\ openCount[sid] \in Nat /\ Cap \in Nat /\ Slack(sid) \in {0, 1}
        /\ InQueue(sid, fillQ) \in {0, 1} /\ InQueue(sid, closeQ) \in {0, 1}
        /\ Cardinality(Of(sid)) \in Nat
    BY CapNumbers
  <2>2. /\ Cardinality(Of(sid)) + Unreleased(sid) <= openCount[sid] + Uncounted(sid)
        /\ openCount[sid] + InFlight(sid) <= Cap + Slack(sid)
    BY DEF CapInv, NeverUndercounts, Reserved
  <2>3. Unreleased(sid)' = Unreleased(sid) /\ Unreleased(sid) \in Nat
    BY <1>3, <2>1 DEF Unreleased, InQueue
  <2>4. Cardinality(Of(sid))' = Cardinality(Of(sid)) + (IF NewPosition.sid = sid THEN 1 ELSE 0)
    BY <1>1, <1>3, <1>4, OfAdds
  <2>5. CASE sid = router.sid
    <3>1. /\ Uncounted(sid) = InQueue(sid, fillQ) + 0 /\ Uncounted(sid)' = InQueue(sid, fillQ) + 1
          /\ InFlight(sid) = InQueue(sid, fillQ) + 0 + 1 /\ InFlight(sid)' = InQueue(sid, fillQ) + 1 + 0
      BY <1>2, <1>3, <2>5 DEF Uncounted, InFlight, InQueue
    <3>2. Cardinality(Of(sid))' = Cardinality(Of(sid)) + 1
      BY <2>4, <2>5 DEF NewPosition
    <3> QED BY <1>3, <2>1, <2>2, <2>3, <3>1, <3>2
  <2>6. CASE sid # router.sid
    <3>1. /\ Uncounted(sid) = InQueue(sid, fillQ) + 0 /\ Uncounted(sid)' = InQueue(sid, fillQ) + 0
          /\ InFlight(sid) = InQueue(sid, fillQ) + 0 + 0 /\ InFlight(sid)' = InQueue(sid, fillQ) + 0 + 0
      BY <1>2, <1>3, <2>6 DEF Uncounted, InFlight, InQueue
    <3>2. Cardinality(Of(sid))' = Cardinality(Of(sid))
      BY <2>1, <2>4, <2>6 DEF NewPosition
    <3> QED BY <1>3, <2>1, <2>2, <2>3, <3>1, <3>2
  <2> QED BY <2>5, <2>6
<1> QED BY <1>5 DEF NeverUndercounts, Reserved

(* The fill is published, and counted: it changes place in the sums.       *)
LEMMA CapFillReplies ==
  ASSUME CapInv, FillReplies
  PROVE  NeverUndercounts' /\ Reserved'
<1> USE DEF riskVars, brokerVars
<1> DEFINE e == [acct |-> FillAccount, ticket |-> router.ticket, sid |-> router.sid]
<1>1. router.pc = "filled" /\ router'.pc = "idle" /\ fillQ = <<>>
  BY DEF FillReplies, RouterIdle
<1>2. fillQ' = <<e>>
  BY <1>1, FlowAssumption DEF FillReplies, Offer
<1>3. UNCHANGED <<positions, closeQ, openCount, closer>>
  BY DEF FillReplies
<1>4. ASSUME NEW sid \in Strategies
      PROVE  /\ Uncounted(sid)' = Uncounted(sid) /\ InFlight(sid)' = InFlight(sid)
             /\ Unreleased(sid)' = Unreleased(sid) /\ Of(sid)' = Of(sid)
  <2>1. InQueue(sid, fillQ) = 0 /\ InQueue(sid, fillQ)' = IF router.sid = sid THEN 1 ELSE 0
    <3>1. InQueue(sid, fillQ)' = InQueue(sid, <<e>>)
      BY <1>2 DEF InQueue
    <3>2. InQueue(sid, <<e>>) = IF e.sid = sid THEN 1 ELSE 0
      BY InQueueSingle
    <3> QED BY <1>1, <3>1, <3>2, InQueueEmpty
  <2>2. Uncounted(sid)' = Uncounted(sid)
    BY <1>1, <2>1 DEF Uncounted
  <2>3. InFlight(sid)' = InFlight(sid)
    BY <1>1, <2>2 DEF InFlight
  <2> QED BY <1>3, <2>2, <2>3 DEF Unreleased, Of, InQueue
<1> QED BY <1>3, <1>4 DEF CapInv, NeverUndercounts, Reserved

(* risk.fill counts the fill: it moves from the queue to the counter.      *)
LEMMA CapOnFilled ==
  ASSUME CapInv, OnFilled
  PROVE  NeverUndercounts' /\ Reserved'
<1> USE DEF riskVars, brokerVars
<1> DEFINE e == Head(fillQ)
<1>1. fillQ \in Seq(Position) /\ Len(fillQ) <= 1 /\ fillQ # <<>> /\ TypeOK
  BY DEF CapInv, QuietInv, OwnInv, TypeInv, TypeOK, OneAtATime, OnFilled
<1>2. fillQ = <<e>> /\ fillQ' = <<>> /\ e.sid \in Strategies
  <2>1. fillQ = <<e>> /\ Tail(fillQ) = <<>>
    BY <1>1, ShortQueue
  <2>2. e \in Position
    BY <1>1, TakeType
  <2> QED BY <2>1, <2>2 DEF OnFilled, Position
<1>3. UNCHANGED <<positions, closeQ, closer, router>>
  BY DEF OnFilled
<1>4. openCount' = [openCount EXCEPT ![e.sid] = openCount[e.sid] + 1] /\ openCount \in [Strategies -> Nat]
  BY <1>1 DEF OnFilled, TypeOK
<1>5. ASSUME NEW sid \in Strategies
      PROVE  /\ openCount'[sid] + Uncounted(sid)' = openCount[sid] + Uncounted(sid)
             /\ openCount'[sid] + InFlight(sid)' = openCount[sid] + InFlight(sid)
             /\ Unreleased(sid)' = Unreleased(sid) /\ Of(sid)' = Of(sid)
  <2>1. InQueue(sid, fillQ)' = 0 /\ InQueue(sid, fillQ) = IF e.sid = sid THEN 1 ELSE 0
    <3>1. InQueue(sid, <<e>>) = IF e.sid = sid THEN 1 ELSE 0
      BY InQueueSingle
    <3>2. InQueue(sid, fillQ)' = 0
      BY <1>2, InQueueEmpty DEF InQueue
    <3> QED BY <1>2, <3>1, <3>2
  <2>2. openCount'[sid] = openCount[sid] + InQueue(sid, fillQ) /\ openCount[sid] \in Nat
    BY <1>2, <1>4, <2>1
  <2> DEFINE f == IF router.pc = "filled" /\ router.sid = sid THEN 1 ELSE 0
             g == IF router.pc = "placing" /\ router.sid = sid THEN 1 ELSE 0
  <2>3. /\ Uncounted(sid) = InQueue(sid, fillQ) + f /\ Uncounted(sid)' = 0 + f
        /\ InFlight(sid) = InQueue(sid, fillQ) + f + g /\ InFlight(sid)' = 0 + f + g
    BY <1>3, <2>1 DEF Uncounted, InFlight
  <2>4. f \in Nat /\ g \in Nat /\ InQueue(sid, fillQ) \in Nat
    BY <2>1
  <2> HIDE DEF f, g, e
  <2>5. /\ openCount'[sid] + Uncounted(sid)' = openCount[sid] + Uncounted(sid)
        /\ openCount'[sid] + InFlight(sid)' = openCount[sid] + InFlight(sid)
    BY <2>2, <2>3, <2>4
  <2> QED BY <1>3, <2>5 DEF Unreleased, Of, InQueue
<1> QED BY <1>5 DEF CapInv, NeverUndercounts, Reserved

(* Steps that leave the fills and the counters alone keep Reserved.        *)
LEMMA ReservedKept ==
  ASSUME CapInv, UNCHANGED <<router, fillQ, openCount>>
  PROVE  /\ Reserved'
         /\ \A sid : Uncounted(sid)' = Uncounted(sid)
<1>1. ASSUME NEW sid PROVE Uncounted(sid)' = Uncounted(sid) /\ InFlight(sid)' = InFlight(sid)
  BY DEF Uncounted, InFlight, InQueue
<1> QED BY <1>1 DEF CapInv, Reserved

(* What handle_close() closes is a position whose fill was answered: the   *)
(* one it was asked for.                                                   *)
LEMMA ClosedHeard ==
  ASSUME CapInv, BrokerClosesOnRequest
  PROVE  \E p \in positions : p = Target /\ positions' = positions \ {p} /\ UNCHANGED unreported
<1>1. TypeOK /\ OneOwner /\ QuietApart
  BY DEF CapInv, QuietInv, OwnInv, TypeInv
<1>2. closer.pc = "closing"
  BY DEF BrokerClosesOnRequest
<1>3. PICK p \in Open : /\ p.acct = closer.acct /\ p.ticket = closer.ticket
                        /\ positions' = positions \ {p} /\ unreported' = unreported \ {p}
  BY DEF BrokerClosesOnRequest
<1>4. p \in Known /\ Target \in Known /\ KeyOf(p) = KeyOf(Target)
  BY <1>2, <1>3 DEF Known, Found, Target, KeyOf
<1>5. p = Target
  BY <1>1, <1>4 DEF OneOwner
<1>6. Target \notin unreported
  BY <1>1, <1>2 DEF QuietApart, Heard, Meant, Quiet
<1> QED BY <1>3, <1>5, <1>6 DEF Open

(* A close at the broker on request: one position less, of the strategy    *)
(* whose close is reported.                                                *)
LEMMA CapBrokerCloses ==
  ASSUME CapInv, BrokerClosesOnRequest
  PROVE  NeverUndercounts' /\ Reserved'
<1> USE DEF riskVars
<1>1. TypeOK /\ OneOwner /\ IsFiniteSet(positions)
  BY DEF CapInv, QuietInv, OwnInv, TypeInv
<1>2. closer.pc = "closing" /\ closer'.pc = "closed" /\ closer'.sid = closer.sid
  BY <1>1, CloserFields DEF BrokerClosesOnRequest, Closes
<1>3. UNCHANGED <<router, fillQ, closeQ, openCount>>
  BY DEF BrokerClosesOnRequest
<1>4. PICK p \in positions : p = Target /\ positions' = positions \ {p}
  BY ClosedHeard
<1>5. p.sid = closer.sid
  BY <1>4 DEF Target
<1>6. ASSUME NEW sid \in Strategies
      PROVE  Cardinality(Of(sid))' + Unreleased(sid)' <= openCount'[sid] + Uncounted(sid)'
  <2>1. /\ Cardinality(Of(sid))' + (IF p.sid = sid THEN 1 ELSE 0) = Cardinality(Of(sid))
        /\ Cardinality(Of(sid))' \in Nat
    BY <1>1, <1>4, OfRemoves
  <2>2. /\ InQueue(sid, closeQ) \in {0, 1} /\ InQueue(sid, closeQ)' = InQueue(sid, closeQ)
        /\ Cardinality(Of(sid)) \in Nat
    BY <1>3, CapNumbers DEF InQueue
  <2>3. Cardinality(Of(sid)) + Unreleased(sid) <= openCount'[sid] + Uncounted(sid)'
    BY <1>3, ReservedKept DEF CapInv, NeverUndercounts
  <2>4. CASE sid = closer.sid
    <3>1. Unreleased(sid) = InQueue(sid, closeQ) + 0 /\ Unreleased(sid)' = InQueue(sid, closeQ) + 1
      BY <1>2, <2>2, <2>4 DEF Unreleased
    <3>2. Cardinality(Of(sid))' + 1 = Cardinality(Of(sid))
      BY <1>5, <2>1, <2>4
    <3> QED BY <2>1, <2>2, <2>3, <3>1, <3>2
  <2>5. CASE sid # closer.sid
    <3>1. Unreleased(sid) = InQueue(sid, closeQ) + 0 /\ Unreleased(sid)' = InQueue(sid, closeQ) + 0
      BY <1>2, <2>2, <2>5 DEF Unreleased
    <3>2. Cardinality(Of(sid))' = Cardinality(Of(sid))
      BY <1>5, <2>1, <2>2, <2>5
    <3> QED BY <2>1, <2>2, <2>3, <3>1, <3>2
  <2> QED BY <2>4, <2>5
<1> QED BY <1>3, <1>6, ReservedKept DEF NeverUndercounts

(* The close is published: it changes place in the sum.                    *)
LEMMA CapCloseReplies ==
  ASSUME CapInv, CloseReplies
  PROVE  NeverUndercounts' /\ Reserved'
<1> USE DEF riskVars, brokerVars
<1>1. closer.pc = "closed" /\ closer'.pc = "idle" /\ closeQ = <<>>
  BY DEF CloseReplies, CloserIdle
<1>2. closeQ' = <<Target>>
  BY <1>1, FlowAssumption DEF CloseReplies, Offer
<1>3. UNCHANGED <<positions, fillQ, openCount, router>>
  BY DEF CloseReplies
<1>4. ASSUME NEW sid \in Strategies
      PROVE  Unreleased(sid)' = Unreleased(sid) /\ Of(sid)' = Of(sid)
  <2>1. InQueue(sid, closeQ) = 0 /\ InQueue(sid, closeQ)' = IF closer.sid = sid THEN 1 ELSE 0
    <3> DEFINE e == Target
    <3>1. InQueue(sid, closeQ)' = InQueue(sid, <<e>>)
      BY <1>2 DEF InQueue
    <3>2. InQueue(sid, <<e>>) = IF e.sid = sid THEN 1 ELSE 0
      BY InQueueSingle
    <3> QED BY <1>1, <3>1, <3>2, InQueueEmpty DEF Target
  <2> QED BY <1>1, <1>3, <2>1 DEF Unreleased, Of
<1> QED BY <1>3, <1>4, ReservedKept DEF CapInv, NeverUndercounts

(* The close is counted: the ticket map releases a place of the strategy   *)
(* that the position belonged to, or none.                                 *)
LEMMA CapOnClosed ==
  ASSUME CapInv, ~Reroutes, OnClosed
  PROVE  NeverUndercounts' /\ Reserved'
<1> USE DEF riskVars, brokerVars
<1> DEFINE e == Head(closeQ)
<1>1. closeQ \in Seq(Position) /\ Len(closeQ) <= 1 /\ closeQ # <<>> /\ TypeOK
  BY DEF CapInv, QuietInv, OwnInv, TypeInv, TypeOK, OneAtATime, OnClosed
<1>2. closeQ = <<e>> /\ closeQ' = <<>>
  BY <1>1, ShortQueue DEF OnClosed
<1>3. UNCHANGED <<positions, fillQ, closer, router>>
  BY DEF OnClosed
<1>4. e \in Known
  BY <1>1, TakenElement DEF Known, Reported
<1>5. Bucket(e) \in {None, e.sid}
  BY <1>4 DEF CapInv, Recorded, Bucket
<1>6. openCount' = [s \in Strategies |-> IF s = Bucket(e) /\ openCount[s] > 0
                                         THEN openCount[s] - 1 ELSE openCount[s]]
  BY DEF OnClosed
<1>7. ASSUME NEW sid \in Strategies
      PROVE  /\ Cardinality(Of(sid))' + Unreleased(sid)' <= openCount'[sid] + Uncounted(sid)'
             /\ openCount'[sid] + InFlight(sid)' <= Cap + Slack(sid)
  <2>1. /\ openCount[sid] \in Nat /\ Cap \in Nat /\ Slack(sid) \in {0, 1}
        /\ InQueue(sid, fillQ) \in {0, 1} /\ Cardinality(Of(sid)) \in Nat
    BY CapNumbers
  <2>2. /\ Cardinality(Of(sid)) + Unreleased(sid) <= openCount[sid] + Uncounted(sid)
        /\ openCount[sid] + InFlight(sid) <= Cap + Slack(sid)
    BY DEF CapInv, NeverUndercounts, Reserved
  <2>3. /\ Uncounted(sid)' = Uncounted(sid) /\ InFlight(sid)' = InFlight(sid)
        /\ Of(sid)' = Of(sid)
    BY <1>3 DEF Uncounted, InFlight, Of, InQueue
  <2>4. Uncounted(sid) \in Nat /\ InFlight(sid) \in Nat
    BY <2>1 DEF Uncounted, InFlight
  <2>5. InQueue(sid, closeQ)' = 0 /\ InQueue(sid, closeQ) = IF e.sid = sid THEN 1 ELSE 0
    <3>1. InQueue(sid, <<e>>) = IF e.sid = sid THEN 1 ELSE 0
      BY InQueueSingle
    <3>2. InQueue(sid, closeQ)' = 0
      BY <1>2, InQueueEmpty DEF InQueue
    <3> QED BY <1>2, <3>1, <3>2
  <2> DEFINE c == IF closer.pc = "closed" /\ closer.sid = sid THEN 1 ELSE 0
  <2>6. Unreleased(sid) = InQueue(sid, closeQ) + c /\ Unreleased(sid)' = 0 + c /\ c \in Nat
    BY <1>3, <2>5 DEF Unreleased
  <2>7. openCount'[sid] \in Nat /\ openCount'[sid] <= openCount[sid] /\ openCount[sid] <= openCount'[sid] + 1
    BY <1>6, <2>1
  <2>8. e.sid # sid => openCount'[sid] = openCount[sid]
    BY <1>5, <1>6, FlowAssumption
  <2> HIDE DEF c, e
  <2>9. Cardinality(Of(sid))' + Unreleased(sid)' <= openCount'[sid] + Uncounted(sid)'
    <3>1. CASE e.sid = sid
      <4>1. Unreleased(sid) = Unreleased(sid)' + 1 /\ Unreleased(sid)' \in Nat
        BY <2>5, <2>6, <3>1
      <4> QED BY <2>1, <2>2, <2>3, <2>4, <2>7, <4>1
    <3>2. CASE e.sid # sid
      <4>1. Unreleased(sid) = Unreleased(sid)' /\ Unreleased(sid)' \in Nat
        BY <2>5, <2>6, <3>2
      <4> QED BY <2>1, <2>2, <2>3, <2>4, <2>8, <3>2, <4>1
    <3> QED BY <3>1, <3>2
  <2>10. openCount'[sid] + InFlight(sid)' <= Cap + Slack(sid)
    BY <2>1, <2>2, <2>3, <2>4, <2>7
  <2> QED BY <2>9, <2>10
<1> QED BY <1>7 DEF NeverUndercounts, Reserved

(* A stop loss or take profit only lowers the number of positions.         *)
LEMMA CapSideClose ==
  ASSUME CapInv, NEW p \in positions, BrokerSideClose(p)
  PROVE  NeverUndercounts' /\ Reserved'
<1> USE DEF riskVars
<1>1. UNCHANGED <<router, fillQ, closeQ, closer, openCount>> /\ positions' = positions \ {p}
  BY DEF BrokerSideClose
<1>2. ASSUME NEW sid \in Strategies
      PROVE  Cardinality(Of(sid))' + Unreleased(sid)' <= openCount'[sid] + Uncounted(sid)'
  <2>1. Cardinality(Of(sid))' \in Nat /\ Cardinality(Of(sid))' <= Cardinality(Of(sid)) /\ Cardinality(Of(sid)) \in Nat
    <3>1. /\ Cardinality(Of(sid))' + (IF p.sid = sid THEN 1 ELSE 0) = Cardinality(Of(sid))
          /\ Cardinality(Of(sid))' \in Nat
      BY <1>1, OfRemoves DEF CapInv
    <3> QED BY <3>1, CapNumbers
  <2>2. Cardinality(Of(sid)) + Unreleased(sid) <= openCount'[sid] + Uncounted(sid)'
    BY <1>1, ReservedKept DEF CapInv, NeverUndercounts
  <2>3. Unreleased(sid)' = Unreleased(sid) /\ Unreleased(sid) \in Nat
    <3>1. InQueue(sid, closeQ) \in Nat
      BY CapNumbers
    <3> QED BY <1>1, <3>1 DEF Unreleased, InQueue
  <2>4. openCount'[sid] + Uncounted(sid)' \in Nat
    <3>1. openCount[sid] \in Nat /\ InQueue(sid, fillQ) \in Nat
      BY CapNumbers
    <3>2. Uncounted(sid) \in Nat
      BY <3>1 DEF Uncounted
    <3> QED BY <1>1, <3>1, <3>2, ReservedKept
  <2> QED BY <2>1, <2>2, <2>3, <2>4
<1> QED BY <1>1, <1>2, ReservedKept DEF NeverUndercounts

(* The steps that touch neither a fill, a close nor a counter.             *)
LEMMA CapOthers ==
  ASSUME CapInv, [Next]_vars,
         ~(Place \/ BrokerFills \/ FillReplies \/ RiskStep \/ BrokerClosesOnRequest \/ CloseReplies),
         ~\E p \in positions : BrokerSideClose(p)
  PROVE  NeverUndercounts' /\ Reserved'
<1> USE DEF riskVars, brokerVars
<1>1. TypeOK
  BY DEF CapInv, QuietInv, OwnInv, TypeInv
<1>2. CASE \/ TakeSignal \/ Suspend \/ InfoReplies \/ Refuse \/ RefuseOther
           \/ BrokerAccepts \/ TryAgain \/ AnswerLost \/ OtherReplies
  <2>1. UNCHANGED <<positions, fillQ, closeQ, openCount, closer>>
    BY <1>2
    DEF TakeSignal, Suspend, InfoReplies, Refuse, RefuseOther, BrokerAccepts, TryAgain, AnswerLost, OtherReplies
  <2>2. UNCHANGED router \/ (router.pc # "filled" /\ router'.pc \notin {"filled", "placing"})
    <3>1. CASE TakeSignal \/ Suspend \/ Refuse \/ RefuseOther \/ OtherReplies
      BY <3>1 DEF TakeSignal, Suspend, Refuse, RefuseOther, OtherReplies, RouterIdle
    <3>2. CASE InfoReplies \/ BrokerAccepts \/ TryAgain \/ AnswerLost
      BY <1>1, <3>2, RouterFields DEF InfoReplies, BrokerAccepts, TryAgain, AnswerLost, Routed
    <3> QED BY <1>2, <3>1, <3>2
  <2> QED BY <2>1, <2>2, CapQuiet DEF At, Closed
<1>3. CASE TakeRequest \/ PositionsReply \/ CloseFails
  <2>1. UNCHANGED <<positions, fillQ, closeQ, openCount, router>>
    BY <1>3 DEF TakeRequest, PositionsReply, CloseFails
  <2>2. closer.pc # "closed" /\ closer'.pc # "closed"
    BY <1>1, <1>3, CloserFields DEF TakeRequest, PositionsReply, CloseFails, CloserIdle, Closes
  <2> QED BY <2>1, <2>2, CapQuiet DEF At, Closed
<1>4. CASE Environment \/ AllHandled \/ UNCHANGED vars
  <2>1. UNCHANGED <<positions, fillQ, closeQ, openCount, router, closer>>
    BY <1>4
    DEF Environment, Emit, RequestClose, BrokerSideClose, BrokerSideFill, ChangeAccount, AllHandled, vars, Open
  <2> QED BY <2>1, CapQuiet DEF At, Closed
<1> QED BY <1>2, <1>3, <1>4 DEF Next, RouterStep, CloserStep, RiskStep

(* Every step keeps the bounds, without reloads.                           *)
LEMMA CapNext ==
  ASSUME CapInv, ~Reroutes, [Next]_vars
  PROVE  CapInv'
<1>1. QuietInv'
  BY QuietNext DEF CapInv
<1>2. NeverUndercounts' /\ Reserved'
  BY CapPlace, CapBrokerFills, CapFillReplies, CapOnFilled, CapOnClosed, CapBrokerCloses,
     CapCloseReplies, CapSideClose, CapOthers DEF RiskStep
<1> QED BY <1>1, <1>2, CapRecorded, CapShape DEF CapInv

(* At the start nothing is open, under way or counted.                     *)
LEMMA CapInit == Init => CapInv
<1> SUFFICES ASSUME Init PROVE CapInv
  OBVIOUS
<1>1. OwnInv
  BY TypeInit
  DEF OwnInv, Init, Issued, OneOwner, Known, Open, Found, Reported, Elements, Mapped, CloserIdle, RouterIdle
<1>2. Known = {}
  BY DEF Init, Known, Open, Found, Reported, Elements, CloserIdle, RouterIdle
<1>3. IsFiniteSet(positions) /\ OneAtATime
  BY FS_EmptySet DEF Init, OneAtATime, RouterIdle
<1>4. Recorded /\ Unrecorded
  BY <1>2 DEF Recorded, Unrecorded, Init, Keys
<1>5. ASSUME NEW sid \in Strategies
      PROVE  /\ Cardinality(Of(sid)) = 0 /\ openCount[sid] = 0
             /\ Uncounted(sid) = 0 /\ Unreleased(sid) = 0 /\ InFlight(sid) = 0
  <2>1. Of(sid) = {} /\ openCount[sid] = 0
    BY DEF Init, Of
  <2>2. InQueue(sid, fillQ) = 0 /\ InQueue(sid, closeQ) = 0
    BY InQueueEmpty DEF Init
  <2>3. Uncounted(sid) = 0 /\ Unreleased(sid) = 0
    BY <2>2 DEF Init, Uncounted, Unreleased, RouterIdle, CloserIdle
  <2>4. InFlight(sid) = 0
    BY <2>3 DEF Init, InFlight, RouterIdle
  <2> QED BY <2>1, <2>3, <2>4, FS_EmptySet
<1>6. NeverUndercounts
  BY <1>5 DEF NeverUndercounts
<1>7. Reserved
  <2>1. Cap \in Nat /\ \A sid : Slack(sid) \in {0, 1}
    BY FlowAssumption DEF Slack
  <2> QED BY <1>5, <2>1 DEF Reserved
<1>8. QuietInv
  <2>1. Elements(fillQ) = {} /\ Elements(requests) = {} /\ Followed = {}
    BY DEF Init, Elements, Followed
  <2>2. Heard = {} /\ Addressed
    BY <2>1 DEF Init, Heard, Meant, Addressed, Reported, Elements, CloserIdle, RouterIdle
  <2> QED BY <1>1, <2>2 DEF QuietInv, QuietApart
<1> QED BY <1>3, <1>4, <1>6, <1>7, <1>8 DEF CapInv

(* The bounds give the cap: every open position is counted, or its fill is *)
(* under way.                                                              *)
LEMMA CapBound == CapInv => CapWithSlack
<1> SUFFICES ASSUME CapInv, NEW sid \in Strategies
             PROVE  Cardinality(Of(sid)) <= Cap + Slack(sid)
  BY DEF CapWithSlack
<1>1. /\ Cap \in Nat /\ Slack(sid) \in {0, 1} /\ openCount[sid] \in Nat /\ Cardinality(Of(sid)) \in Nat
      /\ InQueue(sid, fillQ) \in {0, 1} /\ InQueue(sid, closeQ) \in {0, 1}
  BY CapNumbers
<1>2. Uncounted(sid) \in Nat /\ Unreleased(sid) \in Nat
  BY <1>1 DEF Uncounted, Unreleased
<1>3. InFlight(sid) \in Nat /\ Uncounted(sid) <= InFlight(sid)
  BY <1>2 DEF InFlight
<1>4. /\ Cardinality(Of(sid)) + Unreleased(sid) <= openCount[sid] + Uncounted(sid)
      /\ openCount[sid] + InFlight(sid) <= Cap + Slack(sid)
  BY DEF CapInv, NeverUndercounts, Reserved
<1> QED BY <1>1, <1>2, <1>3, <1>4

(* The cap on a strategy's open positions holds, up to the one signal that *)
(* may be checked before the fill of the one before it is counted, and     *)
(* exactly when the router awaits the symbol info between them: for any    *)
(* strategies, accounts, cap and interleaving of the tasks, and whatever   *)
(* the brokers close on their own, as long as no reload maps a strategy to *)
(* another account. Orders may be executed with a lost answer, or twice by *)
(* a retry, and pending orders may fill later: such positions come on top, *)
(* and are all that does.                                                  *)
THEOREM CapHolds ==
  ASSUME ~Reroutes
  PROVE  Spec => [](CapWithSlack /\ NeverUndercounts)
<1>1. Init => CapInv
  BY CapInit
<1>2. CapInv /\ [Next]_vars => CapInv'
  BY CapNext
<1>3. CapInv => CapWithSlack /\ NeverUndercounts
  BY CapBound DEF CapInv
<1> QED BY <1>1, <1>2, <1>3, PTL DEF Spec

-----------------------------------------------------------------------------
(* The books. CountersSound needs what CapInv leaves open: which tickets   *)
(* are recorded. A ticket is recorded when its fill is handled, so not     *)
(* while the fill waits, and stays so until its close is handled; and a    *)
(* close is on its way for one position at a time that is open no more, or *)
(* the second one would find its ticket released. What nobody is told of   *)
(* is never recorded.                                                      *)
FillKeys == {KeyOf(e) : e \in Elements(fillQ)}
Waiting == FillKeys \cup IF router.pc = "filled" THEN {KeyOf(JustFilled)} ELSE {}
Gone == Elements(closeQ) \cup IF closer.pc = "closed" THEN {Target} ELSE {}
Counted(sid) == {k \in Keys : owner[k] = sid}

WaitApart == router.pc = "filled" => KeyOf(JustFilled) \notin FillKeys
GoneApart ==
  /\ positions \cap Gone = {}
  /\ closer.pc = "closed" => Target \notin Elements(closeQ)
NotYet == \A k \in Waiting : owner[k] = None
OnBooks == \A p \in positions \cup Gone : KeyOf(p) \notin Waiting => owner[KeyOf(p)] = p.sid
Silent == \A p \in Quiet : owner[KeyOf(p)] = None
Exact ==
  \A sid \in Strategies : IsFiniteSet(Counted(sid)) /\ openCount[sid] = Cardinality(Counted(sid))

BooksInv == CapInv /\ WaitApart /\ GoneApart /\ NotYet /\ OnBooks /\ Silent /\ Exact

(* A step that records nothing, lets no fill wait that did not, and shows  *)
(* no position that was not on the books keeps the books right.            *)
LEMMA BooksKept ==
  ASSUME BooksInv, CapInv', UNCHANGED <<owner, openCount>>, Waiting' = Waiting,
         positions' \cup Gone' \subseteq positions \cup Gone, Quiet' \subseteq Quiet,
         WaitApart', GoneApart'
  PROVE  BooksInv'
<1>1. NotYet'
  BY DEF BooksInv, NotYet
<1>2. OnBooks'
  BY DEF BooksInv, OnBooks, KeyOf
<1>3. Exact'
  BY DEF BooksInv, Exact, Counted
<1>4. Silent'
  BY DEF BooksInv, Silent, KeyOf
<1> QED BY <1>1, <1>2, <1>3, <1>4 DEF BooksInv

(* What the books are about, and the queues of at most one event.          *)
LEMMA BooksFacts ==
  ASSUME BooksInv, ~Reroutes
  PROVE  /\ TypeOK /\ OneOwner /\ Issued /\ Quiet \subseteq Known
         /\ positions \cup Gone \subseteq Known /\ Elements(fillQ) \subseteq Known
         /\ router.pc = "filled" => JustFilled \in Known
         /\ Known \subseteq Position /\ \A p \in Known : KeyOf(p) \in Keys
         /\ fillQ \in Seq(Position) /\ Len(fillQ) <= 1
         /\ closeQ \in Seq(Position) /\ Len(closeQ) <= 1
<1>1. TypeOK /\ OneOwner /\ Issued /\ Quiet \subseteq Known /\ OneAtATime
  BY HeardType DEF BooksInv, CapInv, QuietInv, OwnInv, TypeInv
<1>2. Known \subseteq Position
  BY <1>1, KnownType
<1>3. positions \cup Gone \subseteq Known /\ Elements(fillQ) \subseteq Known
  BY DEF Gone, Known, Open, Found, Reported
<1>4. router.pc = "filled" => JustFilled \in Known
  BY DEF Known, Reported
<1>5. \A p \in Known : KeyOf(p) \in Keys
  BY <1>2 DEF KeyOf, Keys, Position
<1> QED BY <1>1, <1>2, <1>3, <1>4, <1>5 DEF OneAtATime, TypeOK

(* The elements of the two queues before and after a step of theirs.       *)
LEMMA OneElement ==
  \A q : (q = <<>> => Elements(q) = {}) /\ \A e : Elements(<<e>>) = {e}
BY DEF Elements

(* Nothing is recorded yet for a new ticket.                               *)
LEMMA NewUnrecorded ==
  ASSUME CapInv, NewPosition \in Position
  PROVE  owner[KeyOf(NewPosition)] = None
<1>1. NewPosition.acct \in Accounts /\ NewPosition.ticket \in Tickets
  BY DEF Position
<1>2. NewPosition.ticket = nextTicket[NewPosition.acct] /\ NewPosition.ticket \in Nat
  BY <1>1 DEF NewPosition, Tickets
<1>3. NewPosition.ticket >= nextTicket[NewPosition.acct]
  BY <1>2
<1> QED BY <1>1, <1>3 DEF CapInv, Unrecorded, KeyOf

(* A fill at the broker: a new ticket, that nothing is recorded for yet.   *)
LEMMA BooksBrokerFills ==
  ASSUME BooksInv, ~Reroutes, CapInv', BrokerFills
  PROVE  BooksInv'
<1> USE DEF riskVars, brokerVars
<1>1. /\ TypeOK /\ Issued /\ positions \cup Gone \subseteq Known /\ Elements(fillQ) \subseteq Known
      /\ Known \subseteq Position
  BY BooksFacts
<1>2. /\ router \in Routed /\ router.pc = "placing"
      /\ JustFilled' = NewPosition /\ router'.pc = "filled"
  BY <1>1, RouterFields DEF BrokerFills, JustFilled, NewPosition, Routed
<1>3. /\ positions' = positions \cup {NewPosition}
      /\ UNCHANGED <<owner, openCount, fillQ, closeQ, closer>>
  BY DEF BrokerFills, NewPosition
<1>4. NewPosition \in Position
  BY <1>3 DEF CapInv, QuietInv, OwnInv, TypeInv, TypeOK
<1>5. \A q \in Known : KeyOf(q) # KeyOf(NewPosition)
  <2> SUFFICES ASSUME NEW q \in Known, q.acct = NewPosition.acct PROVE q.ticket # NewPosition.ticket
    BY DEF KeyOf
  <2>1. q.ticket < nextTicket[q.acct] /\ q.ticket \in Nat
    BY <1>1 DEF Issued, Position, Tickets
  <2>2. NewPosition.ticket = nextTicket[q.acct] /\ nextTicket[q.acct] \in Nat
    BY <1>1, <1>2, <1>4 DEF NewPosition, TypeOK, Position
  <2> QED BY <2>1, <2>2
<1>6. FillKeys' = FillKeys /\ Gone' = Gone /\ Waiting = FillKeys
      /\ Waiting' = FillKeys \cup {KeyOf(NewPosition)}
  BY <1>2, <1>3 DEF FillKeys, Gone, Waiting, Target, KeyOf
<1>7. KeyOf(NewPosition) \notin FillKeys
  BY <1>1, <1>5 DEF FillKeys
<1>8. owner[KeyOf(NewPosition)] = None
  BY <1>4, NewUnrecorded DEF BooksInv
<1>9. WaitApart'
  BY <1>2, <1>6, <1>7 DEF WaitApart, KeyOf
<1>10. GoneApart'
  BY <1>1, <1>3, <1>5, <1>6 DEF BooksInv, GoneApart, Target
<1>11. NotYet'
  BY <1>3, <1>6, <1>8 DEF BooksInv, NotYet
<1>12. OnBooks'
  BY <1>3, <1>6 DEF BooksInv, OnBooks, KeyOf
<1>13. Exact'
  BY <1>3 DEF BooksInv, Exact, Counted
<1>14. Silent'
  BY <1>3 DEF BooksInv, Silent, Quiet, BrokerFills, KeyOf
<1> QED BY <1>9, <1>10, <1>11, <1>12, <1>13, <1>14 DEF BooksInv

(* A position, or a pending order, that nobody is told of: nothing is      *)
(* recorded for its ticket, and nothing will be.                           *)
LEMMA BooksQuiet ==
  ASSUME BooksInv, CapInv', BrokerAccepts \/ AnswerLost
  PROVE  BooksInv'
<1> USE DEF riskVars, brokerVars
<1>1. TypeOK
  BY DEF BooksInv, CapInv, QuietInv, OwnInv, TypeInv
<1>2. router.pc = "placing" /\ router'.pc # "filled"
  BY <1>1, RouterFields DEF BrokerAccepts, AnswerLost, Routed
<1>3. UNCHANGED <<owner, openCount, fillQ, closeQ, closer, positions>>
  BY DEF BrokerAccepts, AnswerLost
<1>4. Quiet' = Quiet \cup {NewPosition}
  BY DEF BrokerAccepts, AnswerLost, Quiet
<1>5. NewPosition \in Position
  BY <1>4 DEF CapInv, QuietInv, OwnInv, TypeInv, TypeOK, Quiet
<1>6. Silent'
  BY <1>3, <1>4, <1>5, NewUnrecorded DEF BooksInv, Silent, KeyOf
<1>7. Waiting' = Waiting /\ WaitApart' /\ NotYet'
  BY <1>2, <1>3 DEF BooksInv, Waiting, WaitApart, FillKeys, NotYet
<1>8. Gone' = Gone /\ GoneApart' /\ OnBooks'
  BY <1>3, <1>7 DEF BooksInv, Gone, GoneApart, Target, OnBooks, KeyOf
<1>9. Exact'
  BY <1>3 DEF BooksInv, Exact, Counted
<1> QED BY <1>6, <1>7, <1>8, <1>9 DEF BooksInv

(* The fill is published: it waits in the queue now.                       *)
LEMMA BooksFillReplies ==
  ASSUME BooksInv, ~Reroutes, CapInv', FillReplies
  PROVE  BooksInv'
<1> USE DEF riskVars, brokerVars
<1>1. router.pc = "filled" /\ router'.pc = "idle" /\ fillQ = <<>>
  BY DEF FillReplies, RouterIdle
<1>2. FillAccount = router.acct
  BY <1>1 DEF BooksInv, CapInv, QuietInv, OwnInv, Mapped, FillAccount
<1>3. Elements(fillQ') = {JustFilled} /\ Elements(fillQ) = {}
  <2>1. fillQ' = Offer(fillQ, JustFilled)
    BY <1>2 DEF FillReplies, JustFilled
  <2> QED BY <1>1, <2>1, OfferedElement, OneElement
<1>4. UNCHANGED <<owner, openCount, positions, closeQ, closer>> /\ Quiet' = Quiet
  BY DEF FillReplies, Quiet
<1>5. Waiting' = Waiting
  <2>1. FillKeys' = {KeyOf(JustFilled)} /\ FillKeys = {}
    BY <1>3 DEF FillKeys, KeyOf
  <2> QED BY <1>1, <2>1 DEF Waiting
<1>6. Gone' = Gone /\ WaitApart' /\ GoneApart'
  BY <1>1, <1>4 DEF BooksInv, Gone, WaitApart, GoneApart, Target
<1> QED BY <1>4, <1>5, <1>6, BooksKept

(* Recording a ticket that was not, and releasing one that was, changes    *)
(* the number of tickets of one strategy by one.                           *)
LEMMA CountRecorded ==
  ASSUME TypeOK, NEW k \in Keys, NEW sid \in Strategies, owner[k] = None,
         owner' = [owner EXCEPT ![k] = sid], NEW s \in Strategies, IsFiniteSet(Counted(s))
  PROVE  /\ IsFiniteSet(Counted(s)')
         /\ s = sid => Cardinality(Counted(s)') = Cardinality(Counted(s)) + 1
         /\ s # sid => Cardinality(Counted(s)') = Cardinality(Counted(s))
<1>1. owner \in [Keys -> Strategies \cup {None}] /\ s # None
  BY FlowAssumption DEF TypeOK
<1>2. s = sid => Counted(s)' = Counted(s) \cup {k} /\ k \notin Counted(s)
  BY <1>1 DEF Counted
<1>3. s # sid => Counted(s)' = Counted(s)
  BY <1>1 DEF Counted
<1> QED BY <1>2, <1>3, FS_AddElement

LEMMA CountReleased ==
  ASSUME TypeOK, NEW k \in Keys, owner' = [owner EXCEPT ![k] = None],
         NEW s \in Strategies, IsFiniteSet(Counted(s))
  PROVE  /\ IsFiniteSet(Counted(s)') /\ Cardinality(Counted(s)) \in Nat
         /\ s = owner[k] => /\ Cardinality(Counted(s)) > 0
                            /\ Cardinality(Counted(s)') = Cardinality(Counted(s)) - 1
         /\ s # owner[k] => Cardinality(Counted(s)') = Cardinality(Counted(s))
<1>1. owner \in [Keys -> Strategies \cup {None}] /\ s # None
  BY FlowAssumption DEF TypeOK
<1>2. Cardinality(Counted(s)) \in Nat
  BY FS_CardinalityType
<1>3. CASE s = owner[k]
  <2>1. Counted(s)' = Counted(s) \ {k} /\ k \in Counted(s)
    BY <1>1, <1>3 DEF Counted
  <2>2. IsFiniteSet(Counted(s)') /\ Cardinality(Counted(s)') = Cardinality(Counted(s)) - 1
    BY <2>1, FS_RemoveElement
  <2>3. Cardinality(Counted(s)') \in Nat
    BY <2>2, FS_CardinalityType
  <2> QED BY <1>2, <1>3, <2>2, <2>3
<1>4. CASE s # owner[k]
  <2>1. Counted(s)' = Counted(s)
    BY <1>1, <1>4 DEF Counted
  <2> QED BY <1>2, <1>4, <2>1
<1> QED BY <1>3, <1>4

(* risk.fill records the ticket, and counts it.                            *)
LEMMA BooksOnFilled ==
  ASSUME BooksInv, ~Reroutes, CapInv', OnFilled
  PROVE  BooksInv'
<1> USE DEF riskVars, brokerVars
<1>1. /\ TypeOK /\ OneOwner /\ positions \cup Gone \subseteq Known /\ Elements(fillQ) \subseteq Known
      /\ Known \subseteq Position /\ \A p \in Known : KeyOf(p) \in Keys
      /\ fillQ \in Seq(Position) /\ Len(fillQ) <= 1
  BY BooksFacts
<1>2. PICK e \in Position : fillQ = <<e>> /\ fillQ' = <<>> /\ e = Head(fillQ)
  <2>1. fillQ # <<>> /\ fillQ' = Tail(fillQ)
    BY DEF OnFilled
  <2>2. fillQ = <<Head(fillQ)>> /\ Tail(fillQ) = <<>>
    BY <1>1, <2>1, ShortQueue
  <2>3. Head(fillQ) \in Position
    BY <1>1, <2>1, TakeType
  <2> QED BY <2>1, <2>2, <2>3
<1>3. /\ owner' = [owner EXCEPT ![KeyOf(e)] = e.sid]
      /\ openCount' = [openCount EXCEPT ![e.sid] = openCount[e.sid] + 1]
      /\ UNCHANGED <<positions, closeQ, closer, router>>
  BY <1>2 DEF OnFilled
<1>4. Elements(fillQ) = {e} /\ Elements(fillQ') = {}
  BY <1>2, OneElement
<1>5. e \in Known /\ KeyOf(e) \in Keys /\ e.sid \in Strategies
  BY <1>1, <1>2, <1>4 DEF Position
<1>6. FillKeys = {KeyOf(e)} /\ FillKeys' = {} /\ Gone' = Gone
  BY <1>3, <1>4 DEF FillKeys, Gone, Target
<1>7. owner[KeyOf(e)] = None
  BY <1>6 DEF BooksInv, NotYet, Waiting
<1>8. Waiting' = Waiting \ {KeyOf(e)}
  BY <1>3, <1>6 DEF BooksInv, WaitApart, Waiting, JustFilled, KeyOf
<1>9. owner \in [Keys -> Strategies \cup {None}] /\ openCount \in [Strategies -> Nat]
  BY <1>1 DEF TypeOK
<1>10. WaitApart' /\ GoneApart'
  BY <1>3, <1>6 DEF BooksInv, WaitApart, GoneApart, Target
<1>11. NotYet'
  <2> SUFFICES ASSUME NEW k \in Waiting' PROVE owner'[k] = None
    BY DEF NotYet
  <2>1. k \in Waiting /\ k # KeyOf(e) /\ owner[k] = None
    BY <1>8 DEF BooksInv, NotYet
  <2> QED BY <1>3, <1>9, <2>1
<1>12. OnBooks'
  <2> SUFFICES ASSUME NEW p \in positions \cup Gone, KeyOf(p) \notin Waiting' PROVE owner'[KeyOf(p)] = p.sid
    BY <1>3, <1>6 DEF OnBooks, KeyOf
  <2>1. p \in Known /\ KeyOf(p) \in Keys
    BY <1>1
  <2>2. CASE KeyOf(p) = KeyOf(e)
    <3>1. p = e
      BY <1>1, <1>5, <2>1, <2>2 DEF OneOwner
    <3> QED BY <1>3, <1>5, <1>9, <3>1
  <2>3. CASE KeyOf(p) # KeyOf(e)
    <3>1. owner[KeyOf(p)] = p.sid
      BY <1>8, <2>3 DEF BooksInv, OnBooks
    <3> QED BY <1>3, <1>9, <2>1, <2>3, <3>1
  <2> QED BY <2>2, <2>3
<1>13. Exact'
  <2> SUFFICES ASSUME NEW s \in Strategies
               PROVE  IsFiniteSet(Counted(s)') /\ openCount'[s] = Cardinality(Counted(s)')
    BY DEF Exact
  <2>1. IsFiniteSet(Counted(s)) /\ openCount[s] = Cardinality(Counted(s))
    BY DEF BooksInv, Exact
  <2>2. /\ IsFiniteSet(Counted(s)')
        /\ s = e.sid => Cardinality(Counted(s)') = Cardinality(Counted(s)) + 1
        /\ s # e.sid => Cardinality(Counted(s)') = Cardinality(Counted(s))
    BY <1>1, <1>3, <1>5, <1>7, <2>1, CountRecorded
  <2>3. /\ s = e.sid => openCount'[s] = openCount[s] + 1
        /\ s # e.sid => openCount'[s] = openCount[s]
    BY <1>3, <1>9
  <2> QED BY <2>1, <2>2, <2>3
<1>14. Silent'
  <2> SUFFICES ASSUME NEW p \in Quiet PROVE owner'[KeyOf(p)] = None
    BY <1>3 DEF Silent, Quiet, OnFilled, KeyOf
  <2>1. p \in Known /\ KeyOf(p) \in Keys /\ owner[KeyOf(p)] = None
    BY BooksFacts DEF BooksInv, Silent
  <2>2. e \in Heard /\ QuietApart
    BY <1>4 DEF Heard, Reported, BooksInv, CapInv, QuietInv
  <2>3. p # e
    BY <2>2 DEF QuietApart
  <2>4. KeyOf(p) # KeyOf(e)
    BY <1>1, <1>5, <2>1, <2>3 DEF OneOwner
  <2> QED BY <1>3, <1>9, <2>1, <2>4
<1> QED BY <1>10, <1>11, <1>12, <1>13, <1>14 DEF BooksInv

(* risk.close releases the ticket, and the place it took.                  *)
LEMMA BooksOnClosed ==
  ASSUME BooksInv, ~Reroutes, CapInv', OnClosed
  PROVE  BooksInv'
<1> USE DEF riskVars, brokerVars
<1>1. /\ TypeOK /\ OneOwner /\ positions \cup Gone \subseteq Known
      /\ Known \subseteq Position /\ \A p \in Known : KeyOf(p) \in Keys
      /\ closeQ \in Seq(Position) /\ Len(closeQ) <= 1
  BY BooksFacts
<1>2. PICK e \in Position : closeQ = <<e>> /\ closeQ' = <<>> /\ e = Head(closeQ)
  <2>1. closeQ # <<>> /\ closeQ' = Tail(closeQ)
    BY DEF OnClosed
  <2>2. closeQ = <<Head(closeQ)>> /\ Tail(closeQ) = <<>>
    BY <1>1, <2>1, ShortQueue
  <2>3. Head(closeQ) \in Position
    BY <1>1, <2>1, TakeType
  <2> QED BY <2>1, <2>2, <2>3
<1>3. /\ owner' = [owner EXCEPT ![KeyOf(e)] = None]
      /\ openCount' = [s \in Strategies |-> IF s = owner[KeyOf(e)] /\ openCount[s] > 0
                                            THEN openCount[s] - 1 ELSE openCount[s]]
      /\ UNCHANGED <<positions, fillQ, closer, router>>
  BY <1>2 DEF OnClosed, Bucket
<1>4. Elements(closeQ) = {e} /\ Elements(closeQ') = {}
  BY <1>2, OneElement
<1>5. e \in Known /\ KeyOf(e) \in Keys /\ e \in Gone
  BY <1>1, <1>4 DEF Gone
<1>6. /\ FillKeys' = FillKeys /\ Waiting' = Waiting /\ Gone' = Gone \ {e}
      /\ e \notin positions
  BY <1>3, <1>4, <1>5 DEF FillKeys, Waiting, JustFilled, KeyOf, Gone, Target, BooksInv, GoneApart
<1>7. owner \in [Keys -> Strategies \cup {None}] /\ openCount \in [Strategies -> Nat]
  BY <1>1 DEF TypeOK
<1>8. \A k \in Keys : owner'[k] = IF k = KeyOf(e) THEN None ELSE owner[k]
  BY <1>3, <1>7
<1>9. WaitApart' /\ GoneApart'
  BY <1>3, <1>4, <1>6 DEF BooksInv, WaitApart, GoneApart, JustFilled, Target, KeyOf
<1>10. NotYet'
  <2> SUFFICES ASSUME NEW k \in Waiting PROVE owner'[k] = None
    BY <1>6 DEF NotYet
  <2>1. owner[k] = None
    BY DEF BooksInv, NotYet
  <2>2. k \in Keys
    BY BooksFacts DEF Waiting, FillKeys
  <2> QED BY <1>8, <2>1, <2>2
<1>11. OnBooks'
  <2> SUFFICES ASSUME NEW p \in positions \cup Gone, p # e, KeyOf(p) \notin Waiting
               PROVE  owner'[KeyOf(p)] = p.sid
    BY <1>3, <1>6 DEF OnBooks, KeyOf
  <2>1. p \in Known /\ KeyOf(p) \in Keys /\ owner[KeyOf(p)] = p.sid
    BY <1>1 DEF BooksInv, OnBooks
  <2>2. KeyOf(p) # KeyOf(e)
    BY <1>1, <1>5, <2>1 DEF OneOwner
  <2> QED BY <1>8, <2>1, <2>2
<1>12. Exact'
  <2> SUFFICES ASSUME NEW s \in Strategies
               PROVE  IsFiniteSet(Counted(s)') /\ openCount'[s] = Cardinality(Counted(s)')
    BY DEF Exact
  <2>1. IsFiniteSet(Counted(s)) /\ openCount[s] = Cardinality(Counted(s)) /\ openCount[s] \in Nat
    BY <1>7 DEF BooksInv, Exact
  <2>2. /\ IsFiniteSet(Counted(s)')
        /\ s = owner[KeyOf(e)] => /\ Cardinality(Counted(s)) > 0
                                  /\ Cardinality(Counted(s)') = Cardinality(Counted(s)) - 1
        /\ s # owner[KeyOf(e)] => Cardinality(Counted(s)') = Cardinality(Counted(s))
    BY <1>1, <1>3, <1>5, <2>1, CountReleased
  <2>3. /\ s = owner[KeyOf(e)] /\ openCount[s] > 0 => openCount'[s] = openCount[s] - 1
        /\ s # owner[KeyOf(e)] => openCount'[s] = openCount[s]
    BY <1>3
  <2> QED BY <2>1, <2>2, <2>3
<1>13. Silent'
  <2> SUFFICES ASSUME NEW p \in Quiet PROVE owner'[KeyOf(p)] = None
    BY DEF Silent, Quiet, OnClosed, KeyOf
  <2>1. KeyOf(p) \in Keys /\ owner[KeyOf(p)] = None
    BY BooksFacts DEF BooksInv, Silent
  <2> QED BY <1>8, <2>1
<1> QED BY <1>9, <1>10, <1>11, <1>12, <1>13 DEF BooksInv

(* A close at the broker on request: the position is gone, and its close   *)
(* is on its way.                                                          *)
LEMMA BooksBrokerCloses ==
  ASSUME BooksInv, ~Reroutes, CapInv', BrokerClosesOnRequest
  PROVE  BooksInv'
<1> USE DEF riskVars
<1>1. TypeOK /\ OneOwner /\ positions \cup Gone \subseteq Known
  BY BooksFacts
<1>2. closer.pc = "closing" /\ closer'.pc = "closed" /\ Target' = Target
  BY <1>1, CloserFields DEF BrokerClosesOnRequest, Closes, Target
<1>3. UNCHANGED <<owner, openCount, router, fillQ, closeQ>>
  BY DEF BrokerClosesOnRequest
<1>4. PICK p \in positions : positions' = positions \ {p} /\ p = Target /\ UNCHANGED unreported
  BY ClosedHeard DEF BooksInv
<1>5. Quiet' = Quiet
  BY <1>4 DEF Quiet, BrokerClosesOnRequest
<1>6. Gone = Elements(closeQ) /\ Gone' = Elements(closeQ) \cup {Target}
  BY <1>2, <1>3 DEF Gone
<1>7. GoneApart'
  BY <1>2, <1>3, <1>4, <1>5, <1>6 DEF BooksInv, GoneApart
<1>8. Waiting' = Waiting /\ WaitApart'
  BY <1>3 DEF BooksInv, Waiting, WaitApart, FillKeys, JustFilled, KeyOf
<1> QED BY <1>3, <1>4, <1>5, <1>6, <1>7, <1>8, BooksKept

(* The close is published: it is in the queue now.                         *)
LEMMA BooksCloseReplies ==
  ASSUME BooksInv, CapInv', CloseReplies
  PROVE  BooksInv'
<1> USE DEF riskVars, brokerVars
<1>1. closer.pc = "closed" /\ closer'.pc = "idle" /\ closeQ = <<>> /\ closeQ' = Offer(closeQ, Target)
  BY DEF CloseReplies, CloserIdle
<1>2. UNCHANGED <<owner, openCount, positions, fillQ, router>> /\ Quiet' = Quiet
  BY DEF CloseReplies, Quiet
<1>3. Elements(closeQ) = {} /\ Elements(closeQ') = {Target}
  BY <1>1, OfferedElement, OneElement
<1>4. Gone' = Gone
  BY <1>1, <1>3 DEF Gone
<1>5. GoneApart'
  BY <1>1, <1>2, <1>4 DEF BooksInv, GoneApart
<1>6. Waiting' = Waiting /\ WaitApart'
  BY <1>2 DEF BooksInv, Waiting, WaitApart, FillKeys, JustFilled, KeyOf
<1> QED BY <1>2, <1>4, <1>5, <1>6, BooksKept

(* The other steps make, count and close no fill; of the positions they    *)
(* may take one away.                                                      *)
LEMMA BooksOthers ==
  ASSUME BooksInv, ~Reroutes, CapInv', [Next]_vars,
         ~(BrokerFills \/ BrokerAccepts \/ AnswerLost \/ FillReplies \/ RiskStep \/ BrokerClosesOnRequest \/ CloseReplies)
  PROVE  BooksInv'
<1> USE DEF riskVars, brokerVars
<1>1. TypeOK
  BY BooksFacts
<1>2. ASSUME UNCHANGED <<owner, openCount, fillQ, closeQ>>, positions' \subseteq positions, Quiet' \subseteq Quiet,
             UNCHANGED router \/ (router.pc # "filled" /\ router'.pc # "filled"),
             UNCHANGED closer \/ (closer.pc # "closed" /\ closer'.pc # "closed")
      PROVE  BooksInv'
  <2>1. Waiting' = Waiting /\ WaitApart'
    BY <1>2 DEF BooksInv, Waiting, WaitApart, FillKeys, JustFilled, KeyOf
  <2>2. Gone' = Gone /\ GoneApart'
    BY <1>2 DEF BooksInv, Gone, GoneApart, Target
  <2> QED BY <1>2, <2>1, <2>2, BooksKept
<1>3. CASE TakeSignal \/ Suspend \/ InfoReplies \/ Refuse \/ RefuseOther \/ Place \/ TryAgain \/ OtherReplies
  <2>1. UNCHANGED <<owner, openCount, fillQ, closeQ, closer, positions>> /\ Quiet' = Quiet
    BY <1>3 DEF TakeSignal, Suspend, InfoReplies, Refuse, RefuseOther, Place, TryAgain, OtherReplies, Quiet
  <2>2. UNCHANGED router \/ (router.pc # "filled" /\ router'.pc # "filled")
    <3>1. CASE TakeSignal \/ Suspend \/ Refuse \/ RefuseOther \/ OtherReplies
      BY <3>1 DEF TakeSignal, Suspend, Refuse, RefuseOther, OtherReplies, RouterIdle
    <3>2. CASE InfoReplies \/ Place \/ TryAgain
      BY <1>1, <3>2, RouterFields DEF InfoReplies, Place, TryAgain, Routed
    <3> QED BY <1>3, <3>1, <3>2
  <2> QED BY <1>2, <2>1, <2>2
<1>4. CASE TakeRequest \/ PositionsReply \/ CloseFails
  <2>1. UNCHANGED <<owner, openCount, fillQ, closeQ, router, positions>> /\ Quiet' = Quiet
    BY <1>4 DEF TakeRequest, PositionsReply, CloseFails, Quiet
  <2>2. closer.pc # "closed" /\ closer'.pc # "closed"
    BY <1>1, <1>4, CloserFields DEF TakeRequest, PositionsReply, CloseFails, CloserIdle, Closes
  <2> QED BY <1>2, <2>1, <2>2
<1>5. CASE Environment \/ AllHandled \/ UNCHANGED vars
  <2>1. /\ UNCHANGED <<owner, openCount, fillQ, closeQ, router, closer>>
        /\ positions' \subseteq positions /\ Quiet' \subseteq Quiet
    BY <1>5
    DEF Environment, Emit, RequestClose, BrokerSideClose, BrokerSideFill, ChangeAccount, AllHandled, vars, Quiet
  <2> QED BY <1>2, <2>1
<1> QED BY <1>3, <1>4, <1>5 DEF Next, RouterStep, CloserStep, RiskStep

(* Every step keeps the books, without reloads.                            *)
LEMMA BooksNext ==
  ASSUME BooksInv, ~Reroutes, [Next]_vars
  PROVE  BooksInv'
<1>1. CapInv'
  BY CapNext DEF BooksInv
<1> QED BY <1>1, BooksBrokerFills, BooksQuiet, BooksFillReplies, BooksOnFilled, BooksOnClosed,
           BooksBrokerCloses, BooksCloseReplies, BooksOthers DEF RiskStep

(* At the start nothing is on the books.                                   *)
LEMMA BooksInit == Init => BooksInv
<1> SUFFICES ASSUME Init PROVE BooksInv
  OBVIOUS
<1>1. Elements(fillQ) = {} /\ Elements(closeQ) = {}
  BY OneElement DEF Init
<1>2. Waiting = {} /\ Gone = {} /\ WaitApart /\ GoneApart
  BY <1>1 DEF Init, Waiting, FillKeys, Gone, WaitApart, GoneApart, RouterIdle, CloserIdle
<1>3. NotYet /\ OnBooks
  BY <1>2 DEF Init, NotYet, OnBooks
<1>4. ASSUME NEW sid \in Strategies PROVE Counted(sid) = {} /\ openCount[sid] = 0
  BY FlowAssumption DEF Init, Counted
<1>5. Exact
  BY <1>4, FS_EmptySet DEF Exact
<1>6. Silent
  BY DEF Init, Silent, Quiet
<1> QED BY <1>2, <1>3, <1>5, <1>6, CapInit DEF BooksInv

(* The books say that the counters are sound.                              *)
LEMMA BooksSound == BooksInv => CountersSound
<1> SUFFICES ASSUME BooksInv PROVE CountersSound
  OBVIOUS
<1>1. CountersExact
  BY DEF BooksInv, Exact, CountersExact, Counted
<1>2. OwnerMatchesPositions
  <2>1. \A p \in unreported : owner[KeyOf(p)] = None
    BY DEF BooksInv, Silent, Quiet
  <2>2. ASSUME NEW p \in positions \cup Gone
        PROVE  /\ KeyOf(p) \in Waiting => owner[KeyOf(p)] = None
               /\ KeyOf(p) \notin Waiting => owner[KeyOf(p)] = p.sid
    BY DEF BooksInv, NotYet, OnBooks
  <2> QED BY <2>1, <2>2, Zenon
          DEF OwnerMatchesPositions, Gone, Waiting, FillKeys, Elements, Events, JustFilled, KeyOf
<1>3. NeverUndercounts
  BY DEF BooksInv, CapInv
<1> QED BY <1>1, <1>2, <1>3 DEF CountersSound

(* The open-position counters can be relied on: each is the number of the  *)
(* tickets recorded for its strategy, a position's ticket is recorded for  *)
(* its own strategy from the moment its fill is handled until its close    *)
(* is, and nothing is missing but fills under way and positions nobody is  *)
(* told of (_on_filled, _on_closed and _ticket_to_strategy): for any       *)
(* strategies, accounts with colliding ticket numbers, queue sizes and     *)
(* interleavings of the four tasks, with retries, lost answers and pending *)
(* orders that fill later, as long as no reload maps a strategy to another *)
(* account.                                                                *)
THEOREM CountersHold ==
  ASSUME ~Reroutes
  PROVE  Spec => []CountersSound
<1>1. Init => BooksInv
  BY BooksInit
<1>2. BooksInv /\ [Next]_vars => BooksInv'
  BY BooksNext
<1> QED BY <1>1, <1>2, BooksSound, PTL DEF Spec
===============================================================================
