------------------------------- MODULE TradeDesk -------------------------------
(***************************************************************************)
(* What one strategy trades through: the requests its context publishes,   *)
(* the tasks of the order router that carry them out, the positions and    *)
(* pending orders of the broker, and the events that come back.            *)
(*                                                                         *)
(* A request type has its own subscription and task in the router.         *)
(* Placing, closing and cancelling look at the broker and act in one step  *)
(* here, for nothing in this module can come between to harm; a change of  *)
(* a stop is taken apart, for the router reads the position again after    *)
(* it.  Only buys are modelled: a sell is its mirror image.                *)
(***************************************************************************)
EXTENDS Integers, Sequences, FiniteSets, SequencesExt

CONSTANTS
  None,
  MaxPrice,      \* bound: prices are 1..MaxPrice
  MaxTicket,     \* bound: tickets of one behaviour
  ReportsHits    \* whether a stop hit and a triggered order are reported

ASSUME DeskAssumption ==
  /\ {MaxPrice, MaxTicket} \subseteq Nat \ {0}
  /\ ReportsHits \in BOOLEAN

VARIABLES
  price,       \* the market
  book,        \* open positions: ticket -> [open, sl]
  working,     \* tickets of pending orders
  nextTicket,
  signals,     \* SignalEvents the router has not handled
  moves,       \* ModifyOrderRequestEvents, in order: [ticket, sl]
  move,        \* the change under way in handle_modify()
  closes,      \* tickets of ClosePositionRequestEvents
  cancels,     \* tickets of CancelOrderRequestEvents
  inbox,       \* events published for the strategy, in order
  view,        \* ctx.position: the positions the runner tracks
  told,        \* history: what the strategy's hooks have been told of a ticket
  blind,       \* history: entries sent while news was under way, up to MaxTicket
  entries,     \* history: market orders filled in this session
  stale,       \* history: a change was reported of a position that was gone, or a
               \* close was handled before its fill
  refused,     \* history: tickets whose close the broker has refused
  fails        \* bound: closes and changes of a stop the broker may still refuse

requests == <<signals, moves, closes, cancels>>
broker == <<price, book, working, nextTicket>>
history == <<told, blind, entries, stale, refused>>
deskVars == <<price, book, working, nextTicket, signals, moves, move, closes, cancels,
              inbox, view, told, blind, entries, stale, refused, fails>>

Tickets == 1..MaxTicket
Levels == 0..MaxPrice
Snapshot == [ticket : Tickets, open : Levels, sl : Levels]

(* The position of a ticket as get_positions() returns it.                 *)
Position(t) == [ticket |-> t, open |-> book[t].open, sl |-> book[t].sl]
Event(type, p) == [type |-> type, pos |-> p]

Without(f, keys) == [x \in DOMAIN f \ keys |-> f[x]]
With(f, k, v) == [x \in DOMAIN f \cup {k} |-> IF x = k THEN v ELSE f[x]]
Least(a, b) == IF a < b THEN a ELSE b

DeskTypeOK ==
  /\ price \in 1..MaxPrice
  /\ DOMAIN book \subseteq Tickets
  /\ \A t \in DOMAIN book : book[t] \in [open : Levels, sl : Levels]
  /\ working \subseteq Tickets \ DOMAIN book
  /\ nextTicket \in 1..(MaxTicket + 1)
  /\ signals \in Nat
  /\ moves \in Seq([ticket : Tickets, sl : Levels])
  /\ closes \subseteq Tickets
  /\ cancels \subseteq Tickets
  /\ view \in Seq(Snapshot)
  /\ told \in [Tickets -> {"nothing", "open", "closed"}]
  /\ refused \subseteq Tickets

(* What a strategy should know of a ticket, and whether it knows it all.   *)
Truth(t) ==
  CASE t >= nextTicket \/ t \in working -> "nothing"
    [] t \in DOMAIN book -> "open"
    [] OTHER -> "closed"
NewsUnderWay == signals > 0 \/ \E t \in Tickets : told[t] # Truth(t)

(* ctx.buy(): n market orders, the first of which may follow old news.     *)
Buy(n) ==
  /\ signals' = signals + n
  /\ blind' = Least(MaxTicket, blind + (IF NewsUnderWay \/ n = 0 THEN n ELSE n - 1))

-----------------------------------------------------------------------------
(* The broker's modify_order(), close_position() and cancel_order(), which *)
(* leave a ticket alone that is not there (any more).  A close is in full; *)
(* both the close and the cancel publish their event.                      *)
ModifyOrder(t, sl) ==
  /\ t \in DOMAIN book
  /\ book' = [book EXCEPT ![t].sl = sl]

ClosePosition(t) ==
  IF t \in DOMAIN book
  THEN /\ book' = Without(book, {t})
       /\ inbox' = Append(inbox, Event("close", Position(t)))
  ELSE UNCHANGED <<book, inbox>>

CancelOrder(t) ==
  IF t \in working
  THEN /\ working' = working \ {t}
       /\ inbox' = Append(inbox, Event("cancel", [ticket |-> t, open |-> 0, sl |-> 0]))
  ELSE UNCHANGED <<working, inbox>>
-----------------------------------------------------------------------------
(* OrderRouter.handle_signal(): the market order is filled, and the fill   *)
(* is published.                                                           *)
ExecuteSignal ==
  /\ signals > 0
  /\ nextTicket <= MaxTicket
  /\ signals' = signals - 1
  /\ book' = With(book, nextTicket, [open |-> price, sl |-> 0])
  /\ nextTicket' = nextTicket + 1
  /\ entries' = entries + 1
  /\ inbox' = Append(inbox, Event("fill", [ticket |-> nextTicket, open |-> price, sl |-> 0]))
  /\ UNCHANGED <<price, working, moves, move, closes, cancels, view, told, blind, stale, refused,
                 fails>>

(* ... or refused, by the risk rules or by the broker.                     *)
RefuseSignal ==
  /\ signals > 0
  /\ signals' = signals - 1
  /\ UNCHANGED <<broker, moves, move, closes, cancels, inbox, view, history, fails>>

(* OrderRouter.handle_modify(), first get_positions(): an unknown ticket   *)
(* ends it.                                                                *)
ReadForMove ==
  /\ move = None
  /\ moves # <<>>
  /\ moves' = Tail(moves)
  /\ move' = LET t == Head(moves).ticket
             IN IF t \in DOMAIN book
                THEN [pos |-> Position(t), sl |-> Head(moves).sl, done |-> FALSE] ELSE None
  /\ UNCHANGED <<broker, signals, closes, cancels, inbox, view, history, fails>>

(* The broker is asked.  It fails when the position is gone, and it may    *)
(* refuse the change: the router logs that, and nobody is told.            *)
MoveStop ==
  /\ move # None /\ ~move.done
  /\ \/ /\ ModifyOrder(move.pos.ticket, move.sl)
        /\ move' = [move EXCEPT !.done = TRUE]
        /\ UNCHANGED fails
     \/ /\ move.pos.ticket \notin DOMAIN book
        /\ move' = None
        /\ UNCHANGED <<book, fails>>
     \/ /\ move.pos.ticket \in DOMAIN book
        /\ fails > 0
        /\ fails' = fails - 1
        /\ move' = None
        /\ UNCHANGED book
  /\ UNCHANGED <<price, working, nextTicket, requests, inbox, view, history>>

(* The second get_positions(): the position as it is now is published, or  *)
(* as it was at first when it is gone meanwhile.                           *)
PublishMove ==
  /\ move # None /\ move.done
  /\ LET t == move.pos.ticket
         gone == t \notin DOMAIN book
     IN /\ inbox' = Append(inbox, Event("modified", IF gone THEN move.pos ELSE Position(t)))
        /\ stale' = (stale \/ gone)
  /\ move' = None
  /\ UNCHANGED <<broker, requests, view, told, blind, entries, refused, fails>>

(* OrderRouter.handle_close() of an open position, with the event of the   *)
(* broker.                                                                 *)
ExecuteClose(t) ==
  /\ t \in closes
  /\ closes' = closes \ {t}
  /\ ClosePosition(t)
  /\ UNCHANGED <<price, working, nextTicket, signals, moves, move, cancels, view, history, fails>>

(* The broker refuses to close: the router logs it.                        *)
CloseFails(t) ==
  /\ t \in closes
  /\ fails > 0
  /\ fails' = fails - 1
  /\ closes' = closes \ {t}
  /\ refused' = refused \cup {t}
  /\ UNCHANGED <<broker, signals, moves, move, cancels, inbox, view, told, blind, entries, stale>>

(* OrderRouter.handle_cancel() of an order that still waits.               *)
ExecuteCancel(t) ==
  /\ t \in cancels
  /\ cancels' = cancels \ {t}
  /\ CancelOrder(t)
  /\ UNCHANGED <<price, book, nextTicket, signals, moves, move, closes, view, history, fails>>

(* The market closes a position at its stop or target.                     *)
StopHit(t) ==
  /\ t \in DOMAIN book
  /\ book' = Without(book, {t})
  /\ inbox' = IF ReportsHits THEN Append(inbox, Event("close", Position(t))) ELSE inbox
  /\ UNCHANGED <<price, working, nextTicket, requests, move, view, history, fails>>

(* The market triggers a pending order.                                    *)
OrderTriggers(t) ==
  /\ t \in working
  /\ working' = working \ {t}
  /\ book' = With(book, t, [open |-> price, sl |-> 0])
  /\ inbox' = IF ReportsHits
              THEN Append(inbox, Event("fill", [ticket |-> t, open |-> price, sl |-> 0])) ELSE inbox
  /\ UNCHANGED <<price, nextTicket, requests, move, view, history, fails>>

RouterStep ==
  \/ ExecuteSignal \/ RefuseSignal
  \/ ReadForMove \/ MoveStop \/ PublishMove
  \/ \E t \in Tickets : ExecuteClose(t) \/ CloseFails(t) \/ ExecuteCancel(t)

MarketStep == \E t \in Tickets : StopHit(t) \/ OrderTriggers(t)
=============================================================================
