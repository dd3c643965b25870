------------------------------- MODULE SimBroker -------------------------------
(***************************************************************************)
(* The simulated broker of a backtest, backtest/replay_broker.py, driven   *)
(* by the two replay loops of backtest/file_backtester.py with the fill    *)
(* prices of backtest/slippage.py.                                         *)
(*                                                                         *)
(* The replay loop moves the clock and the market, closes what the new     *)
(* price stops out, fills the pending orders it triggers, publishes the    *)
(* bar or tick and then lets the other tasks run.  None of these awaits    *)
(* suspends before the sleep(0) calls, so that is one step (Replay).       *)
(* Orders, changes, closes and cancels reach the broker while the loop     *)
(* sleeps, and, from signals still queued, while the run is torn down.     *)
(*                                                                         *)
(* Prices are integers in half points, so that the middle of bid and ask   *)
(* is one.  An hour is a unit of the clock and a day has HoursPerDay.      *)
(***************************************************************************)
EXTENDS Integers, Sequences, FiniteSets, SequencesExt

CONSTANTS
  Symbols,        \* symbols of the feed list
  None,           \* an absent price, stop or target
  Requests,       \* the OrderRequests the strategy may send
  Changes,        \* the arguments of the modify_order() calls it may make
  Volumes,        \* the volumes it may ask close_position() for
  Quotes,         \* the bid/ask pairs of ticks
  Bars,           \* the high/low/close triples of bars
  Models,         \* slippage models a run may be configured with
  Slippage,       \* pips x point of the fixed model
  Factor, Window, Point,                \* of the volatility model
  Commission, SwapLong, SwapShort,      \* costs per lot
  ContractSize,
  HoursPerDay, RolloverHour,
  InitialBalance,
  MaxTicket,      \* bound: tickets of one behaviour
  MaxTime,        \* bound: the clock
  MaxOps          \* bound: operations of the strategy

Sides == {"buy", "sell"}
OrderTypes == {"market", "limit", "stop", "stop_limit"}
OptLevels == Int \cup {None}

ASSUME SimAssumption ==
  /\ None \notin Int
  /\ Requests \subseteq [symbol : Symbols, side : Sides, type : OrderTypes, volume : Nat \ {0},
                         price : OptLevels, sl : OptLevels, tp : OptLevels]
  /\ Changes \subseteq [sl : OptLevels, tp : OptLevels, price : OptLevels, volume : OptLevels]
  /\ Volumes \subseteq (Nat \ {0}) \cup {None}
  /\ Quotes \subseteq [bid : Int, ask : Int]
  /\ Bars \subseteq [high : Int, low : Int, close : Int]
  /\ Models \subseteq {"fixed", "spread", "volatility"}
  /\ {Slippage, Factor, Point, Commission, SwapLong, SwapShort, InitialBalance} \subseteq Int
  /\ {ContractSize, HoursPerDay, Window, MaxTicket} \subseteq Nat \ {0}
  /\ RolloverHour \in 0..(HoursPerDay - 1)
  /\ {MaxTime, MaxOps} \subseteq Nat

VARIABLES
  model,       \* cfg.slippage_model
  granularity, \* cfg.granularity: "tick" or "bar"
  phase,       \* where FileBacktester.run() is
  now,         \* the bar or tick being replayed
  todo,        \* the tickets its current loop has still to deal with
  simTime,     \* SimBroker._sim_time
  bid, ask,    \* SimBroker._last_bid, _last_ask
  bids,        \* the rolling window of the volatility model
  nextTicket,  \* SimBroker._next_ticket
  positions,   \* SimBroker._positions: ticket -> Position
  pending,     \* SimBroker._pending: ticket -> Order
  balance,     \* SimBroker.balance
  trades,      \* SimBroker._trades
  realised,    \* history: sum of the pnl of the trade records
  openCost,    \* history: open-side commission of the volume still open
  filled,      \* history: ticket -> volume of its position when it opened
  ops          \* bound: operations so far

config == <<model, granularity>>
market == <<simTime, bid, ask>>
money == <<bids, balance, trades, realised, openCost>>
vars == <<model, granularity, phase, now, todo, simTime, bid, ask, bids, nextTicket, positions,
          pending, balance, trades, realised, openCost, filled, ops>>

Tickets == 1..MaxTicket
Position == [symbol : Symbols, side : Sides, volume : Nat \ {0}, price : Int, time : Nat,
             sl : OptLevels, tp : OptLevels]
Order == [symbol : Symbols, side : Sides, type : OrderTypes \ {"market"}, volume : Nat \ {0},
          price : Int, sl : OptLevels, tp : OptLevels]
TradeRecord == [ticket : Tickets, volume : Nat \ {0}, opened : Nat, closed : Nat, pnl : Int]

Without(f, k) == [x \in DOMAIN f \ {k} |-> f[x]]
With(f, k, v) == [x \in DOMAIN f \cup {k} |-> IF x = k THEN v ELSE f[x]]

TypeOK ==
  /\ model \in Models
  /\ granularity \in {"tick", "bar"}
  /\ phase \in {"sleeping", "stops", "fills", "closing", "ending", "done"}
  /\ todo \subseteq Tickets
  /\ simTime \in Nat
  /\ bid \in [Symbols -> OptLevels]
  /\ ask \in [Symbols -> OptLevels]
  /\ \A s \in Symbols : bid[s] = None <=> ask[s] = None
  /\ bids \in Seq(Int)
  /\ nextTicket \in Nat \ {0}
  /\ DOMAIN positions \subseteq Tickets
  /\ \A t \in DOMAIN positions : positions[t] \in Position
  /\ DOMAIN pending \subseteq Tickets
  /\ \A t \in DOMAIN pending : pending[t] \in Order
  /\ balance \in Int
  /\ trades \in Seq(TradeRecord)
  /\ realised \in Int
  /\ openCost \in Int
  /\ filled \in [Tickets -> Nat]
  /\ ops \in Nat

-----------------------------------------------------------------------------
(* backtest/slippage.py.                                                   *)
Sign(side) == IF side = "buy" THEN 1 ELSE -1
Opposite(side) == IF side = "buy" THEN "sell" ELSE "buy"
Mid(b, a) == (b + a) \div 2

(* The window of recent bids once a fill at bid b is priced.               *)
Remember(b) ==
  IF model # "volatility" THEN bids
  ELSE LET seen == Append(bids, b)
       IN IF Len(seen) > Window THEN Tail(seen) ELSE seen

RangeOf(s) == LET values == ToSet(s) IN
  (CHOOSE x \in values : \A y \in values : y <= x) - (CHOOSE x \in values : \A y \in values : x <= y)

(* The price a fill on `side` gets: the buyer pays more, the seller less.  *)
Slipped(side, b, a) ==
  CASE model = "fixed" -> Mid(b, a) + Sign(side) * Slippage
    [] model = "spread" -> IF side = "buy" THEN a ELSE b
    [] OTHER -> LET seen == Remember(b)
                    recent == IF Len(seen) > 1 THEN RangeOf(seen) ELSE a - b
                    range == IF recent > Point THEN recent ELSE Point
                IN Mid(b, a) + Sign(side) * Factor * range

-----------------------------------------------------------------------------

(* _rollover_count(): the rollovers in (from, to], without a loop.         *)
Rollovers(from, to) ==
  LET today == (from \div HoursPerDay) * HoursPerDay + RolloverHour
      first == IF today <= from THEN today + HoursPerDay ELSE today
  IN IF to <= from \/ first > to THEN 0 ELSE (to - first) \div HoursPerDay + 1

(* What closing `qty` of position p at `price` is worth and what it costs. *)
Gross(p, qty, price) == (price - p.price) * Sign(p.side) * qty * ContractSize
Fee(qty) == Commission * qty
Swap(p, qty) ==
  Rollovers(p.time, simTime) * (IF p.side = "buy" THEN SwapLong ELSE SwapShort) * qty

-----------------------------------------------------------------------------
(* A position appears: a market order, or a pending order that filled.     *)
OpenPosition(t, o, price) ==
  /\ positions' = With(positions, t, [symbol |-> o.symbol, side |-> o.side, volume |-> o.volume,
                                      price |-> price, time |-> simTime, sl |-> o.sl, tp |-> o.tp])
  /\ filled' = [filled EXCEPT ![t] = o.volume]
  /\ balance' = balance - Fee(o.volume)
  /\ openCost' = openCost + Fee(o.volume)
  /\ UNCHANGED <<trades, realised>>

(* (mutant) The open side of the commission is charged again.              *)
ClosePositionFeesTwice(t, volume) ==
  LET p == positions[t]
      full == volume = None \/ volume >= p.volume
      qty == IF full THEN p.volume ELSE volume
      price == Slipped(Opposite(p.side), bid[p.symbol], ask[p.symbol])
      pnl == Gross(p, qty, price) - 2 * Fee(qty) + Swap(p, qty)
  IN /\ balance' = balance + pnl
     /\ trades' = Append(trades, [ticket |-> t, volume |-> qty, opened |-> p.time,
                                  closed |-> simTime, pnl |-> pnl])
     /\ realised' = realised + pnl
     /\ openCost' = openCost - Fee(qty)
     /\ positions' = IF full THEN Without(positions, t)
                     ELSE [positions EXCEPT ![t].volume = p.volume - qty]
     /\ bids' = Remember(bid[p.symbol])
     /\ UNCHANGED <<nextTicket, pending, filled>>

(* close_position(): all of it when no volume is given or too large a one. *)
ClosePosition(t, volume) ==
  LET p == positions[t]
      full == volume = None \/ volume >= p.volume
      qty == IF full THEN p.volume ELSE volume
      price == Slipped(Opposite(p.side), bid[p.symbol], ask[p.symbol])
      pnl == Gross(p, qty, price) - 2 * Fee(qty) + Swap(p, qty)
  IN /\ balance' = balance + Gross(p, qty, price) - Fee(qty) + Swap(p, qty)
     /\ trades' = Append(trades, [ticket |-> t, volume |-> qty, opened |-> p.time,
                                  closed |-> simTime, pnl |-> pnl])
     /\ realised' = realised + pnl
     /\ openCost' = openCost - Fee(qty)
     /\ positions' = IF full THEN Without(positions, t)
                     ELSE [positions EXCEPT ![t].volume = p.volume - qty]
     /\ bids' = Remember(bid[p.symbol])
     /\ UNCHANGED <<nextTicket, pending, filled>>

-----------------------------------------------------------------------------
(* The operations of the strategy and its managers, while the loop sleeps  *)
(* and while the run is torn down.                                         *)
Operable == phase \in {"sleeping", "ending"} /\ ops < MaxOps

CountOp == ops' = ops + 1 /\ UNCHANGED <<config, phase, now, todo, market>>

(* place_order() of a market order, which is filled at once.               *)
PlaceMarket(r) ==
  /\ Operable
  /\ nextTicket <= MaxTicket
  /\ bid[r.symbol] # None
  /\ r.type = "market"
  /\ OpenPosition(nextTicket, r, Slipped(r.side, bid[r.symbol], ask[r.symbol]))
  /\ bids' = Remember(bid[r.symbol])
  /\ nextTicket' = nextTicket + 1
  /\ CountOp
  /\ UNCHANGED pending

(* place_order() of any other type: it waits for its price.                *)
PlacePending(r) ==
  /\ Operable
  /\ nextTicket <= MaxTicket
  /\ bid[r.symbol] # None
  /\ r.type # "market"
  /\ r.price # None
  /\ pending' = With(pending, nextTicket, r)
  /\ nextTicket' = nextTicket + 1
  /\ CountOp
  /\ UNCHANGED <<money, positions, filled>>

Chosen(new, old) == IF new # None THEN new ELSE old

(* (mutant) The volume of a pending order is not looked at.                *)
ModifyPendingAnyVolume(t, c) ==
  /\ Operable
  /\ t \in DOMAIN pending
  /\ pending' = [pending EXCEPT ![t].sl = Chosen(c.sl, @), ![t].tp = Chosen(c.tp, @),
                                ![t].price = Chosen(c.price, @),
                                ![t].volume = Chosen(c.volume, @)]
  /\ CountOp
  /\ UNCHANGED <<money, nextTicket, positions, filled>>

(* modify_order() of a pending order: every field, unless the volume is    *)
(* not positive.                                                           *)
ModifyPending(t, c) ==
  /\ Operable
  /\ t \in DOMAIN pending
  /\ c.volume # None => c.volume > 0
  /\ pending' = [pending EXCEPT ![t].sl = Chosen(c.sl, @), ![t].tp = Chosen(c.tp, @),
                                ![t].price = Chosen(c.price, @),
                                ![t].volume = Chosen(c.volume, @)]
  /\ CountOp
  /\ UNCHANGED <<money, nextTicket, positions, filled>>

(* modify_order() of a position: only its stop and its target.             *)
ModifyPosition(t, c) ==
  /\ Operable
  /\ t \notin DOMAIN pending
  /\ t \in DOMAIN positions
  /\ positions' = [positions EXCEPT ![t].sl = Chosen(c.sl, @), ![t].tp = Chosen(c.tp, @)]
  /\ CountOp
  /\ UNCHANGED <<money, nextTicket, pending, filled>>

(* close_position() asked for by the strategy.                             *)
Close(t, volume) ==
  /\ Operable
  /\ t \in DOMAIN positions
  /\ ClosePosition(t, volume)
  /\ CountOp

(* cancel_order().                                                         *)
Cancel(t) ==
  /\ Operable
  /\ t \in DOMAIN pending
  /\ pending' = Without(pending, t)
  /\ CountOp
  /\ UNCHANGED <<money, nextTicket, positions, filled>>

-----------------------------------------------------------------------------
(* What a bar or tick shows: the range of prices at which a position of    *)
(* each side can be closed.                                                *)
TickShown(s, q) == [symbol |-> s, low |-> [buy |-> q.bid, sell |-> q.ask],
                                  high |-> [buy |-> q.bid, sell |-> q.ask]]
BarShown(s, r) == [symbol |-> s, low |-> [buy |-> r.low, sell |-> r.low],
                                 high |-> [buy |-> r.high, sell |-> r.high]]

(* check_sl_tp() and check_sl_tp_tick(): a long is closed below its stop   *)
(* or above its target, a short the other way round.                       *)
Breached(p, e) ==
  LET floor   == IF p.side = "buy" THEN p.sl ELSE p.tp
      ceiling == IF p.side = "buy" THEN p.tp ELSE p.sl
  IN /\ p.symbol = e.symbol
     /\ \/ floor # None /\ e.low[p.side] <= floor
        \/ ceiling # None /\ e.high[p.side] >= ceiling

(* The quote an order is filled at: the buyer pays the ask.                *)
Quote(o) == IF o.side = "buy" THEN ask[o.symbol] ELSE bid[o.symbol]

(* (mutant) A limit order triggers the way a stop order does.              *)
TriggeredAsStop(o) ==
  /\ o.symbol = now.symbol
  /\ CASE granularity = "bar" -> now.low.buy <= o.price /\ o.price <= now.high.buy
       [] o.side = "sell" -> Quote(o) <= o.price
       [] OTHER -> Quote(o) >= o.price

(* _pending_triggered() on a tick, the range test of check_pending_bar()   *)
(* on a bar.                                                               *)
Triggered(o) ==
  /\ o.symbol = now.symbol
  /\ CASE granularity = "bar" -> now.low.buy <= o.price /\ o.price <= now.high.buy
       [] (o.type = "limit") = (o.side = "buy") -> Quote(o) <= o.price
       [] OTHER -> Quote(o) >= o.price

(* The price a triggered order fills at, and the quote a stop slips from.  *)
TriggerBid(o) == IF granularity = "bar" THEN o.price ELSE bid[o.symbol]
TriggerAsk(o) == IF granularity = "bar" THEN o.price ELSE ask[o.symbol]
FillPrice(o) ==
  IF o.type \in {"limit", "stop_limit"} THEN o.price
  ELSE Slipped(o.side, TriggerBid(o), TriggerAsk(o))

(* The next bar or tick: the clock and the market move, and the positions  *)
(* to stop out are read.                                                   *)
Replay(s, e, b, a) ==
  /\ phase = "sleeping"
  /\ \E t \in simTime..MaxTime : simTime' = t
  /\ bid' = [bid EXCEPT ![s] = b]
  /\ ask' = [ask EXCEPT ![s] = a]
  /\ now' = e
  /\ todo' = {t \in DOMAIN positions : Breached(positions[t], e)}
  /\ phase' = "stops"
  /\ UNCHANGED <<config, money, nextTicket, positions, pending, filled, ops>>

ReplayTick(s, q) ==
  granularity = "tick" /\ Replay(s, TickShown(s, q), q.bid, q.ask)

ReplayBar(s, r) ==
  granularity = "bar" /\ Replay(s, BarShown(s, r), r.close, r.close)

(* One turn of the loop that closes what the price stopped out.            *)
StopOut(t) ==
  /\ phase = "stops"
  /\ t \in todo
  /\ ClosePosition(t, None)
  /\ todo' = todo \ {t}
  /\ UNCHANGED <<config, market, phase, now, ops>>

(* check_pending() / check_pending_bar(): the orders the price triggers.   *)
CheckPending ==
  /\ phase = "stops"
  /\ todo = {}
  /\ todo' = {t \in DOMAIN pending : Triggered(pending[t])}
  /\ phase' = "fills"
  /\ UNCHANGED <<config, market, money, now, nextTicket, positions, pending, filled, ops>>

(* _promote_pending().                                                     *)
FillPending(t) ==
  /\ phase = "fills"
  /\ t \in todo
  /\ OpenPosition(t, pending[t], FillPrice(pending[t]))
  /\ bids' = IF pending[t].type = "stop" THEN Remember(TriggerBid(pending[t])) ELSE bids
  /\ pending' = Without(pending, t)
  /\ todo' = todo \ {t}
  /\ UNCHANGED <<config, market, phase, now, nextTicket, ops>>

(* The event is published and the loop sleeps.                             *)
PublishEvent ==
  /\ phase = "fills"
  /\ todo = {}
  /\ phase' = "sleeping"
  /\ UNCHANGED <<config, market, money, now, todo, nextTicket, positions, pending, filled, ops>>

-----------------------------------------------------------------------------

(* The data is used up: run() closes the positions that remain.            *)
EndReplay ==
  /\ phase = "sleeping"
  /\ todo' = DOMAIN positions
  /\ phase' = "closing"
  /\ UNCHANGED <<config, market, money, now, nextTicket, positions, pending, filled, ops>>

CloseRemaining(t) ==
  /\ phase = "closing"
  /\ t \in todo
  /\ ClosePosition(t, None)
  /\ todo' = todo \ {t}
  /\ UNCHANGED <<config, market, phase, now, ops>>

(* runner.stop() and router.detach() wait, and queued signals are handled. *)
StopRunner ==
  /\ phase = "closing"
  /\ todo = {}
  /\ phase' = "ending"
  /\ UNCHANGED <<config, market, money, now, todo, nextTicket, positions, pending, filled, ops>>

(* The report takes the trades and the balance as they are.                *)
Report ==
  /\ phase = "ending"
  /\ phase' = "done"
  /\ UNCHANGED <<config, market, money, now, todo, nextTicket, positions, pending, filled, ops>>

-----------------------------------------------------------------------------
Init ==
  /\ model \in Models
  /\ granularity \in {"tick", "bar"}
  /\ phase = "sleeping"
  /\ now = None
  /\ todo = {}
  /\ simTime = 0
  /\ bid = [s \in Symbols |-> None]
  /\ ask = [s \in Symbols |-> None]
  /\ bids = <<>>
  /\ nextTicket = 1
  /\ positions = <<>>
  /\ pending = <<>>
  /\ balance = InitialBalance
  /\ trades = <<>>
  /\ realised = 0
  /\ openCost = 0
  /\ filled = [t \in Tickets |-> 0]
  /\ ops = 0

Operate ==
  \/ \E r \in Requests : PlaceMarket(r) \/ PlacePending(r)
  \/ \E t \in Tickets, c \in Changes : ModifyPending(t, c) \/ ModifyPosition(t, c)
  \/ \E t \in Tickets, v \in Volumes : Close(t, v)
  \/ \E t \in Tickets : Cancel(t)

Drive ==
  \/ \E s \in Symbols, q \in Quotes : ReplayTick(s, q)
  \/ \E s \in Symbols, r \in Bars : ReplayBar(s, r)
  \/ \E t \in Tickets : StopOut(t) \/ FillPending(t) \/ CloseRemaining(t)
  \/ CheckPending
  \/ PublishEvent
  \/ EndReplay
  \/ StopRunner
  \/ Report

Done == phase = "done" /\ UNCHANGED vars

Next == Operate \/ Drive \/ Done

Spec == Init /\ [][Next]_vars

-----------------------------------------------------------------------------
(* The balance is what the trade records say it is, less the open side of  *)
(* the commission of what is still open: no fee is charged twice or lost   *)
(* over partial closes (close_position(): "initial + sum(net pnl) ==       *)
(* final").                                                                *)
Ledger == balance = InitialBalance + realised - openCost

(* The two sums the ledger is made of are those of the records of the      *)
(* report and of the positions of the book.                                *)
BooksAgree ==
  /\ realised = FoldSeq(LAMBDA r, sum : r.pnl + sum, 0, trades)
  /\ openCost = MapThenSumSet(LAMBDA t : Fee(positions[t].volume), DOMAIN positions)

(* Volume is neither made nor lost: what a ticket was filled with is open  *)
(* or in the trade records of close_position().                            *)
VolumeConserved == \A t \in Tickets :
  filled[t] = (IF t \in DOMAIN positions THEN positions[t].volume ELSE 0)
    + FoldSeq(LAMBDA r, sum : (IF r.ticket = t THEN r.volume ELSE 0) + sum, 0, trades)

(* No position survives a price it should have been closed at: once the    *)
(* loop over check_sl_tp() is through, before pending orders fill, every   *)
(* open position of the symbol is on the right side of its stop and target *)
(* for all the prices the bar or tick has shown.                           *)
StopsHonoured ==
  phase = "stops" /\ todo = {} => \A t \in DOMAIN positions :
    LET p == positions[t]
    IN p.symbol = now.symbol =>
         /\ p.sl # None => IF p.side = "buy" THEN now.low.buy > p.sl ELSE now.high.sell < p.sl
         /\ p.tp # None => IF p.side = "buy" THEN now.high.buy < p.tp ELSE now.low.sell > p.tp

(* A limit order gets its price or better on the market, never a price     *)
(* nobody quoted: on a tick the quote is at least as good as the limit.    *)
LimitIsMarketable == [][\A t \in Tickets :
  /\ granularity = "tick"
  /\ FillPending(t)
  /\ pending[t].type = "limit"
  => Sign(pending[t].side) * (positions'[t].price - Quote(pending[t])) >= 0]_vars

(* Swap is charged for the nights a position was really held: for a        *)
(* position opened up to three days ago, the closed form of                *)
(* _rollover_count() counts the rollover hours after it opened, up to now. *)
RolloversCounted == \A opened \in (simTime - 3 * HoursPerDay)..simTime :
  Rollovers(opened, simTime) =
    Cardinality({t \in (opened + 1)..simTime : t % HoursPerDay = RolloverHour})

(* When the strategy is stopped the book is flat and the final balance is  *)
(* initial plus net profit: no position is left for the report to miss     *)
(* (run(): "Close any remaining positions at the last bar's close").       *)
FlatAtTheEnd == [][StopRunner =>
  positions = <<>> /\ balance = InitialBalance + realised]_vars

(* Every ticket lives as TicketLife says: handed out once, never revived,  *)
(* its volume only shrinking while it is open.                             *)
StateOf(t) ==
  IF t \in DOMAIN pending THEN "pending"
  ELSE IF t \in DOMAIN positions THEN "open"
  ELSE IF t < nextTicket THEN "gone" ELSE "new"

VolumeOf(t) ==
  IF t \in DOMAIN pending THEN pending[t].volume
  ELSE IF t \in DOMAIN positions THEN positions[t].volume ELSE 0

states == [t \in Tickets |-> StateOf(t)]
volumes == [t \in Tickets |-> VolumeOf(t)]

Life == INSTANCE TicketLife WITH life <- states, volume <- volumes

ImplementsLife == Life!Spec

(* The money adds up: the ledger, its parts, the volumes, and the nights   *)
(* that swaps are charged for.                                             *)
BooksBalance == TypeOK /\ Ledger /\ BooksAgree /\ VolumeConserved /\ RolloversCounted

(* No stop is passed over, no limit order pays more than it asked for, and *)
(* no position is left when the replay is over.                            *)
FairReplay == []StopsHonoured /\ LimitIsMarketable /\ FlatAtTheEnd
=============================================================================
