-------------------------- MODULE ExampleStrategies --------------------------
(***************************************************************************)
(* The strategies of strategies/examples/: when they enter, when they ask  *)
(* to close, and what their hooks remember.  What the indicators say of a  *)
(* bar is a choice (a set of Inputs of each kind); the order of the gates  *)
(* and the bookkeeping are those of the code.                              *)
(*                                                                         *)
(* Bar indices are kept as distances: the age of a position and the bars   *)
(* since the last close, up to the limits they are compared with.          *)
(***************************************************************************)
EXTENDS PositionManagers

CONSTANTS
  MaxHold,      \* max_hold_bars, max_hold_bars_m1
  Cooldown,     \* cooldown_bars, cooldown_bars_m1
  MaxTrades,    \* max_trades_per_session
  Distances,    \* distances of a trailing stop, set by the ATR of its entry bar
  Stops         \* stop levels the chandelier may compute

ASSUME StrategyAssumption ==
  /\ {MaxHold, MaxTrades} \subseteq Nat \ {0}
  /\ Cooldown \in Nat
  /\ Stops \subseteq Levels
  /\ Distances \subseteq Nat \ {0}

VARIABLES
  kind,        \* the strategy
  trailing,    \* whether every entry attaches a trailing stop
  age,         \* _entry_bar_by_ticket: ticket -> bars since its fill
  idle,        \* bars since _last_close_bar_index
  trades,      \* _trades_this_session
  built,       \* _or_high, _or_low, _or_built_at are set
  openTicket,  \* _open_ticket, 0 for None
  openBars,    \* _open_bars
  cooldown,    \* _cooldown_left
  prev,        \* the previous sample of the cross detector, or None
  last,        \* history: what the bar before this one showed
  fresh,       \* history: every cross acted on was one of adjacent bars
  open,        \* _open_side is set (pairs_trading.py)
  mine,        \* _state: [ticket, stop], or None
  store,       \* the state store's entry for the strategy, or None
  loaded,      \* _loaded
  reconciled,  \* _reconciled
  leaving      \* _pending_exit

sessionVars == <<age, idle, trades, built>>
ticketVars == <<openTicket, openBars, cooldown, prev, last, fresh>>
trendVars == <<mine, store, loaded, reconciled, leaving>>
strategyVars == <<kind, trailing, age, idle, trades, built, openTicket, openBars, cooldown, prev,
                  last, fresh, open, mine, store, loaded, reconciled, leaving>>

SessionKinds == {"lsr", "vpc", "orb", "bbr"}
TicketKinds == {"prs", "mbs", "mtc", "ofis"}
Kinds == SessionKinds \cup TicketKinds \cup {"ma", "pairs", "d1h4"}
Held == [ticket : Tickets, stop : Levels]

StrategiesTypeOK ==
  /\ kind \in Kinds
  /\ DOMAIN age \subseteq Tickets
  /\ \A t \in DOMAIN age : age[t] \in 0..MaxHold
  /\ idle \in 0..Cooldown
  /\ trades \in Nat
  /\ built \in BOOLEAN
  /\ openTicket \in Tickets \cup {0}
  /\ openBars \in 0..MaxHold
  /\ cooldown \in 0..Cooldown
  /\ prev \in {"below", "above", None}
  /\ {mine, store, loaded} \subseteq Held \cup {None}
  /\ {trailing, open, reconciled, leaving} \subseteq BOOLEAN

(* A strategy object as it is constructed.                                 *)
StrategyFresh ==
  /\ age = <<>> /\ idle = Cooldown /\ trades = 0 /\ built = FALSE
  /\ openTicket = 0 /\ openBars = 0 /\ cooldown = 0
  /\ prev = None /\ last = None
  /\ open = FALSE
  /\ mine = None /\ reconciled = FALSE /\ leaving = FALSE

StrategiesInit(k, trail) ==
  /\ kind = k
  /\ trailing = trail
  /\ StrategyFresh
  /\ fresh = TRUE /\ store = None /\ loaded = None

(* Entering: the signals of a bar, and before them the trailing stop of    *)
(* the entry, which stays attached whatever becomes of the order.          *)
Enter(n) ==
  /\ Buy(n)
  /\ IF n > 0 /\ trailing
     THEN \E d \in Distances : Attach([type |-> "trailing", distance |-> d])
     ELSE UNCHANGED managerVars

AskToClose(tickets) == closes' = closes \cup tickets

-----------------------------------------------------------------------------
(* Liquidity sweep, VWAP pullback, opening range breakout and Bollinger    *)
(* reversion: a cap per session, a cooldown after a close, one position at *)
(* a time by ctx.position, and a time exit by ticket.                      *)

(* _maybe_roll_session() and _on_cooldown(), with the index of this bar.   *)
TradesNow(b) == IF b.rolls THEN 0 ELSE trades
IdleNow == Least(idle + 1, Cooldown)
OnCooldown == IdleNow < Cooldown

(* (mutant) The open position is not looked at.                            *)
LsrEntriesStack(b) ==
  IF /\ b.trading
     /\ TradesNow(b) < MaxTrades
     /\ ~OnCooldown
  THEN b.setups ELSE 0

(* LiquiditySweepReversal.on_bar(): a short and, as the view has not moved *)
(* meanwhile, a long on the same bar when it sweeps both ends of the range.*)
LsrEntries(b) ==
  IF /\ b.trading
     /\ TradesNow(b) < MaxTrades
     /\ ~OnCooldown
     /\ view = <<>>
  THEN b.setups ELSE 0

(* VwapPullbackContinuation.on_bar().                                      *)
VpcEntries(b) ==
  IF /\ b.trading
     /\ TradesNow(b) < MaxTrades
     /\ ~OnCooldown
     /\ view = <<>>
     /\ b.setups > 0
  THEN 1 ELSE 0

(* OpeningRangeBreakout: the range is reset with the session and frozen on *)
(* the first bar after its window; entries need it, for a while.           *)
BuiltNow(b) == IF b.rolls THEN b.trading /\ b.over ELSE built \/ (b.trading /\ b.over)
OrbEntries(b) ==
  IF /\ b.trading
     /\ BuiltNow(b)
     /\ TradesNow(b) < MaxTrades
     /\ ~OnCooldown
     /\ ~b.late
     /\ view = <<>>
     /\ b.setups > 0
  THEN 1 ELSE 0

(* BollingerReversionScalper.on_bar().                                     *)
BbrEntries(b) ==
  IF /\ b.trading
     /\ view = <<>>
     /\ TradesNow(b) < MaxTrades
     /\ ~OnCooldown
     /\ b.setups > 0
  THEN 1 ELSE 0

SessionEntries(b) ==
  CASE kind = "lsr" -> LsrEntries(b)
    [] kind = "vpc" -> VpcEntries(b)
    [] kind = "orb" -> OrbEntries(b)
    [] kind = "bbr" -> BbrEntries(b)

(* (mutant) A position that was asked to close is not asked again.         *)
SessionBarAsksOnce(b) ==
  LET aged == [t \in DOMAIN age |-> Least(age[t] + 1, MaxHold)]
  IN /\ kind \in SessionKinds
     /\ age' = aged
     /\ idle' = IdleNow
     /\ trades' = TradesNow(b)
     /\ built' = (kind = "orb" /\ BuiltNow(b))
     /\ entries' = IF b.rolls THEN 0 ELSE entries
     /\ AskToClose({t \in DOMAIN aged : aged[t] = MaxHold /\ age[t] < MaxHold})
     /\ Enter(SessionEntries(b))
     /\ UNCHANGED <<moves, ticketVars, open, trendVars>>

(* on_bar(): the indices advance, the session rolls, positions that have   *)
(* been held long enough are asked to close, then come the gates.          *)
SessionBar(b) ==
  LET aged == [t \in DOMAIN age |-> Least(age[t] + 1, MaxHold)]
  IN /\ kind \in SessionKinds
     /\ age' = aged
     /\ idle' = IdleNow
     /\ trades' = TradesNow(b)
     /\ built' = (kind = "orb" /\ BuiltNow(b))
     /\ entries' = IF b.rolls THEN 0 ELSE entries
     /\ AskToClose({t \in DOMAIN aged : aged[t] = MaxHold})
     /\ Enter(SessionEntries(b))
     /\ UNCHANGED <<moves, ticketVars, open, trendVars>>

(* on_order_filled(): the reversion scalper counts the entry, once.        *)
SessionFill(t) ==
  /\ kind \in SessionKinds
  /\ age' = IF kind = "bbr" /\ t \in DOMAIN age THEN age ELSE With(age, t, 0)
  /\ trades' = IF kind = "bbr" /\ t \notin DOMAIN age THEN trades + 1 ELSE trades
  /\ UNCHANGED <<idle, built, ticketVars, open, trendVars>>

(* on_position_closed(): the others count the close.                       *)
SessionClose(t) ==
  /\ kind \in SessionKinds
  /\ age' = Without(age, {t})
  /\ IF kind = "bbr"
     THEN idle' = (IF t \in DOMAIN age THEN 0 ELSE idle) /\ UNCHANGED trades
     ELSE idle' = 0 /\ trades' = trades + 1
  /\ UNCHANGED <<built, ticketVars, open, trendVars>>

-----------------------------------------------------------------------------
(* The scalpers that remember one ticket: while they have it they manage   *)
(* it and do nothing else, then they pause for the cooldown.               *)
ManageTicket(leave) ==
  /\ openTicket # 0
  /\ openBars' = Least(openBars + 1, MaxHold)
  /\ AskToClose(IF leave \/ openBars' = MaxHold THEN {openTicket} ELSE {})
  /\ UNCHANGED <<signals, blind, managerVars, openTicket, cooldown>>

CoolDown ==
  /\ openTicket = 0
  /\ cooldown > 0
  /\ cooldown' = cooldown - 1
  /\ UNCHANGED <<requests, blind, managerVars, openTicket, openBars>>

MayEnter(entering) ==
  /\ openTicket = 0
  /\ cooldown = 0
  /\ Enter(IF entering THEN 1 ELSE 0)
  /\ UNCHANGED <<closes, openTicket, openBars, cooldown>>

(* An entry on a cross is judged by the sample of the bar before.          *)
CrossNow(b) == prev # None /\ prev # b.side
JudgeCross(b) ==
  /\ last' = b.side
  /\ fresh' = (fresh /\ (signals' > signals => last # None /\ last # b.side))

(* PullbackReversalScalper.on_bar(): nothing at all until the indicators   *)
(* are warm, which they stay; then the sample first, whatever else happens *)
(* on the bar.                                                             *)
PrsBar(b) ==
  /\ kind = "prs"
  /\ prev # None => b.warm
  /\ IF b.warm
     THEN /\ prev' = b.side
          /\ ManageTicket(b.exit) \/ CoolDown \/ MayEnter(CrossNow(b) /\ b.setups > 0)
     ELSE UNCHANGED <<prev, openTicket, openBars, cooldown, requests, blind, managerVars>>
  /\ JudgeCross(b)
  /\ UNCHANGED <<moves, entries, sessionVars, open, trendVars>>

(* MultiTFConfluenceScalper.on_bar(): the sample may be none.              *)
MtcBar(b) ==
  /\ kind = "mtc"
  /\ prev' = IF b.warm THEN b.side ELSE None
  /\ \/ ManageTicket(FALSE)
     \/ CoolDown
     \/ MayEnter(b.trading /\ b.warm /\ CrossNow(b) /\ b.setups > 0)
  /\ JudgeCross(b)
  /\ UNCHANGED <<moves, entries, sessionVars, open, trendVars>>

(* MomentumBreakoutScalper.on_bar().                                       *)
MbsBar(b) ==
  /\ kind = "mbs"
  /\ ManageTicket(FALSE) \/ CoolDown \/ MayEnter(b.trading /\ b.setups > 0)
  /\ UNCHANGED <<moves, entries, prev, last, fresh, sessionVars, open, trendVars>>

(* OrderFlowImbalanceScalper.on_bar().                                     *)
OfisBar(b) ==
  /\ kind = "ofis"
  /\ ManageTicket(FALSE) \/ CoolDown \/ MayEnter(b.trading /\ b.setups > 0)
  /\ UNCHANGED <<moves, entries, prev, last, fresh, sessionVars, open, trendVars>>

(* on_order_filled(): the last fill is the one that is remembered.         *)
TicketFill(t) ==
  /\ kind \in TicketKinds
  /\ openTicket' = t
  /\ openBars' = 0
  /\ UNCHANGED <<cooldown, prev, last, fresh, sessionVars, open, trendVars>>

(* on_position_closed().                                                   *)
TicketClose(t) ==
  /\ kind \in TicketKinds
  /\ IF t = openTicket
     THEN openTicket' = 0 /\ openBars' = 0 /\ cooldown' = Cooldown
     ELSE UNCHANGED <<openTicket, openBars, cooldown>>
  /\ UNCHANGED <<prev, last, fresh, sessionVars, open, trendVars>>

-----------------------------------------------------------------------------
(* MACrossover and RegimeFilteredMA: an order on every cross.              *)
MaBar(b) ==
  /\ kind = "ma"
  /\ Enter(IF b.setups > 0 THEN 1 ELSE 0)
  /\ UNCHANGED <<moves, closes, entries, sessionVars, ticketVars, open, trendVars>>

(* PairsTrading.on_bar(): two legs at once; all that the view holds is     *)
(* closed when the spread comes back.                                      *)
PairsBar(b) ==
  /\ kind = "pairs"
  /\ IF open
     THEN /\ open' = ~b.exit
          /\ AskToClose(IF b.exit THEN ViewedTickets ELSE {})
          /\ UNCHANGED <<signals, blind, managerVars>>
     ELSE /\ open' = (b.setups > 0)
          /\ Enter(IF b.setups > 0 THEN 2 ELSE 0)
          /\ UNCHANGED closes
  /\ UNCHANGED <<moves, entries, sessionVars, ticketVars, trendVars>>

-----------------------------------------------------------------------------
(* D1H4Trend: one position held over days, whose stop is ratcheted,        *)
(* written to the state store and restored after a restart.                *)

(* reconcile(): the stored state, if a position of the view is the one it  *)
(* was saved for.                                                          *)
Reconciled == IF loaded # None /\ loaded.ticket \in ViewedTickets THEN loaded ELSE None

(* _adopt_position() of a position no valid state is known for.  (The      *)
(* entries carry a stop, of the lowest level.)                             *)
Adopted(p) == [ticket |-> p.ticket, stop |-> p.sl]

(* The chandelier stop of the bar, never below the one in force.           *)
Ratcheted(state, stop) ==
  IF stop # None /\ stop > state.stop THEN [state EXCEPT !.stop = stop] ELSE state

(* _manage_open(): adopt, ratchet, and ask to leave until it is done.      *)
ManageOpen(b, before) ==
  LET p == view[1]
      adopts == before = None \/ before.ticket # p.ticket
      state == IF adopts THEN Adopted(p) ELSE before
      after == Ratcheted(state, b.stop)
  IN /\ mine' = after
     /\ store' = IF adopts \/ after # state THEN after ELSE store
     /\ moves' = IF after # state THEN Append(moves, [ticket |-> p.ticket, sl |-> after.stop]) ELSE moves
     /\ leaving' = ((leaving /\ ~adopts) \/ b.exit)
     /\ AskToClose(IF leaving' THEN {p.ticket} ELSE {})
     /\ UNCHANGED <<signals, blind, managerVars>>

(* _clear_state() of what is left of an earlier position, _maybe_enter().  *)
LookForEntry(b, before) ==
  /\ mine' = None
  /\ leaving' = FALSE
  /\ store' = IF before # None \/ leaving THEN None ELSE store
  /\ Enter(IF b.setups > 0 THEN 1 ELSE 0)
  /\ UNCHANGED <<moves, closes>>

(* on_bar(): a completed H4 bar is evaluated; the first of a run settles   *)
(* what was loaded, and nothing that does not match survives.              *)
D1h4Bar(b) ==
  /\ kind = "d1h4"
  /\ LET before == IF reconciled THEN mine ELSE Reconciled
     IN /\ reconciled' = TRUE
        /\ loaded' = None
        /\ \/ view # <<>> /\ ManageOpen(b, before)
           \/ view = <<>> /\ ~reconciled /\ LookForEntry(b, loaded)
           \/ view = <<>> /\ reconciled /\ LookForEntry(b, mine)
  /\ UNCHANGED <<entries, sessionVars, ticketVars, open>>

D1h4Fill(t, sl) ==
  /\ kind = "d1h4"
  /\ mine' = [ticket |-> t, stop |-> sl]
  /\ store' = mine'
  /\ leaving' = FALSE
  /\ UNCHANGED <<loaded, reconciled, sessionVars, ticketVars, open>>

D1h4Close(t) ==
  /\ kind = "d1h4"
  /\ IF mine # None /\ mine.ticket = t
     THEN mine' = None /\ leaving' = FALSE /\ store' = None
     ELSE UNCHANGED <<mine, leaving, store>>
  /\ UNCHANGED <<loaded, reconciled, sessionVars, ticketVars, open>>

-----------------------------------------------------------------------------
(* What a closed bar of the entry feed may show, as far as each strategy   *)
(* looks at it.                                                            *)
Bar(setups, rolls, trading, over, late, warm, exit, sides, stops) ==
  [setups : setups, rolls : rolls, trading : trading, over : over, late : late,
   warm : warm, exit : exit, side : sides, stop : stops]
No == {FALSE}
Yes == {TRUE}
Inputs ==
  CASE kind = "lsr" -> Bar(0..2, BOOLEAN, BOOLEAN, No, No, Yes, No, {None}, {None})
    [] kind \in {"vpc", "bbr"} -> Bar(0..1, BOOLEAN, BOOLEAN, No, No, Yes, No, {None}, {None})
    [] kind = "orb" -> Bar(0..1, BOOLEAN, BOOLEAN, BOOLEAN, BOOLEAN, Yes, No, {None}, {None})
    [] kind \in {"mbs", "ofis"} -> Bar(0..1, No, BOOLEAN, No, No, Yes, No, {None}, {None})
    [] kind = "mtc" -> Bar(0..1, No, BOOLEAN, No, No, BOOLEAN, No, {"below", "above"}, {None})
    [] kind = "prs" -> Bar(0..1, No, Yes, No, No, BOOLEAN, BOOLEAN, {"below", "above"}, {None})
    [] kind = "ma" -> Bar(0..1, No, Yes, No, No, Yes, No, {None}, {None})
    [] kind = "pairs" -> Bar(0..1, No, Yes, No, No, Yes, BOOLEAN, {None}, {None})
    [] kind = "d1h4" -> Bar(0..1, No, Yes, No, No, Yes, BOOLEAN, {None}, Stops \cup {None})

(* The hooks of the strategy, as the runner calls them.                    *)
OnBar(b) ==
  /\ \/ SessionBar(b)
     \/ PrsBar(b) \/ MtcBar(b) \/ MbsBar(b) \/ OfisBar(b)
     \/ MaBar(b) \/ PairsBar(b)
     \/ D1h4Bar(b)
  /\ UNCHANGED <<cancels, kind, trailing>>

Plain == kind \in {"ma", "pairs"} /\ UNCHANGED strategyVars

OnFill(t, sl) ==
  /\ SessionFill(t) \/ TicketFill(t) \/ D1h4Fill(t, sl) \/ Plain
  /\ UNCHANGED <<kind, trailing>>
OnClose(t) ==
  /\ SessionClose(t) \/ TicketClose(t) \/ D1h4Close(t) \/ Plain
  /\ UNCHANGED <<kind, trailing>>
=============================================================================
