--------------------------- MODULE PositionManagers ---------------------------
(***************************************************************************)
(* The position managers of strategies/managers/: trailing stop, break     *)
(* even, ladder, time exit and OCO group.  A manager is attached to the    *)
(* context; the runner calls it on ticks, bars, fills, closes and cancels  *)
(* before the strategy, and it acts by requests of the context.            *)
(***************************************************************************)
EXTENDS TradeDesk

CONSTANTS
  Activate,       \* trailing: profit before the stop starts to move
  Trigger, Lock,  \* break even: profit that fires it, distance it locks
  Step, MaxLevels,\* ladder: distance and number of rungs
  MaxBars         \* time exit: closed bars a position may last

ASSUME ManagerAssumption ==
  /\ {Activate, Lock} \subseteq Nat
  /\ {Trigger, Step, MaxLevels, MaxBars} \subseteq Nat \ {0}

VARIABLES
  attached,  \* ctx._managers: [type, distance], in order of attachment
  best,      \* TrailingStopManager._best_sl of each: ticket -> stop
  fired,     \* BreakEvenMover._fired
  levels,    \* LadderManager._levels: ticket -> rungs added
  rung,      \* LadderManager._last_price
  held,      \* TimeExitManager._bars: ticket -> bars counted
  exiting,   \* TimeExitManager._closing
  group      \* OCOGroupManager: ticket -> kind, of its one group

managerVars == <<attached, best, fired, levels, rung, held, exiting, group>>

ManagerTypes == {"trailing", "break_even", "ladder", "time_exit", "oco"}
Managers == [type : ManagerTypes, distance : Nat]

(* The managers of the list `attached` as they are constructed; a bracket  *)
(* is placed and grouped by add_bracket() in one hook.                     *)
ManagersFresh(bracket) ==
  /\ best = [i \in DOMAIN attached |-> <<>>]
  /\ fired = {} /\ exiting = {}
  /\ levels = <<>> /\ rung = <<>> /\ held = <<>>
  /\ group = [t \in (IF bracket THEN {1, 2} ELSE {}) |-> "pending"]

ManagersTypeOK ==
  /\ attached \in Seq(Managers)
  /\ DOMAIN best = DOMAIN attached
  /\ fired \subseteq Tickets
  /\ DOMAIN levels = DOMAIN rung
  /\ \A t \in DOMAIN levels : levels[t] \in 0..MaxLevels
  /\ \A t \in DOMAIN held : held[t] \in 0..MaxBars
  /\ exiting \subseteq Tickets
  /\ group \in UNION {[S -> {"pending", "position"}] : S \in SUBSET Tickets}

Viewed == ToSet(view)
ViewedTickets == {p.ticket : p \in Viewed}
Known(f, t, default) == IF t \in DOMAIN f THEN f[t] ELSE default

(* ctx.move_stop() for some positions of the view, in its order, each to   *)
(* the stop chosen for it.                                                 *)
MoveStops(positions, stop) ==
  moves' = moves \o [i \in 1..Len(positions) |->
                       [ticket |-> positions[i].ticket, sl |-> stop[positions[i]]]]

(* ctx.attach_manager().                                                   *)
Attach(m) ==
  /\ attached' = Append(attached, m)
  /\ best' = Append(best, <<>>)
  /\ UNCHANGED <<fired, levels, rung, held, exiting, group>>

(* (mutant) Every tick sets the stop at its distance.                      *)
TrailingOnTickChases(i, bid) ==
  LET desired == bid - attached[i].distance
      Advances(p) ==
        /\ bid - p.open >= Activate
        /\ desired # Known(best[i], p.ticket, p.sl)
        /\ desired >= 0
      advanced == {p.ticket : p \in {q \in Viewed : Advances(q)}}
  IN /\ best' = [best EXCEPT ![i] = [t \in DOMAIN @ \cup advanced |->
                                       IF t \in advanced THEN desired ELSE @[t]]]
     /\ MoveStops(SelectSeq(view, Advances), [p \in Viewed |-> desired])
     /\ UNCHANGED <<signals, closes, cancels, blind, attached, fired, levels, rung, held,
                    exiting, group>>

(* TrailingStopManager.on_tick(): the i-th manager follows the bid at its  *)
(* distance, past the best stop it has set itself or, at first, the one    *)
(* in the view.                                                            *)
TrailingOnTick(i, bid) ==
  LET desired == bid - attached[i].distance
      Advances(p) ==
        /\ bid - p.open >= Activate
        /\ desired > Known(best[i], p.ticket, p.sl)
      advanced == {p.ticket : p \in {q \in Viewed : Advances(q)}}
  IN /\ best' = [best EXCEPT ![i] = [t \in DOMAIN @ \cup advanced |->
                                       IF t \in advanced THEN desired ELSE @[t]]]
     /\ MoveStops(SelectSeq(view, Advances), [p \in Viewed |-> desired])
     /\ UNCHANGED <<signals, closes, cancels, blind, attached, fired, levels, rung, held,
                    exiting, group>>

(* BreakEvenMover.on_tick(): once per ticket, to the open price and a bit. *)
BreakEvenOnTick(bid) ==
  LET Fires(p) == p.ticket \notin fired /\ bid - p.open >= Trigger
  IN /\ fired' = fired \cup {p.ticket : p \in {q \in Viewed : Fires(q)}}
     /\ MoveStops(SelectSeq(view, Fires), [p \in Viewed |-> p.open + Lock])
     /\ UNCHANGED <<signals, closes, cancels, blind, attached, best, levels, rung, held,
                    exiting, group>>

(* LadderManager.on_tick(): a position that has gone a step further gets   *)
(* another entry; tickets that are gone are forgotten.                     *)
LadderOnTick(bid) ==
  LET Level(p) == Known(levels, p.ticket, 0)
      Rung(p) == Known(rung, p.ticket, p.open)
      climbing == {p.ticket : p \in {q \in Viewed : Level(q) < MaxLevels
                                                    /\ bid >= Rung(q) + Step}}
      At(t) == CHOOSE p \in Viewed : p.ticket = t
  IN /\ levels' = [t \in ViewedTickets |-> Level(At(t)) + (IF t \in climbing THEN 1 ELSE 0)]
     /\ rung' = [t \in ViewedTickets |-> IF t \in climbing THEN bid ELSE Rung(At(t))]
     /\ Buy(Cardinality(climbing))
     /\ UNCHANGED <<moves, closes, cancels, attached, best, fired, held, exiting, group>>

(* TimeExitManager.on_bar() of a bar that opened after the positions of    *)
(* `older`: a position that has lasted MaxBars is closed, once.            *)
TimeExitOnBar(older) ==
  LET Count(t) == Known(held, t, 0)
                    + (IF t \in older /\ t \notin exiting THEN 1 ELSE 0)
      due == {t \in ViewedTickets \ exiting : Count(t) >= MaxBars}
  IN /\ held' = [t \in ViewedTickets |-> Count(t)]
     /\ exiting' = (exiting \cup due) \cap ViewedTickets
     /\ closes' = closes \cup due
     /\ UNCHANGED <<signals, moves, cancels, blind, attached, best, fired, levels, rung, group>>

-----------------------------------------------------------------------------
(* OCOGroupManager.add(): tickets become a group.                          *)
AddGroup(tickets, kd) ==
  /\ group = <<>>
  /\ group' = [t \in tickets |-> kd]
  /\ UNCHANGED <<attached, best, fired, levels, rung, held, exiting>>

(* OCOGroupManager._cascade(): the siblings are cancelled or closed, by    *)
(* their kind, and the group is over.                                      *)
Cascade(t) ==
  /\ closes' = closes \cup {s \in DOMAIN group \ {t} : group[s] = "position"}
  /\ cancels' = cancels \cup {s \in DOMAIN group \ {t} : group[s] = "pending"}
  /\ group' = <<>>
  /\ UNCHANGED <<signals, moves, blind, attached, best, fired, levels, rung, held, exiting>>

(* on_order_filled() and on_position_closed() of a member of the group.    *)
OcoOnFillOrClose(t) ==
  \/ t \in DOMAIN group /\ Cascade(t)
  \/ t \notin DOMAIN group /\ UNCHANGED <<requests, blind, managerVars>>

(* on_order_cancelled(): the ticket just leaves the group.                 *)
OcoOnCancel(t) ==
  /\ group' = Without(group, {t})
  /\ UNCHANGED <<requests, blind, attached, best, fired, levels, rung, held, exiting>>
=============================================================================
