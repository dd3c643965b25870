------------------------------- MODULE Observers -------------------------------
(***************************************************************************)
(* The components that watch the fills and closes of one account: the      *)
(* reconciler, the trade persister, the drift monitor, the circuit breaker *)
(* and, through Notifications, the operator's channels.                    *)
(*                                                                         *)
(* Their handlers of a fill or a close never suspend, and the runtime      *)
(* starts them in the order persister, drift monitor, breaker, reconciler: *)
(* one step hands a published event to all of them in that order.  The     *)
(* checks of the reconciler are tasks of their own.                        *)
(*                                                                         *)
(* All positions are of one strategy; a close on another account may carry *)
(* the same ticket.  A position whose stop is hit at the MT5 server goes   *)
(* away with no event at all.                                              *)
(***************************************************************************)
EXTENDS Integers, Notifications, SequencesExt

CONSTANTS
  Tickets,
  Pnls,          \* results of a close: positive, negative or zero
  MinTrades, DriftWindow, WinFloor, ExpectancyFloor,  \* DriftMonitorConfig and a baseline
  MaxLosses,     \* max_consecutive_losses
  MaxFills,      \* bound: fill events of one ticket
  MaxTrades,     \* bound: closes and partial closes
  MaxEvents,     \* bound: fills, closes, resumes and removals together
  MaxFreed       \* bound: times the operator resumes the strategy or a reload
                 \* takes it out

ASSUME ObserversAssumption ==
  /\ Pnls \subseteq -10..10
  /\ {MinTrades, DriftWindow, MaxLosses, WinFloor, MaxFills, MaxTrades, MaxEvents, MaxFreed}
       \subseteq Nat
  /\ MinTrades >= 1 /\ DriftWindow >= MinTrades /\ MaxLosses >= 1

VARIABLES
  held,          \* held[t]: volume the broker shows: 0 is none
  leaving,       \* leaving[t]: the deal of a close is done, its event not yet published
  filled,        \* filled[t]: fill events published
  table,         \* _tasks: the check of a ticket, 0 when there is none
  checks,        \* every check started: its ticket and where its task is
  mismatches,    \* ReconciliationRow: the mismatches reported
  trades,        \* the trades table: pnl of the strategy's rows
  baseline,      \* there are backtest metrics, in the table or the cache
  alerted,       \* _alerted
  streak,        \* _losing_streak
  tripped,       \* _paused of the breaker
  registered,    \* a runner of the strategy is in the runtime's table
  paused,        \* that runner is paused
  freed,         \* history: that runner trades though the breaker has tripped:
                 \* it was resumed, or is newer than the trip
  lossRun,       \* history: losses in a row among the strategy's closes
  closedOwn,     \* history: tickets whose close of this account was handled
  drifted,       \* history: a drift alert was published
  rows, released

reconVars == <<held, leaving, filled, table, checks, mismatches, closedOwn>>
runnerVars == <<registered, paused, freed, released>>
watchVars == <<trades, baseline, alerted, streak, tripped, lossRun, drifted, rows, runnerVars>>
vars == <<noticeVars, held, leaving, filled, table, checks, mismatches, closedOwn, watchVars>>

(* The bound on all that is published, but for the start of a new runner.  *)
Room == FoldFunction(+, 0, filled) + rows + released < MaxEvents

Volume == 2
Live == {"sleeping", "answered"}

TypeOK ==
  /\ NoticeTypeOK
  /\ held \in [Tickets -> 0..Volume]
  /\ leaving \in [Tickets -> {"no", "part", "full"}]
  /\ filled \in [Tickets -> 0..MaxFills]
  /\ table \in [Tickets -> 0..Len(checks)]
  /\ \A t \in Tickets : table[t] # 0 => checks[table[t]].ticket = t /\ checks[table[t]].at \in Live
  /\ \A i \in DOMAIN checks : checks[i].at \in Live \cup {"cancelled", "unreachable", "ended"}
  /\ trades \in Seq(Pnls) /\ Len(trades) <= rows
  /\ rows \in 0..MaxTrades /\ released \in 0..MaxFreed
  /\ {baseline, alerted, tripped, registered, paused, freed} \subseteq BOOLEAN
  /\ streak \in 0..MaxTrades

Init ==
  /\ NoticeInit
  /\ held = [t \in Tickets |-> 0]
  /\ leaving = [t \in Tickets |-> "no"]
  /\ filled = [t \in Tickets |-> 0]
  /\ table = [t \in Tickets |-> 0]
  /\ checks = <<>>
  /\ mismatches = {}
  /\ closedOwn = {}
  /\ trades = <<>>
  /\ baseline = FALSE
  /\ alerted = FALSE /\ tripped = FALSE
  /\ registered = TRUE /\ paused = FALSE /\ freed = FALSE
  /\ streak = 0 /\ lossRun = 0 /\ drifted = FALSE
  /\ rows = 0 /\ released = 0
-----------------------------------------------------------------------------
(* The reconciler.                                                         *)

(* (mutant) The check is left to run.                                      *)
CancelNothing(all, i) == all

CancelCheck(all, i) ==
  IF i # 0 /\ all[i].at \in Live THEN [all EXCEPT ![i].at = "cancelled", ![i].volume = 0]
  ELSE all

(* _on_filled(): a check of the same ticket that is under way is cancelled *)
(* and a new one takes its place.                                          *)
StartCheck(t) ==
  /\ checks' = Append(CancelCheck(checks, table[t]), [ticket |-> t, at |-> "sleeping", volume |-> 0])
  /\ table' = [table EXCEPT ![t] = Len(checks) + 1]

(* A fill: the broker shows the position, shows another volume or lost it; *)
(* the same fill may be published again.                                   *)
Fill(t) ==
  /\ filled[t] < MaxFills /\ Room
  /\ IF filled[t] = 0 THEN \E v \in 0..Volume : held' = [held EXCEPT ![t] = v]
     ELSE UNCHANGED held
  /\ filled' = [filled EXCEPT ![t] = @ + 1]
  /\ StartCheck(t)
  /\ Announce({[class |-> "filled", about |-> <<t>>]})
  /\ UNCHANGED <<now, recent, sending, sends, leaving, mismatches, closedOwn, watchVars>>

(* The done callback of a check removes whatever entry its ticket has.     *)
Forgotten(i) == [table EXCEPT ![checks[i].ticket] = 0]

(* _verify(): after the grace period the broker is asked and answers with  *)
(* what it shows at that moment, ...                                       *)
Answer(i) ==
  /\ checks[i].at = "sleeping"
  /\ checks' = [checks EXCEPT ![i].at = "answered", ![i].volume = held[checks[i].ticket]]
  /\ UNCHANGED <<noticeVars, held, leaving, filled, table, mismatches, closedOwn, watchVars>>

(* ... or cannot be reached.                                               *)
Unreachable(i) ==
  /\ checks[i].at = "sleeping"
  /\ checks' = [checks EXCEPT ![i].at = "unreachable"]
  /\ table' = Forgotten(i)
  /\ UNCHANGED <<noticeVars, held, leaving, filled, mismatches, closedOwn, watchVars>>

(* The answer is compared; _record() reports what differs.                 *)
Compare(i) ==
  /\ checks[i].at = "answered"
  /\ LET t == checks[i].ticket
         kind == IF checks[i].volume = 0 THEN {"position_missing"}
                 ELSE IF checks[i].volume # Volume THEN {"volume_drift"} ELSE {}
     IN  mismatches' = mismatches \cup {[ticket |-> t, type |-> k, late |-> t \in closedOwn] : k \in kind}
  /\ checks' = [checks EXCEPT ![i].at = "ended", ![i].volume = 0]
  /\ table' = Forgotten(i)
  /\ UNCHANGED <<noticeVars, held, leaving, filled, closedOwn, watchVars>>

(* A cancelled check's task ends later, and so does its callback.          *)
CancelledEnds(i) ==
  /\ checks[i].at = "cancelled"
  /\ checks' = [checks EXCEPT ![i].at = "ended", ![i].volume = 0]
  /\ table' = Forgotten(i)
  /\ UNCHANGED <<noticeVars, held, leaving, filled, mismatches, closedOwn, watchVars>>

(* _on_filled(), _on_closed(): events of another account are not looked at. *)
Own(account) == account = "own"

(* _on_closed(): the entry is taken out and the check cancelled.           *)
CloseCancels(t, account) ==
  IF Own(account)
  THEN /\ checks' = CancelCheck(checks, table[t])
       /\ table' = [table EXCEPT ![t] = 0]
  ELSE UNCHANGED <<checks, table>>
-----------------------------------------------------------------------------
(* The persister, the drift monitor and the breaker.                       *)

(* recent_trades_for(): the newest rows of the strategy.                   *)
RecentOf(log) == SubSeq(log, IF Len(log) > DriftWindow THEN Len(log) - DriftWindow + 1 ELSE 1, Len(log))

SumOf(log) == FoldSeq(LAMBDA x, y : x + y, 0, log)

(* The win rate or the expectancy is below its floor: rates in percent.    *)
Degraded(log) ==
  LET w == RecentOf(log)
  IN  \/ 100 * Cardinality({i \in DOMAIN w : w[i] > 0}) < WinFloor * Len(w)
      \/ SumOf(w) < ExpectancyFloor * Len(w)

(* _on_closed() of the drift monitor on a log: too few trades or no        *)
(* baseline leave everything as it is.                                     *)
Judges(log) == Len(RecentOf(log)) >= MinTrades /\ baseline
Alerts(log) == Judges(log) /\ Degraded(log) /\ ~alerted

(* Hysteresis: a judgement decides whether the next one may alert.         *)
AlertedNext(log) == IF Judges(log) THEN Degraded(log) ELSE alerted

(* _on_closed() of the breaker.                                            *)
StreakNext(pnl) == IF pnl < 0 THEN streak + 1 ELSE 0

(* Both of the breaker's handlers ask for a pause; _pause() does so once,  *)
(* whether there is a runner to be paused or not.                          *)
Trips(alerts, pnl) == ~tripped /\ (StreakNext(pnl) >= MaxLosses \/ alerts)

StateEvent(state) == [class |-> "state", about |-> <<state>>]
DriftEvent(log) ==
  [class |-> "drift", about |-> <<Len(RecentOf(log)), SumOf(RecentOf(log))>>]

(* pause_strategy(): without a runner in the table nothing is paused.      *)
Pauses(alerts, pnl) == Trips(alerts, pnl) /\ registered

(* A close is published: the row is written, or writing it fails; the      *)
(* drift monitor judges, or an error keeps it from that.  pause() sets the *)
(* runner's flag first; nothing it does after that raises.                 *)
PublishClose(t, pnl, account) ==
  /\ rows < MaxTrades /\ Room
  /\ rows' = rows + 1
  /\ trades' \in {Append(trades, pnl), trades}
  /\ streak' = StreakNext(pnl)
  /\ lossRun' = IF pnl < 0 THEN lossRun + 1 ELSE 0
  /\ \E judged \in BOOLEAN :
       LET alerts == judged /\ Alerts(trades') IN
         /\ alerted' = IF judged THEN AlertedNext(trades') ELSE alerted
         /\ drifted' = (drifted \/ alerts)
         /\ tripped' = (tripped \/ Trips(alerts, pnl))
         /\ paused' = (paused \/ Pauses(alerts, pnl))
         /\ Announce((IF alerts THEN {DriftEvent(trades')} ELSE {})
                     \cup (IF Pauses(alerts, pnl) THEN {StateEvent("paused")} ELSE {}))
  /\ CloseCancels(t, account)
  /\ UNCHANGED <<now, recent, sending, sends, filled, mismatches, baseline>>
  /\ UNCHANGED <<registered, freed, released>>

(* close_position(): the broker's deal comes first, ...                    *)
Deal(t) ==
  /\ held[t] > 0 /\ leaving[t] = "no"
  /\ \E v \in 1..held[t] :
       /\ held' = [held EXCEPT ![t] = @ - v]
       /\ leaving' = [leaving EXCEPT ![t] = IF v = held[t] THEN "full" ELSE "part"]
  /\ UNCHANGED <<noticeVars, filled, table, checks, mismatches, closedOwn, watchVars>>

(* ... its event follows.                                                  *)
Closed(t) ==
  /\ leaving[t] = "full"
  /\ leaving' = [leaving EXCEPT ![t] = "no"]
  /\ closedOwn' = closedOwn \cup {t}
  /\ \E pnl \in Pnls : PublishClose(t, pnl, "own")
  /\ UNCHANGED held

(* A partial close is only of interest to the persister.                   *)
PartlyClosed(t) ==
  /\ leaving[t] = "part" /\ rows < MaxTrades /\ Room
  /\ leaving' = [leaving EXCEPT ![t] = "no"]
  /\ rows' = rows + 1
  /\ \E pnl \in Pnls : trades' \in {Append(trades, pnl), trades}
  /\ UNCHANGED <<noticeVars, held, filled, table, checks, mismatches, closedOwn, baseline, alerted,
                 streak, tripped, lossRun, drifted, runnerVars>>

(* A close of the same ticket number on another account.                   *)
ForeignClosed(t) ==
  /\ \E pnl \in Pnls : PublishClose(t, pnl, "other")
  /\ UNCHANGED <<held, leaving, closedOwn>>

(* The stop is hit at the server.                                          *)
StopHit(t) ==
  /\ held[t] > 0
  /\ held' = [held EXCEPT ![t] = 0]
  /\ UNCHANGED <<noticeVars, leaving, filled, table, checks, mismatches, closedOwn, watchVars>>

(* A backtest of the strategy finishes in another process.                 *)
BacktestFinishes ==
  /\ ~baseline
  /\ baseline' = TRUE
  /\ UNCHANGED <<noticeVars, reconVars, trades, alerted, streak, tripped, lossRun, drifted,
                 rows, runnerVars>>

(* The operator resumes the strategy: the breaker does not hear of it.     *)
Resume ==
  /\ paused /\ released < MaxFreed /\ Room
  /\ paused' = FALSE
  /\ freed' = (freed \/ tripped)
  /\ released' = released + 1
  /\ Announce({StateEvent("started")})
  /\ UNCHANGED <<now, recent, sending, sends, reconVars, trades, baseline, alerted, streak, tripped,
                 lossRun, drifted, rows, registered>>

(* A reload takes the runner out of the table, then stops it; its          *)
(* positions stay, and their closes are still of the strategy.             *)
Removed ==
  /\ registered /\ released < MaxFreed /\ Room
  /\ registered' = FALSE
  /\ paused' = FALSE
  /\ released' = released + 1
  /\ Announce({StateEvent("stopped")})
  /\ UNCHANGED <<now, recent, sending, sends, reconVars, trades, baseline, alerted, streak, tripped,
                 lossRun, drifted, rows, freed>>

(* A new runner is started, then put into the table: it is not paused, and *)
(* the breaker does not hear of it.                                        *)
Added ==
  /\ ~registered
  /\ registered' = TRUE
  /\ freed' = tripped
  /\ Announce({StateEvent("started")})
  /\ UNCHANGED <<now, recent, sending, sends, reconVars, trades, baseline, alerted, streak, tripped,
                 lossRun, drifted, rows, paused, released>>

Notices ==
  /\ NoticeStep
  /\ UNCHANGED <<reconVars, watchVars>>

Verify(i) == Answer(i) \/ Unreachable(i) \/ Compare(i) \/ CancelledEnds(i)

Next ==
  \/ \E t \in Tickets : \/ Fill(t) \/ Deal(t) \/ Closed(t) \/ PartlyClosed(t)
                        \/ ForeignClosed(t) \/ StopHit(t)
  \/ \E i \in DOMAIN checks : Verify(i)
  \/ BacktestFinishes \/ Resume \/ Removed \/ Added \/ Notices

(* Sleeps end, the broker answers or fails, and handlers run.              *)
Fairness ==
  /\ \A i \in 1..(MaxFills * Cardinality(Tickets)) :
       WF_vars(i \in DOMAIN checks /\ Verify(i))
  /\ \A c \in Classes : /\ WF_vars(Walk(c) /\ UNCHANGED <<reconVars, watchVars>>)
                        /\ WF_vars((SendEnds(c) \/ SendRaises(c)) /\ UNCHANGED <<reconVars, watchVars>>)

Spec == Init /\ [][Next]_vars /\ Fairness
-----------------------------------------------------------------------------
(* A position is never reported as missing once its close was handled: a   *)
(* quick close is not a mismatch.  A fill published twice is excepted: the *)
(* callback of the first check takes the second one's entry away.          *)
AlarmsAreReal ==
  \A m \in mismatches : m.late => filled[m.ticket] > 1

(* A strategy that closed MaxLosses losers in a row, or whose drift was    *)
(* alerted, is paused as long as it runs, also when the drift monitor      *)
(* failed or a trade was not logged; unless the operator resumed it after  *)
(* the breaker tripped, or its runner was replaced then: a breaker that    *)
(* tripped once does not trip again.                                       *)
LosersArePaused ==
  registered /\ ~freed /\ (lossRun >= MaxLosses \/ drifted) => paused

(* What the watchers report and do is justified.                           *)
ReportsSound == TypeOK /\ AlarmsAreReal /\ LosersArePaused /\ NoStorm

(* A fill the broker does not show is reported, unless the broker cannot   *)
(* be reached or the close of the position is published; and every event a *)
(* channel wants is sent, or was within the window.                        *)
Lost(t) == /\ held[t] = 0 /\ t \notin closedOwn
           /\ \E i \in DOMAIN checks : checks[i].ticket = t /\ checks[i].at = "sleeping"

Accounted(t) == \/ \E m \in mismatches : m.ticket = t
                \/ \E i \in DOMAIN checks : checks[i].ticket = t /\ checks[i].at = "unreachable"
                \/ t \in closedOwn

ReportsComplete == /\ \A t \in Tickets : Lost(t) ~> Accounted(t)
                   /\ []<>Drained /\ [][NoneSilenced]_vars
=============================================================================
