----------------------------- MODULE RiskMonitor -----------------------------
(***************************************************************************)
(* The account-wide rules of RiskMonitor (risk/monitor.py): kill switch,   *)
(* profit lock and daily loss limit, what is persisted of them, and the    *)
(* start of the process that restores them (runtime.py).                   *)
(*                                                                         *)
(* After the brokers are connected, run_until_signal() replays the pending *)
(* orders, reads the positions of every account and calls rehydrate(); the *)
(* scheduler's account_snapshot job runs beside it from the start. Calls   *)
(* to a broker go through its single-worker executor and are answered in   *)
(* the order they were made. The open-position counters are in OrderFlow.  *)
(*                                                                         *)
(* The database may fail whenever it is used: a write of the row or of a   *)
(* trade is then logged and forgotten, a start goes on without the row, or *)
(* without the log as well.                                                *)
(*                                                                         *)
(* Amounts are integers, percentages are compared by multiplying out.      *)
(***************************************************************************)
EXTENDS Integers, Sequences, FiniteSets

CONSTANTS
  Pools,         \* the configured broker pools: sequences of accounts
  None,
  InitEquity,    \* InitEquity[a]: equity and balance of the account at first
  Levels,        \* equities the market can move an account to
  KillPct,       \* kill_switch_drawdown_pct, 0 = off
  LockOn, ActivatePct, GivebackPct,   \* profit_lock
  LossPct,       \* max_daily_loss_pct, 0 = off
  Results,       \* realized P&L of a trade
  Replays,       \* pending orders can be waiting at a start
  SnapshotFails, \* get_account_snapshot() can raise
  MaxCloses, MaxDays, MaxStops,  \* bounds
  MaxFailures    \* bound: how often the database fails

Accounts == UNION {{p[i] : i \in DOMAIN p} : p \in Pools}

ASSUME RiskAssumption ==
  /\ \A p \in Pools : p # <<>> /\ p \in Seq(Accounts)
  /\ None \notin Int
  /\ Levels \subseteq Nat \ {0}
  /\ InitEquity \in [Accounts -> Nat \ {0}]
  /\ {KillPct, LossPct} \subseteq 0..100
  /\ {ActivatePct, GivebackPct} \subseteq 0..100
  /\ Results \subseteq Int
  /\ {LockOn, Replays, SnapshotFails} \subseteq BOOLEAN
  /\ {MaxCloses, MaxStops, MaxFailures} \subseteq Nat /\ MaxDays \in Nat \ {0}

VARIABLES
  pool,     \* the accounts, in the order of the broker pool
  mem,      \* the fields of RiskMonitor, see Fresh
  stored,   \* the risk_state row
  log,      \* log[d]: realized P&L of the trades logged with day d
  phase,    \* "down", "starting", "running"
  main,     \* the broker call the startup task waits for
  job,      \* the account whose snapshot the scheduler job waits for, 0 = none
  calls,    \* calls[a]: who waits for the broker of a, in the order of the calls
  snapQ,    \* queue of risk.snapshot
  closing,  \* a close made at the broker whose event is not published yet
  closeQ,   \* queues of risk.close and risk.partial_close
  equity, balance,  \* the accounts at their brokers
  day, closes, stops, failures,
  due,      \* history: what the row ought to say: the highest equity handled
            \* since the last reset, the switches tripped and not reset since
  early,    \* history: a snapshot was handled before rehydrate(), in some start
  unsaved,  \* history: the last write of the row failed, in this run
  amiss,    \* history: fields of the row that a failure keeps from being due
  made,     \* history: made[d]: realized P&L of the closes handled on day d
  unlogged, \* history: the days with a close that was not logged
  uncounted,\* history: the days of which a start did not learn what was made
  skewed    \* history: the opening balance was taken out of step with made

pastVars == <<due, early, unsaved, amiss, made, unlogged, uncounted, skewed, failures>>

vars == <<pool, mem, stored, log, phase, main, job, calls, snapQ, closing, closeQ,
          equity, balance, day, closes, stops, pastVars>>

startVars == <<phase, main, job, calls>>
envVars == <<equity, balance, day, closes, stops>>

Fresh ==
  [peak |-> None, equity |-> None, balance |-> None, tripped |-> FALSE,
   lockOpen |-> None, lockHigh |-> None, locked |-> FALSE,
   anchor |-> None, opening |-> 0, pnl |-> 0, needsOpening |-> FALSE]

Amount == Nat \cup {None}
Memory ==
  [peak : Amount, equity : Amount, balance : Int \cup {None}, tripped : BOOLEAN,
   lockOpen : Amount, lockHigh : Amount, locked : BOOLEAN,
   anchor : 1..MaxDays \cup {None}, opening : Int, pnl : Int, needsOpening : BOOLEAN]
Fields == {"peak", "tripped", "locked"}
MainIdle == [pc |-> "idle", at |-> 0]

TypeOK ==
  /\ mem \in Memory
  /\ stored \in [peak : Amount, tripped : BOOLEAN, locked : BOOLEAN]
  /\ log \in [1..MaxDays -> Int]
  /\ phase \in {"down", "starting", "running"}
  /\ main \in {MainIdle} \cup [pc : {"replay", "reading"}, at : DOMAIN pool]
  /\ job \in 0..Len(pool)
  /\ calls \in [Accounts -> Seq({"main", "job"})]
  /\ snapQ \in Seq([equity : Nat, balance : Int])
  /\ closing \in Int \cup {None}
  /\ closeQ \in Seq(Int)
  /\ equity \in [Accounts -> Nat]
  /\ balance \in [Accounts -> Int]
  /\ day \in 1..MaxDays /\ closes \in 0..MaxCloses /\ stops \in 0..MaxStops
  /\ due \in [peak : Amount, tripped : BOOLEAN, locked : BOOLEAN]
  /\ pool \in Pools /\ early \in BOOLEAN /\ skewed \in BOOLEAN /\ unsaved \in BOOLEAN
  /\ amiss \subseteq Fields
  /\ made \in [1..MaxDays -> Int]
  /\ unlogged \subseteq 1..MaxDays /\ uncounted \subseteq 1..MaxDays
  /\ failures \in 0..MaxFailures

-----------------------------------------------------------------------------
(* The handlers, as functions of the monitor's fields.                     *)

Above(a, b) == b = None \/ a > b

(* _drawdown_pct() >= pct.                                                 *)
FallenBy(pct, from, to) ==
  from # None /\ from > 0 /\ (from - to) * 100 >= pct * from

(* What _persist_state() writes.                                           *)
Row(m) == [peak |-> m.peak, tripped |-> m.tripped, locked |-> m.locked]

(* _maybe_roll_daily(): the first call of a new UTC day.                   *)
Roll(m) ==
  IF m.anchor = day THEN m
  ELSE [m EXCEPT !.anchor = day, !.pnl = 0,
                 !.opening = IF m.balance # None THEN m.balance ELSE @]

(* The profit lock trips: armed, and too much of the gain given back.      *)
GivesBack(m, eq) ==
  /\ m.lockHigh * 100 >= m.lockOpen * (100 + ActivatePct)
  /\ eq * 100 < m.lockHigh * 100 - (m.lockHigh - m.lockOpen) * GivebackPct

Seen(m, s) ==
  [m EXCEPT !.equity = s.equity, !.balance = s.balance,
            !.peak = IF Above(s.equity, m.peak) THEN s.equity ELSE @,
            !.anchor = IF m.anchor = None THEN day ELSE @,
            !.opening = IF m.anchor = None THEN s.balance
                        ELSE IF m.needsOpening THEN s.balance - m.pnl ELSE @,
            !.needsOpening = @ /\ m.anchor = None,
            !.lockOpen = IF LockOn /\ m.lockOpen = None THEN s.equity ELSE @,
            !.lockHigh = IF LockOn /\ Above(s.equity, m.lockHigh) THEN s.equity ELSE @]

(* (mutant) The flag follows the drawdown of the last snapshot.            *)
SnapshotUnlatched(m, s) ==
  LET n == Seen(m, s) IN
    [n EXCEPT !.tripped = KillPct > 0 /\ FallenBy(KillPct, n.peak, s.equity),
              !.locked = @ \/ (LockOn /\ GivesBack(n, s.equity))]

(* _on_snapshot().                                                         *)
Snapshot(m, s) ==
  LET n == Seen(m, s) IN
    [n EXCEPT !.tripped = @ \/ (KillPct > 0 /\ FallenBy(KillPct, n.peak, s.equity)),
              !.locked = @ \/ (LockOn /\ GivesBack(n, s.equity))]

(* ... writes the row when the peak rose or one of the flags was set.      *)
SnapshotPersists(m, n) == m.peak # n.peak \/ m.tripped # n.tripped \/ m.locked # n.locked

(* (mutant) The peak stays where it was.                                   *)
ResetKeepsPeak(m) == [m EXCEPT !.tripped = FALSE]

(* reset_kill_switch(): the peak is rebased to the current equity.         *)
KillReset(m) ==
  [m EXCEPT !.tripped = FALSE, !.peak = IF m.equity # None THEN m.equity ELSE @]

(* reset_profit_lock().                                                    *)
LockReset(m) ==
  [m EXCEPT !.locked = FALSE,
            !.lockOpen = IF m.equity # None THEN m.equity ELSE @,
            !.lockHigh = IF m.equity # None THEN m.equity ELSE @]

(* (mutant) The day of the restored P&L is not recorded.                   *)
RehydratedNoAnchor(m) ==
  [m EXCEPT !.pnl = log[day], !.needsOpening = TRUE,
            !.peak = stored.peak, !.tripped = stored.tripped, !.locked = stored.locked]

(* rehydrate(): the day's P&L from the trade log, the rest from the row;   *)
Rehydrated(m) ==
  [m EXCEPT !.pnl = log[day], !.anchor = day, !.needsOpening = TRUE,
            !.peak = stored.peak, !.tripped = stored.tripped, !.locked = stored.locked]

(* ... or, when the row cannot be loaded, the P&L only.                    *)
RehydratedWithoutRow(m) == [m EXCEPT !.pnl = log[day], !.anchor = day, !.needsOpening = TRUE]

(* What the account opened with and the trades handled since made of it: a *)
(* close whose event is not handled yet is at the broker only.             *)
Booked(a) ==
  balance[a] - (IF closing = None THEN 0 ELSE closing)
             - (IF closeQ = <<>> THEN 0 ELSE Head(closeQ))

(* A new day opens with the balance of the last snapshot handled.          *)
RollSkews == IF mem.anchor = day THEN skewed ELSE mem.balance # Booked(pool[1])

(* The first snapshot after rehydrate(), less the P&L restored; or, when   *)
(* nothing was restored, the first snapshot.                               *)
SnapshotSkews(s) ==
  IF mem.anchor = None \/ mem.needsOpening THEN s.balance # Booked(pool[1]) ELSE skewed

(* check_signal(), the account-wide rules.                                 *)
Allows(m) ==
  /\ ~m.tripped /\ ~m.locked
  /\ (LossPct > 0 /\ Roll(m).opening > 0) =>
       -Roll(m).pnl * 100 < LossPct * Roll(m).opening

-----------------------------------------------------------------------------
(* The database.                                                           *)

Fails == failures < MaxFailures /\ failures' = failures + 1

(* _persist_state(): a failure is logged only.                             *)
Persist(m) ==
  \/ stored' = Row(m) /\ unsaved' = FALSE /\ UNCHANGED failures
  \/ Fails /\ unsaved' = TRUE /\ UNCHANGED stored

(* The fields that are not as they ought to be, in the monitor or the row. *)
Astray(m, row, d) == {f \in Fields : m[f] # d[f] \/ row[f] # d[f]}

-----------------------------------------------------------------------------
(* The start of the process.                                               *)

Ask(who, a) == calls' = [calls EXCEPT ![a] = Append(@, who)]

(* The next account of the pool, 0 after the last.                         *)
Following(i) == IF i < Len(pool) THEN i + 1 ELSE 0

(* engine.start() has returned: the startup task makes its first call, the *)
(* scheduler's job, ready since before, makes its own behind it.           *)
Start ==
  /\ phase = "down"
  /\ phase' = "starting"
  /\ job' = 1
  /\ \E replay \in {r \in BOOLEAN : r => Replays}, i \in DOMAIN pool :
       /\ ~replay => i = 1
       /\ main' = [pc |-> IF replay THEN "replay" ELSE "reading", at |-> i]
       /\ calls' = [a \in Accounts |-> (IF a = pool[i] THEN <<"main">> ELSE <<>>)
                                         \o (IF a = pool[1] THEN <<"job">> ELSE <<>>)]
  /\ UNCHANGED <<mem, stored, log, snapQ, closing, closeQ, envVars, pool, pastVars>>

(* The broker of account i answers the call that is first in its executor. *)
Answered(who, i) ==
  /\ calls[pool[i]] # <<>>
  /\ Head(calls[pool[i]]) = who

(* `who` goes on, and asks the broker of account `next` (0 = none).        *)
GoesOn(who, i, next) ==
  calls' = [a \in Accounts |-> (IF a = pool[i] THEN Tail(calls[a]) ELSE calls[a])
                                  \o (IF next # 0 /\ a = pool[next] THEN <<who>> ELSE <<>>)]

(* The pending orders are replayed, the positions are read next; ...       *)
ReplayAnswered ==
  /\ main.pc = "replay"
  /\ Answered("main", main.at)
  /\ main' = [pc |-> "reading", at |-> 1]
  /\ GoesOn("main", main.at, 1)
  /\ UNCHANGED <<mem, stored, log, phase, job, snapQ, closing, closeQ, envVars, pool, pastVars>>

(* ... those of the next account, ...                                      *)
PositionsAnswered ==
  /\ main.pc = "reading"
  /\ Answered("main", main.at)
  /\ main.at < Len(pool)
  /\ main' = [main EXCEPT !.at = @ + 1]
  /\ GoesOn("main", main.at, main.at + 1)
  /\ UNCHANGED <<mem, stored, log, phase, job, snapQ, closing, closeQ, envVars, pool, pastVars>>

(* ... and after the last one rehydrate() runs, without an await, if the   *)
(* trade log can be read.                                                  *)
Rehydrate ==
  /\ main.pc = "reading"
  /\ Answered("main", main.at)
  /\ main.at = Len(pool)
  /\ \/ /\ mem' = Rehydrated(mem)
        /\ amiss' = amiss \cap Astray(mem', stored, due)
        /\ uncounted' = IF mem'.pnl = made[day] THEN uncounted \ {day}
                        ELSE uncounted \cup (unlogged \cap {day})
        /\ UNCHANGED failures
     \/ /\ Fails
        /\ mem' = RehydratedWithoutRow(mem)
        /\ amiss' = Astray(mem', stored, due)
        /\ uncounted' = IF mem'.pnl = made[day] THEN uncounted \ {day}
                        ELSE uncounted \cup (unlogged \cap {day})
     \/ /\ Fails
        /\ mem' = mem
        /\ amiss' = Astray(mem', stored, due)
        /\ uncounted' = IF mem'.pnl = made[day] THEN uncounted \ {day} ELSE uncounted \cup {day}
  /\ main' = MainIdle
  /\ phase' = "running"
  /\ GoesOn("main", main.at, 0)
  /\ UNCHANGED <<pool, stored, log, job, snapQ, closing, closeQ, envVars>>
  /\ UNCHANGED <<due, early, unsaved, made, unlogged, skewed>>

(* The account_snapshot job is due again.                                  *)
JobRuns ==
  /\ phase # "down"
  /\ job = 0
  /\ job' = 1
  /\ Ask("job", pool[1])
  /\ UNCHANGED <<mem, stored, log, phase, main, snapQ, closing, closeQ, envVars, pool, pastVars>>

(* get_account_snapshot() returns and is published, or raises; the job     *)
(* goes on to the next account. risk.snapshot is woken by the event and    *)
(* handles it before a later reply of a broker.                            *)
JobAnswered ==
  /\ job # 0
  /\ Answered("job", job)
  /\ snapQ = <<>>
  /\ \/ snapQ' = <<[equity |-> equity[pool[job]], balance |-> balance[pool[job]]]>>
     \/ SnapshotFails /\ snapQ' = <<>>
  /\ job' = Following(job)
  /\ GoesOn("job", job, Following(job))
  /\ UNCHANGED <<mem, stored, log, phase, main, closing, closeQ, envVars, pool, pastVars>>

OnSnapshot ==
  /\ snapQ # <<>>
  /\ mem' = Snapshot(mem, Head(snapQ))
  /\ IF SnapshotPersists(mem, mem') THEN Persist(mem') ELSE UNCHANGED <<stored, unsaved, failures>>
  /\ snapQ' = Tail(snapQ)
  /\ due' = [peak |-> IF Above(Head(snapQ).equity, due.peak) THEN Head(snapQ).equity ELSE due.peak,
             tripped |-> due.tripped \/ mem'.tripped,
             locked |-> due.locked \/ mem'.locked]
  /\ amiss' = amiss \cap Astray(mem', stored', due')
  /\ early' = (early \/ phase = "starting")
  /\ skewed' = SnapshotSkews(Head(snapQ))
  /\ UNCHANGED <<pool, log, startVars, closing, closeQ, envVars, made, unlogged, uncounted>>

-----------------------------------------------------------------------------
(* Trading. Bound: one close is under way at a time.                       *)

(* The broker closes a position, or a part of one, for the router, once    *)
(* the earlier calls are answered; ...                                     *)
BrokerCloses(a, r) ==
  /\ phase = "running"
  /\ calls[a] = <<>>
  /\ closes < MaxCloses
  /\ closing = None
  /\ closing' = r
  /\ closes' = closes + 1
  /\ balance' = [balance EXCEPT ![a] = @ + r]
  /\ UNCHANGED <<mem, stored, log, startVars, snapQ, closeQ, equity, day, stops, pool, pastVars>>

(* ... looks up what the deal realized, and publishes the event; a         *)
(* snapshot published before that is handled before.                       *)
CloseReplies ==
  /\ closing # None
  /\ closeQ = <<>> /\ snapQ = <<>>
  /\ closeQ' = Append(closeQ, closing)
  /\ closing' = None
  /\ UNCHANGED <<mem, stored, log, startVars, snapQ, envVars, pool, pastVars>>

(* _on_closed() or _on_partial_closed(), and the TradePersister, which is  *)
(* woken by the same event and dates the trade with the current time, or   *)
(* fails to write it.                                                      *)
OnClosed ==
  /\ closeQ # <<>>
  /\ mem' = [Roll(mem) EXCEPT !.pnl = @ + Head(closeQ)]
  /\ \/ log' = [log EXCEPT ![day] = @ + Head(closeQ)] /\ UNCHANGED <<unlogged, failures>>
     \/ Fails /\ unlogged' = unlogged \cup {day} /\ UNCHANGED log
  /\ made' = [made EXCEPT ![day] = @ + Head(closeQ)]
  /\ closeQ' = Tail(closeQ)
  /\ skewed' = RollSkews
  /\ UNCHANGED <<pool, stored, startVars, snapQ, closing, envVars>>
  /\ UNCHANGED <<due, early, unsaved, amiss, uncounted>>

(* check_signal() rolls the day over, unless a switch is tripped.          *)
CheckSignal ==
  /\ phase = "running"
  /\ ~mem.tripped /\ ~mem.locked
  /\ mem' = Roll(mem)
  /\ skewed' = RollSkews
  /\ UNCHANGED <<pool, stored, log, startVars, snapQ, closing, closeQ, envVars>>
  /\ UNCHANGED <<due, early, unsaved, amiss, made, unlogged, uncounted, failures>>

(* The operator presses reset.                                             *)
ResetKillSwitch ==
  /\ phase = "running"
  /\ mem' = KillReset(mem)
  /\ Persist(mem')
  /\ due' = [due EXCEPT !.tripped = FALSE, !.peak = IF mem.equity # None THEN mem.equity ELSE @]
  /\ amiss' = amiss \cap Astray(mem', stored', due')
  /\ UNCHANGED <<pool, log, startVars, snapQ, closing, closeQ, envVars>>
  /\ UNCHANGED <<early, made, unlogged, uncounted, skewed>>

ResetProfitLock ==
  /\ phase = "running"
  /\ mem' = LockReset(mem)
  /\ Persist(mem')
  /\ due' = [due EXCEPT !.locked = FALSE]
  /\ amiss' = amiss \cap Astray(mem', stored', due')
  /\ UNCHANGED <<pool, log, startVars, snapQ, closing, closeQ, envVars>>
  /\ UNCHANGED <<early, made, unlogged, uncounted, skewed>>

-----------------------------------------------------------------------------
(* The environment.                                                        *)

MarketMoves(a, e) ==
  /\ equity' = [equity EXCEPT ![a] = e]
  /\ UNCHANGED <<mem, stored, log, startVars, snapQ, closing, closeQ, balance, day, closes,
                 stops, pool, pastVars>>

DayPasses ==
  /\ day < MaxDays
  /\ day' = day + 1
  /\ UNCHANGED <<mem, stored, log, startVars, snapQ, closing, closeQ, equity, balance, closes,
                 stops, pool, pastVars>>

(* The process stops or is killed; the row and the trade log remain. What  *)
(* the row lacks because of a failed write is lost.                        *)
Stop ==
  /\ phase # "down"
  /\ stops < MaxStops
  /\ stops' = stops + 1
  /\ mem' = Fresh
  /\ phase' = "down" /\ main' = MainIdle /\ job' = 0
  /\ calls' = [a \in Accounts |-> <<>>]
  /\ snapQ' = <<>> /\ closing' = None /\ closeQ' = <<>>
  /\ amiss' = IF unsaved THEN amiss \cup Astray(mem, stored, due) ELSE amiss
  /\ unsaved' = FALSE
  /\ UNCHANGED <<stored, log, equity, balance, day, closes, pool>>
  /\ UNCHANGED <<due, early, made, unlogged, uncounted, skewed, failures>>

-----------------------------------------------------------------------------
Init ==
  /\ pool \in Pools
  /\ mem = Fresh
  /\ stored = Row(Fresh)
  /\ log = [d \in 1..MaxDays |-> 0]
  /\ phase = "down" /\ main = MainIdle /\ job = 0
  /\ calls = [a \in Accounts |-> <<>>]
  /\ snapQ = <<>> /\ closing = None /\ closeQ = <<>>
  /\ equity = InitEquity /\ balance = InitEquity
  /\ day = 1 /\ closes = 0 /\ stops = 0
  /\ due = Row(Fresh) /\ early = FALSE /\ skewed = FALSE
  /\ unsaved = FALSE /\ amiss = {} /\ failures = 0
  /\ made = [d \in 1..MaxDays |-> 0] /\ unlogged = {} /\ uncounted = {}

(* The accounts the engine is configured with.                             *)
Managed == {pool[i] : i \in DOMAIN pool}

Next ==
  \/ Start \/ ReplayAnswered \/ PositionsAnswered \/ Rehydrate
  \/ JobRuns \/ JobAnswered \/ OnSnapshot
  \/ \E a \in Managed, r \in Results : BrokerCloses(a, r)
  \/ CloseReplies \/ OnClosed \/ CheckSignal
  \/ ResetKillSwitch \/ ResetProfitLock
  \/ \E a \in Managed, e \in Levels : MarketMoves(a, e)
  \/ DayPasses \/ Stop

Spec == Init /\ [][Next]_vars

-----------------------------------------------------------------------------
(* Properties.                                                             *)

(* The row that the next start will load loses a flag by a reset only.     *)
FlagStep ==
  /\ stored.tripped /\ ~stored'.tripped => ResetKillSwitch
  /\ stored.locked /\ ~stored'.locked => ResetProfitLock

(* A tripped kill switch or profit lock stays tripped, also across a       *)
(* restart, until the operator resets it (monitor.py:14-17, 127-128).      *)
FlagsClearedByOperator == [][FlagStep]_vars

(* The same over all failures of the database, in every history where no   *)
(* start handled a snapshot before rehydrate(), which writes a row made of *)
(* the empty fields of the new process over the one still to be loaded:    *)
(* while the engine runs a switch is tripped exactly if it has tripped and *)
(* the operator has not reset it since, in this run or an earlier one, and *)
(* so the row says unless its last write failed. Only a row that could not *)
(* be written before the process stopped, or not be read by a start, takes *)
(* a switch out of this, until memory and row are right about it again.    *)
FlagsKept ==
  ~early => \A f \in {"tripped", "locked"} \ amiss :
              /\ phase = "running" => mem[f] = due[f]
              /\ ~unsaved => stored[f] = due[f]

(* In such a history the peak that drawdown is measured from is, while the *)
(* engine runs, the highest equity handled since the last reset, in this   *)
(* run of the process or in an earlier one: no restart lowers it.          *)
PeakSinceReset ==
  phase = "running" /\ ~early /\ "peak" \notin amiss => mem.peak = due.peak

(* With the last equity handled KillPct below that, no signal is allowed,  *)
(* also when the write of the trip failed before a restart.                *)
EquityGuarded ==
  (/\ phase = "running" /\ ~early /\ "peak" \notin amiss /\ mem.equity # None
   /\ KillPct > 0 /\ FallenBy(KillPct, due.peak, mem.equity)) => ~Allows(mem)

(* The P&L the loss limit is measured with is that of the closes handled   *)
(* on the day, after restarts, at midnight, and with closes under way. A   *)
(* day's is wrong only after a start that could not read the trade log, or *)
(* read one that lacks a close of the day.                                 *)
DayPnlCounted == phase = "running" /\ day \notin uncounted => Roll(mem).pnl = made[day]

(* CHANGELOG.md:142: "A restart no longer silently resets the daily-loss   *)
(* cap": once a snapshot is handled after the restart, with the day's loss *)
(* beyond the limit, measured from the balance the day opened with, no     *)
(* signal is allowed. It holds for such a day, unless a close was between  *)
(* the broker and the log, or not in a snapshot yet, when the opening      *)
(* balance was taken: a loss then counts in full against an opening that   *)
(* is too high by it; and unless nothing was restored and the day's first  *)
(* close or signal came before the first snapshot.                         *)
(* Of one account: the opening balance of several is that of whichever     *)
(* snapshot came first.                                                    *)
LossLimitHolds ==
  LET opened == Booked(pool[1]) - made[day] IN
    (/\ Len(pool) = 1 /\ phase = "running" /\ day \notin uncounted /\ ~mem.needsOpening /\ ~skewed
     /\ LossPct > 0 /\ opened > 0 /\ -made[day] * 100 >= LossPct * opened) => ~Allows(mem)

(* The drawdown is measured from the true peak, and trips.                 *)
DrawdownGuarded == TypeOK /\ PeakSinceReset /\ EquityGuarded

(* The day's loss is the day's closes', and trips.                         *)
DayLossGuarded == DayPnlCounted /\ LossLimitHolds
===============================================================================
