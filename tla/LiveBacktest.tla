---------------------------- MODULE LiveBacktest ----------------------------
(***************************************************************************)
(* ui/web/live_backtest.py: the one backtest the web UI runs on the bus it *)
(* shares with the page, with what FileBacktester attaches to that bus.    *)
(*                                                                         *)
(* Requests of the page are tasks; start() never awaits and is one step,   *)
(* stop() awaits the run it cancels.  Of a trade only the run whose        *)
(* strategy asked for it matters.                                          *)
(***************************************************************************)
EXTENDS Naturals, FiniteSets

CONSTANTS
  BtRuns,      \* bound: runs ever started, numbered in the order of their start
  Stops,       \* the stop requests
  NoRun

ASSUME LiveBacktestAssumption == BtRuns \subseteq Nat /\ NoRun \notin BtRuns

VARIABLES
  task,        \* LiveBacktestController._task: a run or none
  run,         \* run[r]: how far the task of a run is
  runnersOn,   \* the runs whose strategy runner is on the bus
  routersOn,   \* the runs whose order router is on the bus
  trades,      \* trades[r]: the runs that traded at the broker of r
  stopping,    \* stopping[c]: the run a stop request waits for
  littered,    \* history: a run ended without its clean-up
  crossed      \* history: a start was accepted while a stop was waiting

backtestVars == <<task, run, runnersOn, routersOn, trades, stopping, littered, crossed>>

Over == {"done", "cancelled", "failed"}
RunStates == {"unborn", "created", "replaying", "detaching"} \cup Over

BacktestTypeOK ==
  /\ task \in BtRuns \cup {NoRun}
  /\ run \in [BtRuns -> RunStates]
  /\ runnersOn \subseteq BtRuns /\ routersOn \subseteq BtRuns
  /\ trades \in [BtRuns -> SUBSET BtRuns]
  /\ stopping \in [Stops -> BtRuns \cup {NoRun}]

BacktestInit ==
  /\ task = NoRun
  /\ run = [r \in BtRuns |-> "unborn"]
  /\ runnersOn = {} /\ routersOn = {}
  /\ trades = [r \in BtRuns |-> {}]
  /\ stopping = [c \in Stops |-> NoRun]
  /\ littered = FALSE /\ crossed = FALSE
-----------------------------------------------------------------------------
(* is_running(): the task is there and not over.                           *)
IsRunning == task # NoRun /\ run[task] \notin Over

(* start() with a run the configuration knows; a second one is refused.    *)
Start(r) ==
  /\ run[r] = "unborn" /\ \A q \in BtRuns : q < r => run[q] # "unborn"
  /\ ~IsRunning
  /\ task' = r
  /\ run' = [run EXCEPT ![r] = "created"]
  /\ crossed' = (crossed \/ \E c \in Stops : stopping[c] # NoRun)
  /\ UNCHANGED <<runnersOn, routersOn, trades, stopping, littered>>

Cancelling(r) == \E c \in Stops : stopping[c] = r

(* FileBacktester.run() up to the replay does not give way.                *)
Attach(r) ==
  /\ run[r] = "created" /\ ~Cancelling(r)
  /\ run' = [run EXCEPT ![r] = "replaying"]
  /\ runnersOn' = runnersOn \cup {r} /\ routersOn' = routersOn \cup {r}
  /\ UNCHANGED <<task, trades, stopping, littered, crossed>>

(* A tick of the replay: every strategy on the bus sees it and may signal, *)
(* every router on the bus executes the signal at its own broker.          *)
ReplayEvent(r) ==
  /\ run[r] = "replaying" /\ ~Cancelling(r)
  /\ \E origin \in runnersOn :
       trades' = [k \in BtRuns |-> IF k \in routersOn THEN trades[k] \cup {origin} ELSE trades[k]]
  /\ UNCHANGED <<task, run, runnersOn, routersOn, stopping, littered, crossed>>

(* (mutant) The runner stays, as the bus does.                             *)
RunnerStays(r) ==
  /\ run[r] = "replaying" /\ ~Cancelling(r)
  /\ run' = [run EXCEPT ![r] = "detaching"]
  /\ UNCHANGED <<task, runnersOn, routersOn, trades, stopping, littered, crossed>>

(* The data is used up: positions are closed, then the runner is stopped.  *)
StopRunner(r) ==
  /\ run[r] = "replaying" /\ ~Cancelling(r)
  /\ run' = [run EXCEPT ![r] = "detaching"]
  /\ runnersOn' = runnersOn \ {r}
  /\ UNCHANGED <<task, routersOn, trades, stopping, littered, crossed>>

(* The router is detached and the report written, or writing it raises; a  *)
(* cancellation is lost on an unsubscribe() that waits for the consumer it *)
(* has cancelled.                                                          *)
Finish(r) ==
  /\ run[r] = "detaching"
  /\ \E over \in {"done", "failed"} : run' = [run EXCEPT ![r] = over]
  /\ routersOn' = routersOn \ {r}
  /\ UNCHANGED <<task, runnersOn, trades, stopping, littered, crossed>>

(* The run raises: what it attached stays attached.                        *)
Fail(r) ==
  /\ run[r] \in {"created", "replaying", "detaching"} /\ ~Cancelling(r)
  /\ run' = [run EXCEPT ![r] = "failed"]
  /\ littered' = (littered \/ r \in runnersOn \cup routersOn)
  /\ UNCHANGED <<task, runnersOn, routersOn, trades, stopping, crossed>>

(* stop() of a run that is over does not wait.                             *)
Forget(c) ==
  /\ stopping[c] = NoRun /\ task # NoRun /\ ~IsRunning
  /\ task' = NoRun
  /\ UNCHANGED <<run, runnersOn, routersOn, trades, stopping, littered, crossed>>

(* stop(): the task is asked to cancel, and awaited, ...                   *)
StopRun(c) ==
  /\ stopping[c] = NoRun /\ IsRunning
  /\ stopping' = [stopping EXCEPT ![c] = task]
  /\ UNCHANGED <<task, run, runnersOn, routersOn, trades, littered, crossed>>

(* ... it ends at its next await, without its clean-up, ...                *)
Cancelled(r) ==
  /\ Cancelling(r) /\ run[r] \in {"created", "replaying", "detaching"}
  /\ run' = [run EXCEPT ![r] = "cancelled"]
  /\ littered' = (littered \/ r \in runnersOn \cup routersOn)
  /\ UNCHANGED <<task, runnersOn, routersOn, trades, stopping, crossed>>

(* ... and there is no task any more, whichever there is by now.           *)
StopReturns(c) ==
  /\ stopping[c] # NoRun /\ run[stopping[c]] \in Over
  /\ stopping' = [stopping EXCEPT ![c] = NoRun]
  /\ task' = NoRun
  /\ UNCHANGED <<run, runnersOn, routersOn, trades, littered, crossed>>

BacktestNext ==
  \/ \E r \in BtRuns : Start(r) \/ Attach(r) \/ ReplayEvent(r) \/ StopRunner(r) \/ Finish(r)
                       \/ Fail(r) \/ Cancelled(r)
  \/ \E c \in Stops : Forget(c) \/ StopRun(c) \/ StopReturns(c)
-----------------------------------------------------------------------------
(* There is one run at a time and it is the one the controller can stop,   *)
(* unless a start slipped in between the end of a run and the return of    *)
(* the stop() that waited for it.                                          *)
RunsUnderWay == {r \in BtRuns : run[r] \notin Over \cup {"unborn"}}
OneRun == ~crossed => RunsUnderWay \subseteq {task}

(* When moreover no run was cancelled or failed under way, the report of a *)
(* run has the trades of its own strategy and no others (the bus is the    *)
(* same for all of them).                                                  *)
ReportIsOwn == ~littered /\ ~crossed => \A r \in BtRuns : trades[r] \subseteq {r}

BacktestSound == BacktestTypeOK /\ ReportIsOwn /\ OneRun
=============================================================================
