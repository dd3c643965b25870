------------------------------ MODULE LiveReload ------------------------------
(***************************************************************************)
(* Configuration reload while the engine runs: the file watcher            *)
(* (config/watcher.py), the diff of two configurations (config/reload.py)  *)
(* and the callbacks of the runtime that add, remove, replace, pause and   *)
(* re-route strategies (runtime.py).                                       *)
(*                                                                         *)
(* The reload keeps the event loop to itself except where a callback       *)
(* awaits something: the tasks of a runner that stops, the reload lock,    *)
(* the on_start hook, the broker. In between, file events arrive, brokers  *)
(* drop and operators press pause; the file changes at any moment.         *)
(*                                                                         *)
(* Only strategies.yaml is in the model. The feeds of a strategy are given *)
(* by FeedOf and do not depend on its parameters.                          *)
(***************************************************************************)
EXTENDS Naturals, FiniteSets

CONSTANTS
  Strategies,    \* strategy ids
  Accounts,      \* the accounts an entry may name
  Pool,          \* those of the broker pool
  Primary,       \* the first of the pool
  Feeds,         \* (symbol, timeframe) pairs
  FeedOf,        \* FeedOf[s]: the feed strategy s declares
  Codes,         \* class paths
  Params, Invalid,  \* parameters; those that do not validate
  None,
  InitConfigs,   \* configurations the engine may have started with
  MaxEdits, MaxDrops   \* bounds

Entry == [code : Codes, enabled : BOOLEAN, params : Params, account : Accounts]
Config == [Strategies -> Entry \cup {None}]

(* Runners, calls of the reloader, what a reload and an await keep.        *)
OpNames == {"remove", "add", "replace", "enable", "params", "account"}
CallRec == [op : OpNames, sid : Strategies]
Runner == [code : Codes, params : Params \ Invalid, paused : BOOLEAN]
Reload == [new : Config, todo : SUBSET CallRec, at : Strategies \cup {None},
           failed : BOOLEAN, applied : BOOLEAN]
Wait == [call : CallRec, entry : Entry \cup {None},
         at : {"stopping", "updating", "starting", "subscribing"}]

ASSUME LiveReloadAssumption ==
  /\ FeedOf \in [Strategies -> Feeds]
  /\ Invalid \subseteq Params
  /\ None \notin Entry /\ None \notin Config /\ None \notin Accounts
  /\ None \notin Runner /\ None \notin Reload /\ None \notin Wait
  /\ InitConfigs \subseteq Config
  /\ \A cfg \in InitConfigs, s \in Strategies : cfg[s] # None =>
       cfg[s].params \notin Invalid /\ cfg[s].account \in Pool
  /\ Pool \subseteq Accounts /\ IsFiniteSet(Pool) /\ Primary \in Pool
  /\ MaxEdits \in Nat /\ MaxDrops \in Nat

VARIABLES
  file,      \* the configuration on disk, None = it cannot be loaded
  notice,    \* a file event is on its way from the watchdog thread
  task,      \* _debounce_task: "idle", "sleeping" or "changing"
  pending,   \* _pending
  full,      \* full_cfg, the configuration that is in force
  reload,    \* diff_and_apply(): what is left to apply, None = not running
  waiting,   \* what the callback under way awaits, None = no await
  runner,    \* runners[s]: the registered runner, None = no such
  orphans,   \* runners of s on the bus that runners[s] no longer names
  accounts,  \* _strategy_accounts
  aggs,      \* the BarAggregators on the bus for each feed
  ticking,   \* ticking[a]: the feeds the broker of a polls ticks for
  connected, \* connected[a]: the broker of account a is connected
  loaded,    \* history: what load_all() read last
  flawed,    \* history: a reload had errors
  edits, drops

watchVars == <<file, notice, task, pending, loaded>>
strategyVars == <<runner, orphans, accounts, aggs, ticking>>
vars == <<watchVars, full, reload, waiting, strategyVars, connected, flawed, edits, drops>>

TypeOK ==
  /\ file \in Config \cup {None} /\ loaded \in Config \cup {None}
  /\ notice \in BOOLEAN /\ pending \in BOOLEAN /\ flawed \in BOOLEAN
  /\ task \in {"idle", "sleeping", "changing"}
  /\ full \in Config
  /\ reload = None <=> task # "changing"
  /\ reload # None => reload \in Reload
  /\ waiting # None => reload # None /\ waiting \in Wait /\ waiting.call \in reload.todo
  /\ runner \in [Strategies -> Runner \cup {None}]
  /\ orphans \in [Strategies -> Nat]
  /\ accounts \in [Strategies -> Accounts \cup {None}]
  /\ aggs \in [Feeds -> Nat]
  /\ ticking \in [Pool -> SUBSET Feeds]
  /\ connected \in [Pool -> BOOLEAN]
  /\ edits \in 0..MaxEdits /\ drops \in 0..MaxDrops

-----------------------------------------------------------------------------
(* The watcher.                                                            *)

(* The event loop can run something else.                                  *)
LoopIsFree == reload = None \/ waiting # None

(* Someone saves the file. Bound: MaxEdits.                                *)
Edit ==
  /\ edits < MaxEdits
  /\ edits' = edits + 1
  /\ notice' = TRUE
  /\ \/ \E s \in Strategies, e \in Entry \cup {None} :
          file' = [(IF file = None THEN full ELSE file) EXCEPT ![s] = e]
     \/ file' = None
  /\ UNCHANGED <<task, pending, loaded, full, reload, waiting, strategyVars, connected, flawed, drops>>

(* _schedule(): starts the debounce task unless it runs already.           *)
Notify ==
  /\ notice /\ LoopIsFree
  /\ notice' = FALSE
  /\ IF task = "idle"
     THEN task' = "sleeping" /\ pending' = FALSE
     ELSE pending' = TRUE /\ UNCHANGED task
  /\ UNCHANGED <<file, loaded, full, reload, waiting, strategyVars, connected, flawed, edits, drops>>

(* (mutant) The flag is not cleared for the next turn.                     *)
SleepAgainStillPending ==
  /\ task = "sleeping" /\ pending
  /\ UNCHANGED vars

(* _debounce_and_fire(): another event came in while it slept.             *)
SleepAgain ==
  /\ task = "sleeping" /\ pending
  /\ pending' = FALSE
  /\ UNCHANGED <<file, notice, task, loaded, full, reload, waiting, strategyVars, connected, flawed, edits, drops>>

(* (mutant) A new account is not noticed.                                  *)
WantsNoAccount(op, o, n) ==
  \/ op = "remove" /\ o # None /\ n = None
  \/ op = "add" /\ o = None /\ n # None /\ n.enabled
  \/ /\ o # None /\ n # None
     /\ \/ op = "replace" /\ o.code # n.code
        \/ op = "enable" /\ o.code = n.code /\ o.enabled # n.enabled
        \/ op = "params" /\ o.code = n.code /\ o.params # n.params /\ n.enabled

(* What diff_and_apply() calls for a strategy whose entry o is now n. One  *)
(* that arrives disabled is not started; a new class path covers every     *)
(* other change.                                                           *)
Wants(op, o, n) ==
  \/ op = "remove" /\ o # None /\ n = None
  \/ op = "add" /\ o = None /\ n # None /\ n.enabled
  \/ /\ o # None /\ n # None
     /\ \/ op = "replace" /\ o.code # n.code
        \/ op = "enable" /\ o.code = n.code /\ o.enabled # n.enabled
        \/ op = "params" /\ o.code = n.code /\ o.params # n.params /\ n.enabled
        \/ op = "account" /\ o.code = n.code /\ o.account # n.account

Call(op, s) == [op |-> op, sid |-> s]

Wanted(o, n) == {c \in CallRec : Wants(c.op, o[c.sid], n[c.sid])}

(* (mutant) The task is not done after a configuration that does not load. *)
TaskAfterBadLoadBusy == "changing"

(* _on_config_change() publishes ConfigReloadFailedEvent and returns.      *)
TaskAfterBadLoad == "idle"

LoadFails ==
  /\ task = "sleeping" /\ ~pending
  /\ file = None
  /\ loaded' = file
  /\ task' = TaskAfterBadLoad
  /\ UNCHANGED <<file, notice, pending, full, reload, waiting, strategyVars, connected, flawed, edits, drops>>

Load ==
  /\ task = "sleeping" /\ ~pending
  /\ file # None
  /\ loaded' = file
  /\ task' = "changing"
  /\ reload' = [new |-> file, todo |-> Wanted(full, file), at |-> None,
                failed |-> FALSE, applied |-> FALSE]
  /\ UNCHANGED <<file, notice, pending, full, waiting, strategyVars, connected, flawed, edits, drops>>

(* The new configuration is in force if nothing failed.                    *)
InForce(r) == ~r.failed /\ r.applied

(* diff_and_apply() returns, the debounce task is done.                    *)
Finish ==
  /\ reload # None /\ waiting = None
  /\ reload.todo = {}
  /\ full' = IF InForce(reload) THEN reload.new ELSE full
  /\ flawed' = (flawed \/ reload.failed)
  /\ reload' = None
  /\ task' = "idle"
  /\ UNCHANGED <<file, notice, pending, loaded, waiting, strategyVars, connected, edits, drops>>

-----------------------------------------------------------------------------
(* The callbacks.                                                          *)

Rank == [op \in OpNames |->
           CASE op = "remove" -> 1 [] op = "add" -> 2 [] op = "replace" -> 3
             [] op = "enable" -> 3 [] op = "params" -> 4 [] op = "account" -> 5]

(* Removed strategies first, then added, then modified ones, each of those *)
(* as a whole; the ids of a set come in any order.                         *)
InTurn(c) ==
  \A d \in reload.todo :
    /\ (Rank[d.op] < 3 \/ d.sid = c.sid) => Rank[c.op] <= Rank[d.op]
    /\ d.sid = reload.at => c.sid = reload.at

Calls(op, s) ==
  /\ reload # None /\ waiting = None
  /\ Call(op, s) \in reload.todo
  /\ InTurn(Call(op, s))

(* _safe(): the call is applied, or its exception becomes an error.        *)
Returns(c) == reload' = [reload EXCEPT !.todo = @ \ {c}, !.at = c.sid, !.applied = TRUE]
Raises(c) == reload' = [reload EXCEPT !.todo = @ \ {c}, !.at = c.sid, !.failed = TRUE]

othersUnchanged == UNCHANGED <<watchVars, full, connected, flawed, edits, drops>>

Await(c, e, at) == waiting' = [call |-> c, entry |-> e, at |-> at] /\ UNCHANGED reload

(* add(): parameters that do not validate raise; otherwise the runner      *)
(* subscribes to the bus and its on_start hook runs.                       *)
BeginAdd(c, e) ==
  IF e.params \in Invalid
  THEN waiting' = None /\ Raises(c)
  ELSE Await(c, e, "starting")

AddStrategy(s) ==
  /\ Calls("add", s)
  /\ BeginAdd(Call("add", s), reload.new[s])
  /\ UNCHANGED strategyVars
  /\ othersUnchanged

(* (mutant) The runner is not taken out of the registry.                   *)
TakeRunnerNot(s) == UNCHANGED runner

(* remove() takes the runner out of the registry first.                    *)
TakeRunner(s) == runner' = [runner EXCEPT ![s] = None]

(* The call that begins with remove(): a runner is stopped, which awaits   *)
(* its tasks and hook; without one there is nothing to wait for.           *)
RemoveStrategy(s) ==
  /\ Calls("remove", s)
  /\ LET c == Call("remove", s) IN
       IF runner[s] # None THEN TakeRunner(s) /\ Await(c, None, "stopping")
       ELSE Returns(c) /\ UNCHANGED <<runner, waiting>>
  /\ UNCHANGED <<orphans, accounts, aggs, ticking>>
  /\ othersUnchanged

ReplaceStrategy(s) ==
  /\ Calls("replace", s)
  /\ LET c == Call("replace", s) IN
       IF runner[s] # None THEN TakeRunner(s) /\ Await(c, None, "stopping")
       ELSE BeginAdd(c, reload.new[s]) /\ UNCHANGED runner
  /\ UNCHANGED <<orphans, accounts, aggs, ticking>>
  /\ othersUnchanged

(* The runner has stopped, its account is forgotten; replace() goes on.    *)
StopReturns ==
  /\ waiting # None /\ waiting.at = "stopping"
  /\ LET c == waiting.call IN
       /\ accounts' = [accounts EXCEPT ![c.sid] = None]
       /\ IF c.op = "replace" THEN BeginAdd(c, reload.new[c.sid])
          ELSE waiting' = None /\ Returns(c)
  /\ UNCHANGED <<runner, orphans, aggs, ticking>>
  /\ othersUnchanged

(* set_enabled(): pauses or resumes the runner; one that was not started   *)
(* because it was disabled is added, from the entry that is in force.      *)
SetEnabled(s) ==
  /\ Calls("enable", s)
  /\ \/ /\ runner[s] # None
        /\ runner' = [runner EXCEPT ![s].paused = ~reload.new[s].enabled]
        /\ Returns(Call("enable", s))
        /\ UNCHANGED waiting
     \/ /\ runner[s] = None /\ ~reload.new[s].enabled
        /\ Returns(Call("enable", s))
        /\ UNCHANGED <<runner, waiting>>
     \/ /\ runner[s] = None /\ reload.new[s].enabled
        /\ BeginAdd(Call("enable", s), full[s])
        /\ UNCHANGED runner
  /\ UNCHANGED <<orphans, accounts, aggs, ticking>>
  /\ othersUnchanged

(* update_params(): parameters that validate are swapped under the lock.   *)
UpdateParams(s) ==
  /\ Calls("params", s)
  /\ LET c == Call("params", s) IN
       IF runner[s] = None THEN Returns(c) /\ UNCHANGED waiting
       ELSE IF reload.new[s].params \in Invalid THEN Raises(c) /\ UNCHANGED waiting
       ELSE Await(c, reload.new[s], "updating")
  /\ UNCHANGED strategyVars
  /\ othersUnchanged

(* The lock is free; on_params_reloaded() runs and the callback returns.   *)
LockAcquired ==
  /\ waiting # None /\ waiting.at = "updating"
  /\ runner' = [runner EXCEPT ![waiting.call.sid].params = waiting.entry.params]
  /\ waiting' = None
  /\ Returns(waiting.call)
  /\ UNCHANGED <<orphans, accounts, aggs, ticking>>
  /\ othersUnchanged

(* The broker of an account, for the ticks of a strategy as for its        *)
(* signals: one that is not in the pool stands for the primary one. Only   *)
(* setup() and change_account() look whether it is.                        *)
BrokerOf(a) == IF a \in Pool THEN a ELSE Primary

(* _subscribe_one(): a new aggregator is put on the bus, then the broker   *)
(* is asked; it raises when it is not connected.                           *)
Wire(c, e) ==
  /\ aggs' = [aggs EXCEPT ![FeedOf[c.sid]] = @ + 1]
  /\ IF connected[BrokerOf(e.account)]
     THEN Await(c, e, "subscribing")
     ELSE waiting' = None /\ Raises(c)

(* change_account(): the signals go to the other account from now on; one  *)
(* that is not in the pool raises, whether the strategy runs or not.       *)
ChangeAccount(s) ==
  /\ Calls("account", s)
  /\ \/ /\ reload.new[s].account \notin Pool
        /\ Raises(Call("account", s))
        /\ UNCHANGED <<waiting, accounts, aggs>>
     \/ /\ reload.new[s].account \in Pool /\ runner[s] = None
        /\ Returns(Call("account", s))
        /\ UNCHANGED <<waiting, accounts, aggs>>
     \/ /\ reload.new[s].account \in Pool /\ runner[s] # None
        /\ accounts' = [accounts EXCEPT ![s] = reload.new[s].account]
        /\ Wire(Call("account", s), reload.new[s])
  /\ UNCHANGED <<runner, orphans, ticking>>
  /\ othersUnchanged

(* on_start returns: the runner and its account are registered. A runner   *)
(* that was registered under the id stays on the bus.                      *)
OnStartReturns ==
  /\ waiting # None /\ waiting.at = "starting"
  /\ LET s == waiting.call.sid
         e == waiting.entry
     IN /\ runner' = [runner EXCEPT ![s] = [code |-> e.code, params |-> e.params, paused |-> FALSE]]
        /\ orphans' = IF runner[s] # None THEN [orphans EXCEPT ![s] = @ + 1] ELSE orphans
        /\ accounts' = [accounts EXCEPT ![s] = e.account]
        /\ Wire(waiting.call, e)
  /\ UNCHANGED ticking
  /\ othersUnchanged

(* symbol_select() returns. A broker that dropped meanwhile raises at the  *)
(* second check, or adds the symbol if it dropped after that.              *)
SubscribeReplies ==
  /\ waiting # None /\ waiting.at = "subscribing"
  /\ waiting' = None
  /\ LET a == BrokerOf(waiting.entry.account) IN
       \/ /\ Returns(waiting.call)
          /\ ticking' = [ticking EXCEPT ![a] = @ \cup {FeedOf[waiting.call.sid]}]
       \/ ~connected[a] /\ Raises(waiting.call) /\ UNCHANGED ticking
  /\ UNCHANGED <<runner, orphans, accounts, aggs>>
  /\ othersUnchanged

-----------------------------------------------------------------------------
(* Beside the reload.                                                      *)

(* The operator, or the circuit breaker, pauses a strategy or resumes it.  *)
PauseOrResume(s) ==
  /\ LoopIsFree
  /\ runner[s] # None
  /\ runner' = [runner EXCEPT ![s].paused = ~@]
  /\ UNCHANGED <<watchVars, full, reload, waiting, orphans, accounts, aggs, ticking, connected, flawed,
                 edits, drops>>

(* Bound: MaxDrops.                                                        *)
BrokerDrops(a) ==
  /\ LoopIsFree
  /\ connected[a]
  /\ drops < MaxDrops
  /\ drops' = drops + 1
  /\ connected' = [connected EXCEPT ![a] = FALSE]
  /\ UNCHANGED <<watchVars, full, reload, waiting, strategyVars, flawed, edits>>

BrokerReconnects(a) ==
  /\ LoopIsFree
  /\ ~connected[a]
  /\ connected' = [connected EXCEPT ![a] = TRUE]
  /\ UNCHANGED <<watchVars, full, reload, waiting, strategyVars, flawed, edits, drops>>

-----------------------------------------------------------------------------
(* setup() rejects an account that is not in the pool and starts a runner  *)
(* for every enabled entry; _wire_broker_subscriptions_multi() puts an     *)
(* aggregator on the bus for each feed of each account; then the watcher   *)
(* starts.                                                                 *)
Init ==
  /\ full \in InitConfigs
  /\ file = full /\ loaded = full
  /\ LET Runs(s) == full[s] # None /\ full[s].enabled
         Used(a) == {FeedOf[s] : s \in {t \in Strategies : Runs(t) /\ full[t].account = a}}
     IN /\ runner = [s \in Strategies |->
                       IF Runs(s) THEN [code |-> full[s].code, params |-> full[s].params, paused |-> FALSE]
                       ELSE None]
        /\ accounts = [s \in Strategies |-> IF full[s] # None THEN full[s].account ELSE None]
        /\ ticking = [a \in Pool |-> Used(a)]
        /\ aggs = [f \in Feeds |-> Cardinality({a \in Pool : f \in Used(a)})]
  /\ orphans = [s \in Strategies |-> 0]
  /\ notice = FALSE /\ task = "idle" /\ pending = FALSE
  /\ reload = None /\ waiting = None
  /\ connected = [a \in Pool |-> TRUE]
  /\ flawed = FALSE /\ edits = 0 /\ drops = 0

Watch == Notify \/ SleepAgain \/ LoadFails \/ Load \/ Finish

Apply ==
  \/ \E s \in Strategies :
       \/ AddStrategy(s) \/ RemoveStrategy(s) \/ ReplaceStrategy(s)
       \/ SetEnabled(s) \/ UpdateParams(s) \/ ChangeAccount(s)
  \/ StopReturns \/ LockAcquired \/ OnStartReturns \/ SubscribeReplies

Next ==
  \/ Watch \/ Apply \/ Edit
  \/ \E s \in Strategies : PauseOrResume(s)
  \/ \E a \in Pool : BrokerDrops(a) \/ BrokerReconnects(a)

Spec == Init /\ [][Next]_vars

(* The event loop runs every task that is ready; hooks and SDK calls       *)
(* return.                                                                 *)
Fairness ==
  /\ WF_vars(Notify)
  /\ WF_vars(SleepAgain \/ LoadFails \/ Load)
  /\ WF_vars(Apply \/ Finish)

FairSpec == Spec /\ Fairness

-----------------------------------------------------------------------------
(* Properties.                                                             *)

(* While every reload went well, what runs is what is in force: a strategy *)
(* enabled in full_cfg has a runner of its class, and its signals go to    *)
(* its account; one that is not in full_cfg has none (reload.py:127-183,   *)
(* runtime.py:752-848).                                                    *)
RunsWhatIsInForce ==
  (reload = None /\ ~flawed) =>
    \A s \in Strategies :
      /\ full[s] = None => runner[s] = None
      /\ (full[s] # None /\ full[s].enabled) =>
           /\ runner[s] # None /\ runner[s].code = full[s].code
           /\ accounts[s] = full[s].account

(* Until a reload has errors, no strategy runs twice on the bus: neither   *)
(* adding nor replacing one leaves an older runner behind                  *)
(* (runtime.py:528, 763-776).                                              *)
RunsOnce == ~flawed => \A s \in Strategies : orphans[s] = 0

(* A registered strategy gets bars: its feed has an aggregator, and the    *)
(* broker that gets its signals polls the ticks.  That is the broker of    *)
(* its account or, where an added or replaced strategy names one that is   *)
(* not in the pool, the primary one (runtime.py:730-750,                   *)
(* order_router.py:97-103).                                                *)
FedByItsBroker ==
  (reload = None /\ ~flawed) =>
    \A s \in Strategies : runner[s] # None =>
      aggs[FeedOf[s]] > 0 /\ FeedOf[s] \in ticking[BrokerOf(accounts[s])]

(* A saved file is read, unless its event came while the previous change   *)
(* was being applied; then _pending stays set and no task will look at it  *)
(* (watcher.py:92-105).                                                    *)
ReadOrMissed == []<>(loaded = file \/ (pending /\ task = "idle"))

(* A reload ends, whatever the brokers do meanwhile (reload.py:62-73).     *)
ReloadEnds == (reload # None) ~> (reload = None)

(* Saves are read or known to be missed, and what is read is applied.      *)
ReloadsComplete == ReadOrMissed /\ ReloadEnds

(* Between reloads that went well, what runs is what is in force, and is   *)
(* fed by the broker its signals go to.                                    *)
InForceAndFed == RunsWhatIsInForce /\ FedByItsBroker
===============================================================================
