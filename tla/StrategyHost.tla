----------------------------- MODULE StrategyHost -----------------------------
(***************************************************************************)
(* strategies/runner.py: the runner that stands between the bus and a      *)
(* strategy with its position managers.                                    *)
(*                                                                         *)
(* Every event type has a subscription and a task of its own.  A task      *)
(* starts on an event in the order of publication, unless it is still busy *)
(* with an earlier one of its type: it looks whether the runner is active, *)
(* brings ctx.position up to date, and then calls the managers' and the    *)
(* strategy's hooks, each under the reload lock, which serves its waiters  *)
(* in turn.  Other strategies share that lock: they only delay.            *)
(***************************************************************************)
EXTENDS ExampleStrategies

CONSTANTS
  Cases,       \* what is run: a set of records, see HostAssumption
  MaxErrors,   \* MAX_ERRORS_PER_MINUTE
  MaxTicks, MaxRequests, MaxManagers  \* bounds, see PublishBar

ASSUME HostAssumption ==
  /\ {MaxErrors, MaxTicks, MaxRequests, MaxManagers} \subseteq Nat
  /\ Cases \subseteq [kind : Kinds, managers : Seq(Managers), trailing : BOOLEAN,
                      bracket : BOOLEAN, pauses : Nat, raises : Nat, fails : Nat, restarts : Nat,
                      bars : Nat \cup {None}]

VARIABLES
  busy,        \* the event a task handles and the hooks it has still to call
  waiting,     \* the tasks that wait for the reload lock, in turn
  paused,      \* _paused
  quarantined, \* _quarantined
  errors,      \* _errors
  missed,      \* history: news passed the runner by
  limits       \* bounds: pauses, raises, restarts, ticks and groups left

runnerVars == <<busy, waiting, paused, quarantined, errors, missed, limits>>
vars == <<deskVars, managerVars, strategyVars, runnerVars>>

Types == {"tick", "bar", "fill", "close", "cancel", "modified"}
Idle == [event |-> None, hooks |-> <<>>]

TypeOK ==
  /\ DeskTypeOK
  /\ ManagersTypeOK
  /\ StrategiesTypeOK
  /\ \A type \in Types : busy[type] = Idle \/ busy[type].hooks # <<>>
  /\ ToSet(waiting) = {type \in Types : busy[type] # Idle}
  /\ IsInjective(waiting)
  /\ errors \in 0..(MaxErrors + 1)

-----------------------------------------------------------------------------
Active == ~paused /\ ~quarantined

(* _track_open() and _track_remove(): a snapshot replaces the one of its   *)
(* ticket, and goes to the end of the list.                                *)
Untracked(t) == SelectSeq(view, LAMBDA p : p.ticket # t)

(* (mutant) A changed position leaves the view.                            *)
TrackedDropsModified(e) ==
  CASE e.type = "fill" -> Append(Untracked(e.pos.ticket), e.pos)
    [] e.type \in {"close", "modified"} -> Untracked(e.pos.ticket)
    [] OTHER -> view

Tracked(e) ==
  CASE e.type \in {"fill", "modified"} -> Append(Untracked(e.pos.ticket), e.pos)
    [] e.type = "close" -> Untracked(e.pos.ticket)
    [] OTHER -> view

(* The hooks an event calls: of the managers that have one, in the order   *)
(* they were attached, and of the strategy.                                *)
Handles(i, type) ==
  CASE type = "tick" -> attached[i].type \in {"trailing", "break_even", "ladder"}
    [] type = "bar" -> attached[i].type = "time_exit"
    [] OTHER -> attached[i].type = "oco"
HooksOf(type) ==
  SelectSeq([i \in 1..Len(attached) |-> i], LAMBDA i : Handles(i, type))
    \o (IF type \in {"bar", "fill", "close"} THEN <<0>> ELSE <<>>)

(* The first event whose task is idle is the next to be started.           *)
Startable(i) ==
  /\ busy[inbox[i].type] = Idle
  /\ \A j \in 1..(i - 1) : busy[inbox[j].type] # Idle

(* _on_tick(), _on_bar(), _on_order_filled(), _on_position_closed(),       *)
(* _on_order_cancelled(), _on_order_modified(), up to the first hook.      *)
Start == \E i \in 1..Len(inbox) :
  LET e == inbox[i] IN
  /\ Startable(i)
  /\ inbox' = RemoveAt(inbox, i)
  /\ view' = IF Active THEN Tracked(e) ELSE view
  /\ missed' = (missed \/ (~Active /\ e.type \notin {"tick", "bar"}))
  /\ IF Active /\ e.type # "modified" /\ HooksOf(e.type) # <<>>
     THEN /\ busy' = [busy EXCEPT ![e.type] = [event |-> e, hooks |-> HooksOf(e.type)]]
          /\ waiting' = Append(waiting, e.type)
     ELSE UNCHANGED <<busy, waiting>>
  /\ stale' = (stale \/ \E j \in 1..(i - 1) : inbox[j].type = "fill" /\ e.type = "close"
                                             /\ inbox[j].pos.ticket = e.pos.ticket)
  /\ UNCHANGED <<broker, requests, move, told, blind, entries, refused, fails, managerVars,
                 strategyVars, paused, quarantined, errors, limits>>

-----------------------------------------------------------------------------
(* The hook of manager i, or of the strategy (0), for an event.            *)
ManagerHook(i, e) ==
  /\ \/ e.type = "tick" /\ attached[i].type = "trailing" /\ TrailingOnTick(i, e.pos)
     \/ e.type = "tick" /\ attached[i].type = "break_even" /\ BreakEvenOnTick(e.pos)
     \/ e.type = "tick" /\ attached[i].type = "ladder" /\ LadderOnTick(e.pos)
     \/ e.type = "bar" /\ \E older \in SUBSET ViewedTickets :
          DOMAIN held \cap ViewedTickets \subseteq older /\ TimeExitOnBar(older)
     \/ e.type \in {"fill", "close"} /\ OcoOnFillOrClose(e.pos.ticket)
     \/ e.type = "cancel" /\ OcoOnCancel(e.pos.ticket)
  /\ UNCHANGED <<entries, told, strategyVars>>

StrategyHook(e) ==
  \/ /\ e.type = "bar"
     /\ \E b \in Inputs : OnBar(b)
     /\ UNCHANGED told
  \/ /\ e.type = "fill"
     /\ OnFill(e.pos.ticket, e.pos.sl)
     /\ told' = [told EXCEPT ![e.pos.ticket] = "open"]
     /\ UNCHANGED <<requests, blind, entries, managerVars>>
  \/ /\ e.type = "close"
     /\ OnClose(e.pos.ticket)
     /\ told' = [told EXCEPT ![e.pos.ticket] = "closed"]
     /\ UNCHANGED <<requests, blind, entries, managerVars>>

(* The first waiter has the lock; when its hook is over it waits for its   *)
(* next one behind the others, or its task is idle.                        *)
HookOver(type) ==
  LET rest == Tail(busy[type].hooks) IN
  /\ busy' = [busy EXCEPT ![type] = IF rest = <<>> THEN Idle ELSE [@ EXCEPT !.hooks = rest]]
  /\ waiting' = Tail(waiting) \o (IF rest = <<>> THEN <<>> ELSE <<type>>)

(* _guarded(): a hook runs.                                                *)
RunHook ==
  /\ waiting # <<>>
  /\ LET type == Head(waiting)
         hook == Head(busy[type].hooks)
     IN /\ HookOver(type)
        /\ IF hook = 0 THEN StrategyHook(busy[type].event)
           ELSE ManagerHook(hook, busy[type].event)
  /\ UNCHANGED <<broker, move, inbox, view, stale, refused, fails, paused, quarantined, errors,
                 missed, limits>>

(* _guarded(), _record_error(): a hook raises before it has done anything; *)
(* errors of the last minute count, and more than MaxErrors of them        *)
(* quarantine the strategy for good.                                       *)
HookRaises ==
  /\ waiting # <<>>
  /\ limits.raises > 0
  /\ limits' = [limits EXCEPT !.raises = @ - 1]
  /\ HookOver(Head(waiting))
  /\ \E recent \in 0..errors :
       /\ errors' = Least(recent + 1, MaxErrors + 1)
       /\ quarantined' = (quarantined \/ recent + 1 > MaxErrors)
  /\ UNCHANGED <<deskVars, managerVars, strategyVars, paused, missed>>

-----------------------------------------------------------------------------
Has(type) == \E i \in DOMAIN attached : attached[i].type = type

(* The feed.  Bounds: one tick and one bar wait at most, ticks and, in     *)
(* some cases, bars are counted, and bars stop when MaxRequests requests   *)
(* wait or MaxManagers are attached.                                       *)
Waits(type) == \E i \in 1..Len(inbox) : inbox[i].type = type
Quoted == trailing \/ Has("trailing") \/ Has("break_even") \/ Has("ladder")

PublishTick(p) ==
  /\ Quoted
  /\ ~Waits("tick")
  /\ limits.ticks > 0
  /\ limits' = [limits EXCEPT !.ticks = @ - 1]
  /\ p \in (price - 1)..(price + 1)
  /\ price' = p
  /\ inbox' = Append(inbox, Event("tick", p))
  /\ UNCHANGED <<book, working, nextTicket, requests, move, view, history, fails,
                 managerVars, strategyVars, busy, waiting, paused, quarantined, errors, missed>>

PublishBar ==
  /\ ~Waits("bar")
  /\ signals + Len(moves) < MaxRequests
  /\ Len(attached) < MaxManagers
  /\ limits.bars # 0
  /\ limits' = IF limits.bars = None THEN limits ELSE [limits EXCEPT !.bars = @ - 1]
  /\ inbox' = Append(inbox, Event("bar", None))
  /\ UNCHANGED <<broker, requests, move, view, history, fails, managerVars, strategyVars,
                 busy, waiting, paused, quarantined, errors, missed>>

(* pause(), by an operator or the circuit breaker, and resume().           *)
Pause ==
  /\ ~paused
  /\ limits.pauses > 0
  /\ paused' = TRUE
  /\ limits' = [limits EXCEPT !.pauses = @ - 1]
  /\ UNCHANGED <<deskVars, managerVars, strategyVars, busy, waiting, quarantined, errors,
                 missed>>

Resume ==
  /\ paused
  /\ paused' = FALSE
  /\ UNCHANGED <<deskVars, managerVars, strategyVars, busy, waiting, quarantined, errors,
                 missed, limits>>

(* The strategy puts two positions it knows of into an OCO group.          *)
GroupPositions ==
  /\ Has("oco")
  /\ limits.groups > 0
  /\ limits' = [limits EXCEPT !.groups = @ - 1]
  /\ \E pair \in SUBSET Tickets :
       /\ Cardinality(pair) = 2
       /\ \A t \in pair : told[t] = "open"
       /\ AddGroup(pair, "position")
  /\ UNCHANGED <<deskVars, strategyVars, busy, waiting, paused, quarantined, errors, missed>>

(* The process stops and starts again: the broker keeps its positions, the *)
(* state store its file, and ctx.position starts empty.  (For strategies   *)
(* that attach no manager with an entry.)                                  *)
Restart ==
  /\ limits.restarts > 0
  /\ ~trailing
  /\ limits' = [limits EXCEPT !.restarts = @ - 1]
  /\ signals' = 0 /\ moves' = <<>> /\ move' = None /\ closes' = {} /\ cancels' = {}
  /\ inbox' = <<>> /\ view' = <<>>
  /\ told' = [t \in Tickets |-> IF Truth(t) = "closed" THEN "closed" ELSE "nothing"]
  /\ busy' = [type \in Types |-> Idle]
  /\ waiting' = <<>>
  /\ errors' = 0 /\ quarantined' = FALSE /\ paused' = FALSE
  /\ missed' = (missed \/ book # <<>>)
  /\ UNCHANGED <<broker, blind, entries, stale, refused, fails, attached, kind, trailing, fresh, store>>
  /\ best' = [i \in DOMAIN attached |-> <<>>] /\ fired' = {} /\ exiting' = {}
  /\ levels' = <<>> /\ rung' = <<>> /\ held' = <<>> /\ group' = <<>>
  /\ age' = <<>> /\ idle' = Cooldown /\ trades' = 0 /\ built' = FALSE
  /\ openTicket' = 0 /\ openBars' = 0 /\ cooldown' = 0 /\ prev' = None /\ last' = None
  /\ open' = FALSE
  /\ mine' = None /\ loaded' = store /\ reconciled' = FALSE /\ leaving' = FALSE

-----------------------------------------------------------------------------
Init == \E c \in Cases :
  /\ price = 1
  /\ book = <<>>
  /\ working = IF c.bracket THEN {1, 2} ELSE {}
  /\ nextTicket = IF c.bracket THEN 3 ELSE 1
  /\ signals = 0 /\ moves = <<>> /\ move = None /\ closes = {} /\ cancels = {}
  /\ inbox = <<>> /\ view = <<>>
  /\ told = [t \in Tickets |-> "nothing"]
  /\ blind = 0 /\ entries = 0 /\ stale = FALSE /\ refused = {}
  /\ fails = c.fails
  /\ attached = c.managers /\ ManagersFresh(c.bracket)
  /\ StrategiesInit(c.kind, c.trailing)
  /\ busy = [type \in Types |-> Idle]
  /\ waiting = <<>>
  /\ paused = FALSE /\ quarantined = FALSE /\ errors = 0 /\ missed = FALSE
  /\ limits = [pauses |-> c.pauses, raises |-> c.raises, restarts |-> c.restarts,
               ticks |-> MaxTicks, bars |-> c.bars,
               groups |-> IF c.bracket THEN 0 ELSE 1]

Desk ==
  /\ RouterStep \/ MarketStep
  /\ UNCHANGED <<managerVars, strategyVars, runnerVars>>

Next ==
  \/ Desk
  \/ Start \/ RunHook \/ HookRaises
  \/ PublishBar
  \/ \E p \in 1..MaxPrice : PublishTick(p)
  \/ Pause \/ Resume
  \/ GroupPositions
  \/ Restart

(* Tasks run, bars come, operators resume what they paused, and the router *)
(* handles what it is asked.                                               *)
Fairness ==
  /\ WF_vars(Start)
  /\ WF_vars(RunHook)
  /\ WF_vars(PublishBar)
  /\ WF_vars(Resume)
  /\ WF_vars(Desk /\ (ExecuteSignal \/ RefuseSignal))
  /\ WF_vars(Desk /\ (ReadForMove \/ MoveStop \/ PublishMove))
  /\ \A t \in Tickets :
       /\ WF_vars(Desk /\ (ExecuteClose(t) \/ CloseFails(t)))
       /\ WF_vars(Desk /\ ExecuteCancel(t))

Spec == Init /\ [][Next]_vars /\ Fairness

-----------------------------------------------------------------------------
Quiet ==
  /\ inbox = <<>> /\ waiting = <<>>
  /\ signals = 0 /\ moves = <<>> /\ move = None /\ closes = {} /\ cancels = {}

(* The strategies that say they hold one position at a time do: there is   *)
(* never more than one, plus the entries they sent while an event they had *)
(* not seen was under way or never came.  (on_bar looks at ctx.position,   *)
(* _open_ticket or neither, the hooks of fills and closes run in tasks of  *)
(* their own, and a signal takes its time to become a position.)           *)
OneAtATime ==
  kind \in SessionKinds \cup TicketKinds \cup {"d1h4"} => Cardinality(DOMAIN book) <= 1 + blind

(* A session has no more entries than max_trades_per_session, although     *)
(* trades are counted when they are closed (liquidity sweep, VWAP,         *)
(* opening range) or filled (Bollinger), never when they are sent.  (A     *)
(* hook that raises may leave a trade uncounted.)                          *)
SessionCap == kind \in SessionKinds /\ blind = 0 /\ errors = 0 => entries <= MaxTrades

(* The scalpers that enter on a cross compare two adjacent bars, also      *)
(* after bars spent on a position, a cooldown or a closed session.         *)
CrossIsFresh == fresh

(* When nothing is under way, ctx.position holds the broker's positions:   *)
(* events of four types, each with its own task, arrive at the same view.  *)
(* (Not when hits are not reported, news passed the runner by while it was *)
(* paused or down, a change was reported of a position that was gone, or a *)
(* close was handled before its fill, whose task was busy.)                *)
ViewSettles ==
  Quiet /\ ReportsHits /\ ~missed /\ ~stale => ViewedTickets = DOMAIN book

(* Once a bracket has had a fill and all is quiet, none of its orders      *)
(* waits at the broker any more.                                           *)
OcoSettles ==
  Quiet /\ Has("oco") /\ ReportsHits /\ ~missed /\ errors = 0
    /\ (\E t \in Tickets : told[t] # "nothing")
  => working = {}

(* When nothing is under way, strategy and brackets agree with the broker. *)
Settles == ViewSettles /\ OcoSettles

(* A stop never moves back as long as a single manager moves it: what the  *)
(* view shows of a stop may be old, its own record of the best is not.     *)
StopTightens ==
  [][ kind # "d1h4" /\ Cardinality({i \in DOMAIN attached :
                                      attached[i].type \in {"trailing", "break_even"}}) <= 1
      => \A t \in DOMAIN book \cap DOMAIN book' : book'[t].sl >= book[t].sl ]_vars

(* What a strategy or a time exit has decided to leave it leaves, although *)
(* the broker may refuse to close and hooks may raise: the strategies ask  *)
(* again on every bar.  (The time exit manager asks once, so a refusal     *)
(* leaves the position open.  A quarantined strategy asks no more, a       *)
(* scalper with two positions remembers the last, and where bars are       *)
(* counted they may not suffice.)                                          *)
Leaves(t) ==
  \/ kind \in SessionKinds /\ t \in DOMAIN age
  \/ kind \in TicketKinds /\ t = openTicket
  \/ Has("time_exit") /\ t \in ViewedTickets

ExitsComplete ==
  \A t \in Tickets :
    (Leaves(t) /\ limits.bars = None)
      ~> \/ t \notin DOMAIN book \/ quarantined
         \/ Has("time_exit") /\ t \in refused
         \/ kind \in TicketKinds /\ blind > 0

(* The strategies enter as they say.                                       *)
EntriesKept == TypeOK /\ OneAtATime /\ SessionCap /\ CrossIsFresh
=============================================================================
