------------------------------ MODULE MarketFeed ------------------------------
(***************************************************************************)
(* The market data of one MT5 broker: brokers/mt5/broker.py (connection,   *)
(* health check, reconnect with gap fill, tick loop) and the way           *)
(* runtime.py wires and warms up a BarAggregator per feed.                 *)
(*                                                                         *)
(* Three asyncio tasks use the MT5 SDK: the health loop, the tick loop and *)
(* the task that wires feeds.  Every SDK call goes through an executor     *)
(* with one worker thread (_sdk), so the calls run one after the other, in *)
(* the order they were made; a task sleeps until its call has returned.    *)
(* Timers may take any time.  The terminal goes down and comes back; a     *)
(* call meets it as it is when the worker thread runs the call.            *)
(*                                                                         *)
(* Bus subscriptions of aggregators are taken to keep up: a published tick *)
(* reaches the aggregators of its symbol in the step that publishes it.    *)
(***************************************************************************)
EXTENDS Naturals, Sequences, FiniteSets, BarAggregator, SequencesExt

CONSTANTS
  Symbols,
  Timeframes,
  Wiring,       \* the feeds <<symbol, timeframe>> the runtime subscribes, in order
  None,         \* no reply yet, or no value
  Malformed,    \* Malformed[s]: ticks whose bid is 0, which Tick() refuses
  MaxTick,      \* bound: MaxTick[s], ticks of symbol s
  MaxOutages,   \* bound: times the terminal goes down
  MaxRetired    \* bound: calls of unsubscribe()

Ticks == UNION {1..MaxTick[s] : s \in Symbols}
Feeds == Symbols \X Timeframes

ASSUME FeedAssumption ==
  /\ TicksPer \in [Timeframes -> Nat \ {0}]
  /\ Wiring \in Seq(Feeds)
  /\ None \notin Nat
  /\ Malformed \in [Symbols -> SUBSET Nat]
  /\ MaxTick \in [Symbols -> Nat]
  /\ {MaxOutages, MaxRetired} \subseteq Nat

VARIABLES
  up,          \* the terminal answers
  ready,       \* the SDK is initialised
  latest,      \* latest[s]: the newest tick the market has made
  calls,       \* the executor's queue
  reply,       \* reply[task]: the result its call returned, not yet seen
  connected,   \* _connected
  tickSubs,    \* _tick_subs
  lastSeen,    \* _last_tick_time: 0 when there is no entry
  health,      \* where _health_loop is
  poll,        \* where _tick_loop is
  todo,        \* todo[task]: the symbols its loop has still to visit
  fillUpTo,    \* the `now` of the gap fill: newest tick of each symbol then
  since,       \* the last_seen of the symbol being filled
  wire,        \* where _subscribe_one is, for which feed, and its `now`
  aggregators, \* the feeds that have an aggregator on the bus
  bar,         \* bar[f]: the aggregator's current bar
  bars,        \* history: bars published for f
  published,   \* history: published[s], ticks published since s was subscribed
  atLoss,      \* history: lastSeen when the connection was lost, 0 once retired
  raced,       \* history: symbols the tick loop published while reconnecting
  cut,         \* history: the gap fill of this reconnect was cut short or failed
  settled,     \* history: settled[f]: from this period on f has no rows out of their time
  shuffled,    \* history: symbols whose missed rows came out of order
  overtaken,   \* history: symbols the tick loop published while their rows were fetched
  outages, retired

Tasks == {"health", "poll", "wire"}
sdk == <<calls, reply>>
market == <<up, ready, latest, outages>>
reconnect == <<fillUpTo, since, atLoss, raced, cut>>
fed == <<aggregators, bar, bars, published>>
feed == <<fed, settled>>
disorder == <<shuffled, overtaken>>
vars == <<up, ready, latest, calls, reply, connected, tickSubs, lastSeen, health, poll, todo,
          fillUpTo, since, wire, aggregators, bar, bars, published, atLoss, raced, cut,
          settled, shuffled, overtaken, outages, retired>>

Call(task, what, s) == [task |-> task, what |-> what, sym |-> s]
Failed == 0
Worked == 1
CallTypes == {"terminal_info", "shutdown", "initialize", "symbol_select", "symbol_info_tick",
              "copy_ticks_range"}

TypeOK ==
  /\ up \in BOOLEAN
  /\ ready \in BOOLEAN
  /\ latest \in [Symbols -> {0} \cup Ticks]
  /\ calls \in Seq([task : Tasks \cup {"nobody"}, what : CallTypes, sym : Symbols \cup {None}])
  /\ reply \in [Tasks -> {None, Failed, Worked} \cup Ticks]
  /\ connected \in BOOLEAN
  /\ tickSubs \subseteq Symbols
  /\ lastSeen \in [Symbols -> {0} \cup Ticks]
  /\ health \in {"sleeping", "probe", "backoff", "shutdown", "initialize", "select", "fill"}
  /\ poll \in {"off", "sleeping", "calling", "dead"}
  /\ todo \in [{"health", "poll"} -> Seq(Symbols)]
  /\ fillUpTo \in [Symbols -> {0} \cup Ticks]
  /\ since \in {0} \cup Ticks
  /\ wire \in [next : 1..(Len(Wiring) + 1), upTo : {0} \cup Ticks,
               at : {"next", "history", "select", "selectTicks", "failed"}]
  /\ aggregators \subseteq Feeds
  /\ bar \in [Feeds -> [open : Nat, ticks : SUBSET Ticks]]
  /\ bars \in [Feeds -> SUBSET [open : Nat, ticks : SUBSET Ticks]]
  /\ published \in [Symbols -> Seq(Ticks)]
  /\ atLoss \in [Symbols -> {0} \cup Ticks]
  /\ raced \subseteq Symbols
  /\ cut \in BOOLEAN
  /\ settled \in [Feeds -> Nat \cup {None}]
  /\ shuffled \subseteq Symbols
  /\ overtaken \subseteq Symbols

-----------------------------------------------------------------------------
(* The market and the terminal (external).                                 *)
Outside == UNCHANGED <<ready, calls, reply, connected, tickSubs, lastSeen, health, poll, todo,
                       wire, feed, reconnect, disorder, retired>>

MakeTick(s) ==
  /\ latest[s] < MaxTick[s]
  /\ latest' = [latest EXCEPT ![s] = @ + 1]
  /\ UNCHANGED <<up, outages>>
  /\ Outside

GoDown ==
  /\ up
  /\ outages < MaxOutages
  /\ up' = FALSE
  /\ outages' = outages + 1
  /\ UNCHANGED latest
  /\ Outside

ComeBack ==
  /\ ~up
  /\ up' = TRUE
  /\ UNCHANGED <<latest, outages>>
  /\ Outside

-----------------------------------------------------------------------------
(* _sdk(): the worker thread runs the call at the head of its queue.  A    *)
(* reply is the newest tick (0: None), or whether the call did its work.   *)
(* The event loop resumes the callers in the order their calls returned,   *)
(* so nothing is lost by waiting for each to be resumed before the next.   *)
Answers == up /\ ready
Result(c) ==
  CASE c.what = "symbol_info_tick" -> IF Answers THEN latest[c.sym] ELSE 0
    [] c.what = "initialize" -> IF up THEN Worked ELSE Failed
    [] OTHER -> IF Answers THEN Worked ELSE Failed

RunCall ==
  /\ calls # <<>>
  /\ \A task \in Tasks : reply[task] = None
  /\ LET c == Head(calls)
     IN /\ reply' = IF c.task = "nobody" THEN reply ELSE [reply EXCEPT ![c.task] = Result(c)]
        /\ ready' = CASE c.what = "shutdown" -> FALSE
                      [] c.what = "initialize" -> up
                      [] OTHER -> ready
  /\ calls' = Tail(calls)
  /\ UNCHANGED <<up, latest, outages, connected, tickSubs, lastSeen, health, poll, todo, wire,
                 feed, reconnect, disorder, retired>>

(* A task queues a call; it takes the reply when the call has returned.    *)
Make(c) == calls' = Append(calls, c)
Take(task) == reply[task] # None /\ reply' = [reply EXCEPT ![task] = None]

-----------------------------------------------------------------------------
(* publish(TickEvent) for the ticks `ns` of s, in order: the aggregators   *)
(* of the symbol fold them in and publish the bars they close.             *)
FoldAll(tf, b, ns) == FoldLeft(LAMBDA acc, n : Fold(tf, acc, n), b, ns)
BarsClosed(tf, b, ns) ==
  UNION {Closes(tf, FoldAll(tf, b, SubSeq(ns, 1, i - 1)), ns[i]) : i \in DOMAIN ns}

Publish(s, ns) ==
  /\ published' = [published EXCEPT ![s] = @ \o ns]
  /\ bar' = [f \in Feeds |-> IF f \in aggregators /\ f[1] = s
                             THEN FoldAll(f[2], bar[f], ns) ELSE bar[f]]
  /\ bars' = [f \in Feeds |-> IF f \in aggregators /\ f[1] = s
                              THEN bars[f] \cup BarsClosed(f[2], bar[f], ns) ELSE bars[f]]
  /\ UNCHANGED aggregators

(* The rows of copy_ticks_range() come as the terminal likes; neither the  *)
(* gap fill nor get_history_ticks() sorts them.  Bound: in order, or the   *)
(* other way round (two rows have no other order).                         *)
Orders(ns) == {SetToSortSeq(ns, <), SetToSortSeq(ns, >)}
Ascending(rows) == \A i \in 1..(Len(rows) - 1) : rows[i] < rows[i + 1]

(* Feed f is settled from the period after that of tick n on.              *)
After(f, n) == Period(f[2], n) + 1

-----------------------------------------------------------------------------
(* _tick_loop(): one pass over the subscriptions, a call at a time; it     *)
(* looks at `connected` only between two passes.                           *)
PollUnchanged ==
  UNCHANGED <<market, connected, tickSubs, health, wire, settled, disorder, retired>>

PollWake ==
  /\ poll = "sleeping"
  /\ connected
  /\ tickSubs # {}
  /\ LET pass == SetToSeq(tickSubs)
     IN /\ Make(Call("poll", "symbol_info_tick", Head(pass)))
        /\ todo' = [todo EXCEPT !["poll"] = pass]
  /\ poll' = "calling"
  /\ UNCHANGED <<reply, lastSeen, fed, reconnect>>
  /\ PollUnchanged

(* The next symbol of the pass, or sleep until the next one.               *)
PollNext(pass) ==
  /\ todo' = [todo EXCEPT !["poll"] = pass]
  /\ IF pass = <<>>
     THEN poll' = "sleeping" /\ UNCHANGED calls
     ELSE poll' = "calling" /\ Make(Call("poll", "symbol_info_tick", Head(pass)))

News(s, n) == n # 0 /\ n # lastSeen[s]

(* The call returned: nothing new, a tick to publish, or one that Tick()   *)
(* refuses, which ends the task (nothing catches the error).               *)
PollReply ==
  /\ poll = "calling"
  /\ Take("poll")
  /\ LET s == Head(todo["poll"])
         n == reply["poll"]
     IN \/ /\ ~News(s, n)
           /\ PollNext(Tail(todo["poll"]))
           /\ UNCHANGED <<lastSeen, fed, raced>>
        \/ /\ News(s, n)
           /\ n \in Malformed[s]
           /\ poll' = "dead"
           /\ lastSeen' = [lastSeen EXCEPT ![s] = n]
           /\ todo' = [todo EXCEPT !["poll"] = <<>>]
           /\ UNCHANGED <<calls, fed, raced>>
        \/ /\ News(s, n)
           /\ n \notin Malformed[s]
           /\ lastSeen' = [lastSeen EXCEPT ![s] = n]
           /\ Publish(s, <<n>>)
           /\ raced' = IF connected THEN raced ELSE raced \cup {s}
           /\ PollNext(Tail(todo["poll"]))
  /\ UNCHANGED <<fillUpTo, since, atLoss, cut>>
  /\ PollUnchanged

-----------------------------------------------------------------------------
(* _health_loop(), _handle_disconnect() and _reconnect_with_backoff().     *)
HealthUnchanged == UNCHANGED <<market, tickSubs, poll, wire, retired>>
Quiet == UNCHANGED <<lastSeen, feed, disorder>>

Probe ==
  /\ health = "sleeping"
  /\ connected
  /\ Make(Call("health", "terminal_info", None))
  /\ health' = "probe"
  /\ UNCHANGED <<reply, connected, todo, reconnect>>
  /\ Quiet
  /\ HealthUnchanged

Probed ==
  /\ health = "probe"
  /\ Take("health")
  /\ IF reply["health"] = Worked
     THEN health' = "sleeping" /\ UNCHANGED <<connected, reconnect>>
     ELSE /\ health' = "backoff"
          /\ connected' = FALSE
          /\ atLoss' = lastSeen
          /\ raced' = {}
          /\ cut' = FALSE
          /\ UNCHANGED <<fillUpTo, since>>
  /\ UNCHANGED <<calls, todo>>
  /\ Quiet
  /\ HealthUnchanged

BackoffOver ==
  /\ health = "backoff"
  /\ Make(Call("health", "shutdown", None))
  /\ health' = "shutdown"
  /\ UNCHANGED <<reply, connected, todo, reconnect>>
  /\ Quiet
  /\ HealthUnchanged

ShutDown ==
  /\ health = "shutdown"
  /\ Take("health")
  /\ Make(Call("health", "initialize", None))
  /\ health' = "initialize"
  /\ UNCHANGED <<connected, todo, reconnect>>
  /\ Quiet
  /\ HealthUnchanged

(* _gap_fill_after_reconnect() goes on with the symbols `rest`, past those *)
(* retired and those it never saw a tick of; then the broker is live.      *)
Fillable(s) == s \in tickSubs /\ lastSeen[s] # 0

Nothing == [s \in Symbols |-> 0]
GoLive ==
  /\ health' = "sleeping"
  /\ connected' = TRUE
  /\ fillUpTo' = Nothing
  /\ since' = 0
  /\ atLoss' = Nothing
  /\ raced' = {}

FillOn(rest, upTo) ==
  LET left == SelectSeq(rest, Fillable)
  IN /\ todo' = [todo EXCEPT !["health"] = left]
     /\ IF left = <<>>
        THEN GoLive /\ UNCHANGED calls
        ELSE /\ health' = "fill"
             /\ fillUpTo' = upTo
             /\ since' = lastSeen[Head(left)]
             /\ Make(Call("health", "copy_ticks_range", Head(left)))
             /\ UNCHANGED <<connected, atLoss, raced>>

(* The symbols are selected again; `now` is taken when they all are.       *)
SelectOn(rest) ==
  IF rest = <<>>
  THEN FillOn(SetToSeq(tickSubs), latest)
  ELSE /\ health' = "select"
       /\ todo' = [todo EXCEPT !["health"] = rest]
       /\ Make(Call("health", "symbol_select", Head(rest)))
       /\ UNCHANGED <<connected, fillUpTo, since, atLoss, raced>>

(* (mutant) A failed initialize() ends the reconnect.                      *)
InitializedGivesUp ==
  /\ health = "initialize"
  /\ Take("health")
  /\ IF reply["health"] = Worked
     THEN SelectOn(SetToSeq(tickSubs))
     ELSE health' = "sleeping" /\ UNCHANGED <<calls, todo, connected, fillUpTo, since, atLoss, raced>>
  /\ UNCHANGED cut
  /\ Quiet
  /\ HealthUnchanged

Initialized ==
  /\ health = "initialize"
  /\ Take("health")
  /\ IF reply["health"] = Worked
     THEN SelectOn(SetToSeq(tickSubs))
     ELSE health' = "backoff" /\ UNCHANGED <<calls, todo, connected, fillUpTo, since, atLoss, raced>>
  /\ UNCHANGED cut
  /\ Quiet
  /\ HealthUnchanged

SelectedSymbol ==
  /\ health = "select"
  /\ Take("health")
  /\ SelectOn(Tail(todo["health"]))
  /\ UNCHANGED cut
  /\ Quiet
  /\ HealthUnchanged

(* (mutant) The last row is left out.                                      *)
MissedShort(s) == (since + 1)..(fillUpTo[s] - 1)

(* The rows after the baseline; malformed ones are logged and skipped, but *)
(* advance _last_tick_time all the same.                                   *)
Missed(s) == (since + 1)..fillUpTo[s]
Replayed(s, rows) == SelectSeq(rows, LAMBDA n : n \notin Malformed[s])

FilledSymbol ==
  /\ health = "fill"
  /\ Take("health")
  /\ LET s == Head(todo["health"])
     IN IF reply["health"] = Worked /\ Missed(s) # {}
        THEN \E rows \in Orders(Missed(s)) :
               /\ Publish(s, Replayed(s, rows))
               /\ lastSeen' = [lastSeen EXCEPT ![s] = Last(rows)]
               /\ shuffled' = IF Ascending(rows) THEN shuffled ELSE shuffled \cup {s}
               /\ overtaken' = IF lastSeen[s] > since THEN overtaken \cup {s} ELSE overtaken
               /\ settled' = [f \in Feeds |->
                    IF f[1] = s /\ settled[f] # None /\ s \in shuffled' \cup overtaken'
                    THEN After(f, latest[s]) ELSE settled[f]]
               /\ UNCHANGED cut
        ELSE Quiet /\ cut' = (cut \/ reply["health"] = Failed)
  /\ FillOn(Tail(todo["health"]), fillUpTo)
  /\ HealthUnchanged

(* A call or the whole gap fill takes too long: the rest is left out.  The *)
(* worker thread still runs the call, for nobody.                          *)
FillTimesOut ==
  /\ health = "fill"
  /\ reply["health"] = None
  /\ calls' = [i \in DOMAIN calls |->
                 IF calls[i].task = "health" THEN [calls[i] EXCEPT !.task = "nobody"] ELSE calls[i]]
  /\ todo' = [todo EXCEPT !["health"] = <<>>]
  /\ cut' = TRUE
  /\ GoLive
  /\ UNCHANGED reply
  /\ Quiet
  /\ HealthUnchanged

-----------------------------------------------------------------------------
(* _subscribe_one() of the runtime for one feed after the other.           *)
Wired == Wiring[wire.next]
WireUnchanged ==
  UNCHANGED <<market, connected, lastSeen, health, todo, reconnect, disorder, retired>>

(* The aggregator goes on the bus and its history is asked for.  A broker  *)
(* that is not connected raises: the warm-up only warns, subscribe_bars()  *)
(* does not.                                                               *)
WireFeed ==
  /\ wire.at = "next"
  /\ wire.next <= Len(Wiring)
  /\ aggregators' = aggregators \cup {Wired}
  /\ IF connected
     THEN /\ Make(Call("wire", "copy_ticks_range", Wired[1]))
          /\ wire' = [wire EXCEPT !.at = "history", !.upTo = latest[Wired[1]]]
          /\ UNCHANGED settled
     ELSE /\ wire' = [wire EXCEPT !.at = "failed"]
          /\ settled' = [settled EXCEPT ![Wired] = After(Wired, latest[Wired[1]])]
          /\ UNCHANGED calls
  /\ UNCHANGED <<reply, tickSubs, poll, bar, bars, published>>
  /\ WireUnchanged

(* _backfill_aggregator(): the history goes through on_tick() with         *)
(* emit_bars off, on top of what a shared symbol has already brought; the  *)
(* first row that Tick() refuses raises.  Then subscribe_bars().           *)
(* The feed is settled at once when it had seen nothing and its history is *)
(* in order and reaches what is published, else from the next period on.   *)
History == IF reply["wire"] = Worked THEN 1..wire.upTo ELSE {}
WarmUp ==
  /\ wire.at = "history"
  /\ Take("wire")
  /\ \E history \in Orders(History) :
       LET s == Wired[1]
           bad == SelectInSeq(history, LAMBDA n : n \in Malformed[s])
           read == IF bad = 0 THEN history ELSE SubSeq(history, 1, bad - 1)
           clean == /\ ~Opened(bar[Wired])
                    /\ Ascending(history)
                    /\ bad = 0
                    /\ reply["wire"] = Worked \/ published[s] = <<>>
       IN
        /\ bar' = [bar EXCEPT ![Wired] = FoldAll(Wired[2], @, read)]
        /\ settled' = [settled EXCEPT ![Wired] = IF clean THEN 0 ELSE After(Wired, latest[s])]
        /\ IF bad # 0 \/ ~connected
           THEN wire' = [wire EXCEPT !.at = "failed"] /\ UNCHANGED calls
           ELSE /\ Make(Call("wire", "symbol_select", Wired[1]))
                /\ wire' = [wire EXCEPT !.at = "select", !.upTo = 0]
  /\ UNCHANGED <<tickSubs, poll, aggregators, bars, published>>
  /\ WireUnchanged

(* subscribe_bars() goes on to subscribe_ticks().                          *)
SelectedBars ==
  /\ wire.at = "select"
  /\ Take("wire")
  /\ IF connected
     THEN /\ Make(Call("wire", "symbol_select", Wired[1]))
          /\ wire' = [wire EXCEPT !.at = "selectTicks"]
     ELSE wire' = [wire EXCEPT !.at = "failed"] /\ UNCHANGED calls
  /\ UNCHANGED <<tickSubs, poll, feed>>
  /\ WireUnchanged

(* subscribe_ticks(): the tick loop is started when there is none.         *)
SelectedTicks ==
  /\ wire.at = "selectTicks"
  /\ Take("wire")
  /\ tickSubs' = tickSubs \cup {Wired[1]}
  /\ poll' = IF poll \in {"off", "dead"} THEN "sleeping" ELSE poll
  /\ wire' = [wire EXCEPT !.next = @ + 1, !.at = "next"]
  /\ UNCHANGED <<calls, feed>>
  /\ WireUnchanged

(* unsubscribe(symbol).                                                    *)
Retire(s) ==
  /\ retired < MaxRetired
  /\ s \in tickSubs
  /\ tickSubs' = tickSubs \ {s}
  /\ lastSeen' = [lastSeen EXCEPT ![s] = 0]
  /\ published' = [published EXCEPT ![s] = <<>>]
  /\ atLoss' = [atLoss EXCEPT ![s] = 0]
  /\ retired' = retired + 1
  /\ UNCHANGED <<market, sdk, connected, health, poll, todo, wire, aggregators, bar, bars,
                 fillUpTo, since, raced, cut, settled, disorder>>

-----------------------------------------------------------------------------
Init ==
  /\ up = TRUE
  /\ ready = TRUE
  /\ latest = Nothing
  /\ calls = <<>>
  /\ reply = [t \in Tasks |-> None]
  /\ connected = TRUE
  /\ tickSubs = {}
  /\ lastSeen = Nothing
  /\ health = "sleeping"
  /\ poll = "off"
  /\ todo = [t \in {"health", "poll"} |-> <<>>]
  /\ fillUpTo = Nothing
  /\ since = 0
  /\ wire = [next |-> 1, upTo |-> 0, at |-> "next"]
  /\ aggregators = {}
  /\ bar = [f \in Feeds |-> NoBar]
  /\ bars = [f \in Feeds |-> {}]
  /\ published = [s \in Symbols |-> <<>>]
  /\ atLoss = Nothing
  /\ raced = {}
  /\ cut = FALSE
  /\ settled = [f \in Feeds |-> None]
  /\ shuffled = {}
  /\ overtaken = {}
  /\ outages = 0
  /\ retired = 0

TickLoop == PollWake \/ PollReply
HealthLoop ==
  \/ Probe \/ Probed \/ BackoffOver \/ ShutDown \/ Initialized \/ SelectedSymbol \/ FilledSymbol
Wire == WireFeed \/ WarmUp \/ SelectedBars \/ SelectedTicks

Next ==
  \/ \E s \in Symbols : MakeTick(s) \/ Retire(s)
  \/ GoDown \/ ComeBack \/ RunCall
  \/ TickLoop \/ HealthLoop \/ FillTimesOut \/ Wire

(* The tasks and the worker thread run; the terminal is restarted when it  *)
(* is down.  Nothing makes the market move or a call take too long.        *)
Fairness ==
  /\ WF_vars(RunCall)
  /\ WF_vars(TickLoop)
  /\ WF_vars(HealthLoop)
  /\ WF_vars(Wire)
  /\ WF_vars(ComeBack)

Spec == Init /\ [][Next]_vars /\ Fairness

-----------------------------------------------------------------------------
(* No tick of a subscription is published twice or after a later one, by   *)
(* the tick loop or by the gap fill ("the race where the live loop could   *)
(* republish a tick that gap-fill also replays"), unless the terminal gave *)
(* its missed rows out of order, or a pass of the tick loop got to the     *)
(* symbol while its rows were fetched.  The latter takes three symbols     *)
(* unsubscribed during one reconnect.                                      *)
InOrder ==
  /\ \A s \in Symbols \ (shuffled \cup overtaken) : Ascending(published[s])
  /\ retired < 3 => overtaken = {}

(* When the broker goes live again after a gap fill that ran to its end,   *)
(* every tick since the connection was lost has been published, except for *)
(* symbols the tick loop published in between.                             *)
Republished(s) == atLoss[s] # 0 => \A n \in (atLoss[s] + 1)..fillUpTo[s] :
  n \in Malformed[s] \/ n \in ToSet(published'[s])
GoesLive == ~connected /\ connected' /\ ~cut'
GapFilled == [][GoesLive => \A s \in tickSubs \ raced : Republished(s)]_vars

(* A bar that is published holds the ticks of its own period and all of    *)
(* those that were published, once its feed is settled: from its first bar *)
(* on when its history came first and in order, from the period after      *)
(* otherwise (a second feed of a streaming symbol, rows out of order).     *)
BarsFaithful ==
  \A f \in Feeds : \A b \in bars[f] : settled[f] # None /\ b.open >= settled[f] =>
  LET own == {n \in Ticks : Period(f[2], n) = b.open}
  IN b.ticks \subseteq own /\ own \cap ToSet(published[f[1]]) \subseteq b.ticks

(* What is published is in order, each tick once, and bars are made of it. *)
StreamSound == TypeOK /\ InOrder /\ BarsFaithful

(* The stream recovers: once the market stands still the broker has seen   *)
(* the newest tick of every subscription, whatever outages there were,     *)
(* unless a malformed tick has ended the tick loop.                        *)
CatchesUp == <>[](poll = "dead" \/ \A s \in tickSubs : lastSeen[s] = latest[s])
=============================================================================
