------------------------------ MODULE OrderQueue ------------------------------
(***************************************************************************)
(* The persisted order queue, brokers/order_queue.py, with the order_send  *)
(* retry loop of the broker it calls (brokers/mt5/broker.py) and the       *)
(* process that is stopped and started again around it.                    *)
(*                                                                         *)
(* submit() commits a pending row, calls place_order() and then writes the *)
(* outcome into the row. At startup, before any signal can be routed,      *)
(* replay_pending_results() calls place_order() for every row still        *)
(* pending, oldest first, and the router publishes the collected results   *)
(* when the loop has ended.                                                *)
(*                                                                         *)
(* A caller is a task inside place_order(): a task that submits, or the    *)
(* startup task that replays. The writes of an outcome and the reading of  *)
(* a stored request stand outside the try blocks: a database error leaves  *)
(* the row pending, and in the replay it ends the startup and the process. *)
(***************************************************************************)
EXTENDS Naturals, Sequences, FiniteSets

CONSTANTS
  Orders,       \* client_order_ids; uuid4, so never chosen twice
  Senders,      \* tasks that call submit(): the router's signal consumer
  Replayer,     \* the startup task
  None,
  MaxRetries,   \* ORDER_MAX_RETRIES
  RepliesLost,  \* the broker may execute a request and its answer get lost
  MaxStops,     \* bound: how often the process is stopped
  MaxUnwritten  \* bound: how often the outcome of a request is not written

ASSUME QueueAssumption ==
  /\ IsFiniteSet(Senders)
  /\ Replayer \notin Senders
  /\ None \notin Orders
  /\ MaxRetries \in Nat \ {0}
  /\ RepliesLost \in BOOLEAN
  /\ MaxStops \in Nat
  /\ MaxUnwritten \in Nat

VARIABLES
  row,        \* PendingOrderRequestRow.status, "none" before there is a row
  accepted,   \* the rows in the order of enqueued_at
  executed,   \* history: how often the broker executed each request
  phase,      \* "down", "replay" (startup), "running"
  todo,       \* rows the replay loop has still to go through
  results,    \* results the replay loop has collected
  call,       \* call[c]: where caller c is in place_order()
  announced,  \* history: orders whose result was published in this run
  known,      \* history: executions this run of the process was told of
  lost,       \* history: executions whose answer was lost
  stops,      \* number of times the process was stopped
  unreadable, \* requests whose row cannot be turned into a request again
  stranded,   \* requests whose submit() ended in this run, their row pending
  unwritten   \* history: how often the outcome of a request was not written

errorVars == <<unreadable, stranded, unwritten>>
vars == <<row, accepted, executed, phase, todo, results, call, announced, known, lost, stops, errorVars>>

Callers == Senders \cup {Replayer}
Statuses == {"none", "pending", "sent", "failed"}

(* The answers of order_send(), by what place_order() does with them: a    *)
(* permanent retcode is given up like no answer at all.                    *)
Answers == {"success", "retryable", "nothing"}

(* A call of place_order(), and no call.                                   *)
Calls == [pc : {"sending", "answered"}, order : Orders, attempt : 1..MaxRetries, answer : Answers]

NoCall == [pc |-> "idle", order |-> None, attempt |-> 0, answer |-> "nothing"]

TypeOK ==
  /\ row \in [Orders -> Statuses]
  /\ accepted \in Seq(Orders)
  /\ executed \in [Orders -> Nat]
  /\ phase \in {"down", "replay", "running"}
  /\ todo \subseteq Orders
  /\ results \subseteq Orders
  /\ call \in [Callers -> Calls \cup {NoCall}]
  /\ announced \subseteq Orders
  /\ known \in [Orders -> Nat]
  /\ lost \in [Orders -> Nat]
  /\ stops \in 0..MaxStops
  /\ unreadable \subseteq Orders
  /\ stranded \subseteq Orders
  /\ unwritten \in [Orders -> 0..MaxUnwritten]

-----------------------------------------------------------------------------
Begin(c, o) ==
  call' = [call EXCEPT ![c] = [pc |-> "sending", order |-> o, attempt |-> 1, answer |-> "nothing"]]

(* (mutant) The idempotency check is missing.                              *)
SubmitUnchecked(c, o) ==
  /\ phase = "running"
  /\ call[c] = NoCall
  /\ row' = [row EXCEPT ![o] = "pending"]
  /\ accepted' = Append(accepted, o)
  /\ Begin(c, o)
  /\ UNCHANGED <<executed, phase, todo, results, announced, known, lost, stops, errorVars>>

(* submit(): a client_order_id that has a row is refused and changes       *)
(* nothing; otherwise the pending row is committed and place_order() is    *)
(* called.                                                                 *)
Submit(c, o) ==
  /\ phase = "running"
  /\ call[c] = NoCall
  /\ row[o] = "none"
  /\ row' = [row EXCEPT ![o] = "pending"]
  /\ accepted' = Append(accepted, o)
  /\ Begin(c, o)
  /\ UNCHANGED <<executed, phase, todo, results, announced, known, lost, stops, errorVars>>

(* order_send() at the broker: it executes the request and says so, or     *)
(* answers with a retcode, or answers nothing. When replies get lost, an   *)
(* execution can look like a timeout or like no answer at all.             *)
BrokerAnswers(c) ==
  /\ call[c].pc = "sending"
  /\ \E ans \in Answers, done \in BOOLEAN :
       /\ ans = "success" => done
       /\ done => ans = "success" \/ RepliesLost
       /\ call' = [call EXCEPT ![c] = [@ EXCEPT !.pc = "answered", !.answer = ans]]
       /\ executed' = [executed EXCEPT ![call[c].order] = IF done THEN @ + 1 ELSE @]
       /\ known' = [known EXCEPT ![call[c].order] = IF ans = "success" THEN @ + 1 ELSE @]
       /\ lost' = [lost EXCEPT ![call[c].order] = IF done /\ ans # "success" THEN @ + 1 ELSE @]
  /\ UNCHANGED <<row, accepted, phase, todo, results, announced, stops, errorVars>>

(* (mutant) The attempts are not counted.                                  *)
RetriesForEver(c) == call[c].answer = "retryable"

(* A retryable retcode is tried again, MaxRetries times in all.            *)
Retries(c) == call[c].answer = "retryable" /\ call[c].attempt < MaxRetries

Retry(c) ==
  /\ call[c].pc = "answered"
  /\ Retries(c)
  /\ call' = [call EXCEPT ![c] = [@ EXCEPT !.pc = "sending", !.attempt = call[c].attempt + 1]]
  /\ UNCHANGED <<row, accepted, executed, phase, todo, results, announced, known, lost, stops, errorVars>>

(* (mutant) The row is marked sent whatever the broker said.               *)
AlwaysSent(c) == "sent"

(* _update_status() and _mark_failed(): the status the outcome leaves.     *)
Outcome(c) == IF call[c].answer = "success" THEN "sent" ELSE "failed"

Resolve(c) == row' = [row EXCEPT ![call[c].order] = Outcome(c)]

(* submit() returns: the row is updated and the router publishes the fill  *)
(* or the rejection, with no other task in between.                        *)
SubmitReturns(c) ==
  /\ c \in Senders
  /\ call[c].pc = "answered"
  /\ ~Retries(c)
  /\ Resolve(c)
  /\ announced' = announced \cup {call[c].order}
  /\ call' = [call EXCEPT ![c] = NoCall]
  /\ UNCHANGED <<accepted, executed, phase, todo, results, known, lost, stops, errorVars>>

(* place_order() raises, the broker not being connected: submit() marks    *)
(* the row failed and raises again, and nothing is published.              *)
SubmitRaises(c) ==
  /\ c \in Senders
  /\ call[c].pc = "sending" /\ call[c].attempt = 1
  /\ row' = [row EXCEPT ![call[c].order] = "failed"]
  /\ call' = [call EXCEPT ![c] = NoCall]
  /\ UNCHANGED <<accepted, executed, phase, todo, results, announced, known, lost, stops, errorVars>>

(* The outcome of caller c's request is not written: _update_status() or   *)
(* _mark_failed() raises, after an answer or after place_order() raised.   *)
OutcomeUnwritten(c) ==
  LET o == call[c].order IN
  /\ \/ call[c].pc = "answered" /\ ~Retries(c)
     \/ call[c].pc = "sending" /\ call[c].attempt = 1
  /\ unwritten[o] < MaxUnwritten
  /\ unwritten' = [unwritten EXCEPT ![o] = @ + 1]

(* submit() raises then: the row stays pending, and nothing is published.  *)
SubmitUnwritten(c) ==
  /\ c \in Senders
  /\ OutcomeUnwritten(c)
  /\ stranded' = stranded \cup {call[c].order}
  /\ call' = [call EXCEPT ![c] = NoCall]
  /\ UNCHANGED <<row, accepted, executed, phase, todo, results, announced, known, lost, stops, unreadable>>

-----------------------------------------------------------------------------
IsPending(o) == row[o] = "pending"

(* o is the member of S that was enqueued first.                           *)
IsOldest(o, S) ==
  \E i \in DOMAIN accepted :
    /\ accepted[i] = o /\ o \in S
    /\ \A j \in 1..(i - 1) : accepted[j] \notin S

(* (mutant) The select takes the oldest pending row only.                  *)
SelectOne == {o \in Orders : IsOldest(o, {p \in Orders : IsPending(p)})}

(* The rows replay_pending_results() selects.                              *)
PendingRows == {o \in Orders : IsPending(o)}

(* The process starts: the brokers connect, and the pending rows are read. *)
Start ==
  /\ phase = "down"
  /\ phase' = "replay"
  /\ todo' = PendingRows
  /\ UNCHANGED <<row, accepted, executed, results, call, announced, known, lost, stops, errorVars>>

(* The loop turns the oldest row left into a request again and sends it.   *)
ReplayNext ==
  /\ phase = "replay"
  /\ call[Replayer] = NoCall
  /\ \E o \in Orders \ unreadable : IsOldest(o, todo) /\ Begin(Replayer, o)
  /\ UNCHANGED <<row, accepted, executed, phase, todo, results, announced, known, lost, stops, errorVars>>

ReplayReturns ==
  /\ call[Replayer].pc = "answered"
  /\ ~Retries(Replayer)
  /\ Resolve(Replayer)
  /\ results' = results \cup {call[Replayer].order}
  /\ todo' = todo \ {call[Replayer].order}
  /\ call' = [call EXCEPT ![Replayer] = NoCall]
  /\ UNCHANGED <<accepted, executed, phase, announced, known, lost, stops, errorVars>>

(* (mutant) An exception leaves the row as it is.                          *)
ReplayRaisesKeepsRow ==
  /\ call[Replayer].pc = "sending" /\ call[Replayer].attempt = 1
  /\ todo' = todo \ {call[Replayer].order}
  /\ call' = [call EXCEPT ![Replayer] = NoCall]
  /\ UNCHANGED <<row, accepted, executed, phase, results, announced, known, lost, stops, errorVars>>

(* An exception marks the row failed, and the loop goes on.                *)
ReplayRaises ==
  /\ call[Replayer].pc = "sending" /\ call[Replayer].attempt = 1
  /\ row' = [row EXCEPT ![call[Replayer].order] = "failed"]
  /\ todo' = todo \ {call[Replayer].order}
  /\ call' = [call EXCEPT ![Replayer] = NoCall]
  /\ UNCHANGED <<accepted, executed, phase, results, announced, known, lost, stops, errorVars>>

(* The loop has ended: the router publishes the results, and startup goes  *)
(* on to the market data, which is where signals come from.                *)
ReplayEnds ==
  /\ phase = "replay"
  /\ call[Replayer] = NoCall
  /\ todo = {}
  /\ phase' = "running"
  /\ announced' = announced \cup results
  /\ results' = {}
  /\ UNCHANGED <<row, accepted, executed, todo, call, known, lost, stops, errorVars>>

(* What is in memory is lost, the results the replay has collected too.    *)
GoesDown ==
  /\ phase' = "down"
  /\ call' = [c \in Callers |-> NoCall]
  /\ todo' = {}
  /\ results' = {}
  /\ announced' = {}
  /\ known' = [o \in Orders |-> 0]
  /\ stranded' = {}

(* The replay raises: the oldest row left is not a request, or an outcome  *)
(* is not written. Nothing catches that, and the process ends.             *)
ReplayAborts ==
  /\ phase = "replay"
  /\ \/ /\ call[Replayer] = NoCall
        /\ \E o \in unreadable : IsOldest(o, todo)
        /\ UNCHANGED unwritten
     \/ OutcomeUnwritten(Replayer)
  /\ GoesDown
  /\ UNCHANGED <<row, accepted, executed, lost, stops, unreadable>>

(* The process is killed, or shut down with its tasks cancelled: neither   *)
(* is an Exception that submit() would catch. Only the rows remain.        *)
Stop ==
  /\ phase # "down"
  /\ stops < MaxStops
  /\ stops' = stops + 1
  /\ GoesDown
  /\ UNCHANGED <<row, accepted, executed, lost, unreadable, unwritten>>

-----------------------------------------------------------------------------
(* All requests are accepted and handled, and nothing stops the process.   *)
AllHandled ==
  /\ phase = "running"
  /\ \A o \in Orders : row[o] \in {"sent", "failed"} \/ o \in stranded
  /\ stops = MaxStops
  /\ UNCHANGED vars

Init ==
  /\ row = [o \in Orders |-> "none"]
  /\ accepted = <<>>
  /\ executed = [o \in Orders |-> 0]
  /\ phase = "down"
  /\ todo = {}
  /\ results = {}
  /\ call = [c \in Callers |-> NoCall]
  /\ announced = {}
  /\ known = [o \in Orders |-> 0]
  /\ lost = [o \in Orders |-> 0]
  /\ stops = 0
  /\ unreadable \in SUBSET Orders
  /\ stranded = {}
  /\ unwritten = [o \in Orders |-> 0]

CallStep(c) ==
  BrokerAnswers(c) \/ Retry(c) \/ SubmitReturns(c) \/ SubmitRaises(c) \/ SubmitUnwritten(c)
ReplayStep == ReplayNext \/ ReplayReturns \/ ReplayRaises \/ ReplayAborts \/ ReplayEnds

Next ==
  \/ \E c \in Senders, o \in Orders : Submit(c, o)
  \/ \E c \in Callers : CallStep(c)
  \/ ReplayStep
  \/ Start
  \/ Stop
  \/ AllHandled

Spec == Init /\ [][Next]_vars

(* A stopped process is started again; place_order() returns; the replay   *)
(* loop runs on. Stopping is bounded, and nothing obliges it.              *)
Fairness ==
  /\ \A c \in Callers : WF_vars(CallStep(c))
  /\ WF_vars(ReplayStep)
  /\ WF_vars(Start)

FairSpec == Spec /\ Fairness

-----------------------------------------------------------------------------
(* Properties.                                                             *)

(* The queue implements its abstract promise.                              *)
Abstract == INSTANCE Outbox WITH Orders <- Orders, row <- row, executed <- executed
ImplementsOutbox == Abstract!OutboxSpec

(* While the engine runs, a pending row is one a task is working on, or    *)
(* one whose outcome could not be written in this run: an engine that runs *)
(* has replayed every row, and no other error path leaves one behind.      *)
PendingIsUnderway ==
  phase = "running" =>
    \A o \in Orders : row[o] = "pending" =>
      (\E c \in Senders : call[c].order = o) \/ o \in stranded

(* However often the process stops, no more rows are in doubt than there   *)
(* are tasks that submit, but for those whose outcome could not be         *)
(* written; with the single consumer of the router, one.                   *)
InDoubt == {o \in PendingRows : unwritten[o] = 0}
FewInDoubt == Cardinality(InDoubt) <= Cardinality(Senders)

(* One run of the process is told of one execution of a request at most:   *)
(* the retry loop stops at a success, and no row is both submitted and     *)
(* replayed.                                                               *)
OncePerRun == \A o \in Orders : known[o] <= 1

(* A second execution of a request needs a stop of the process, an answer  *)
(* that got lost, or an outcome of this very request that was not written: *)
(* a replay that another row aborts executes nothing twice.                *)
DuplicatesNeedStops == \A o \in Orders : executed[o] <= 1 + stops + lost[o] + unwritten[o]

(* Once the engine runs, the result of every request that the broker is    *)
(* known to have executed in this run has been published, unless it is     *)
(* still being submitted: a replayed fill is not kept from the strategies. *)
ExecutedIsAnnounced ==
  phase = "running" =>
    \A o \in Orders : (known[o] > 0 /\ row[o] # "pending") => o \in announced

(* What a run is told of executions, what it causes and what it publishes. *)
ExecutionsAccounted == OncePerRun /\ DuplicatesNeedStops /\ ExecutedIsAnnounced

(* A pending row that is no request blocks those enqueued after it, and    *)
(* itself, at every start.                                                 *)
Blocked(o) ==
  /\ phase # "running"
  /\ \E i, j \in DOMAIN accepted :
       i <= j /\ accepted[j] = o /\ accepted[i] \in unreadable /\ row[accepted[i]] = "pending"

(* order_queue.py:5: "without losing requests": a pending request is       *)
(* resolved in the end, whatever stops and raises on the way; what keeps   *)
(* one pending is an outcome not written in a run that is never stopped,   *)
(* or a start that an unreadable row ends before it is reached.            *)
PendingIsResolved ==
  \A o \in Orders :
    row[o] = "pending" ~>
      \/ row[o] \in {"sent", "failed"}
      \/ o \in stranded
      \/ Blocked(o)
===============================================================================
