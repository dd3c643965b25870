--------------------------- MODULE OrderQueueProofs ---------------------------
(***************************************************************************)
(* Theorems about OrderQueue, for any number of orders, submitting tasks,  *)
(* retries and stops of the process.                                       *)
(***************************************************************************)
EXTENDS OrderQueue, FiniteSetTheorems, TLAPS

(* Where the calls of place_order() can stand: each is about a pending row *)
(* of its own, and it is the replay's while the process starts, a          *)
(* submitter's while it runs.                                              *)
CallsInv ==
  /\ \A c \in Callers : call[c] # NoCall =>
       /\ call[c].pc \in {"sending", "answered"}
       /\ call[c].order \in Orders
       /\ row[call[c].order] = "pending"
  /\ \A c \in Senders : call[c] # NoCall => phase = "running"
  /\ call[Replayer] # NoCall => phase = "replay"
  /\ \A c, d \in Callers :
       (call[c] # NoCall /\ call[d] # NoCall /\ call[c].order = call[d].order) => c = d

(* While the replay runs, what it has still to do are the pending rows.    *)
TodoInv ==
  /\ phase = "replay" => todo = PendingRows
  /\ phase # "replay" => todo = {} /\ results = {}

(* An execution the caller was told of has left its traces.                *)
Succeeded(o) ==
  \E c \in Callers : call[c] # NoCall /\ call[c].order = o
                     /\ call[c].pc = "answered" /\ call[c].answer = "success"

RunInv ==
  \A o \in Orders :
    /\ Succeeded(o) => executed[o] > 0
    /\ phase = "down" => known[o] = 0

(* A stranded request is a pending one that nobody works on, in a running  *)
(* engine.                                                                 *)
StrandedInv ==
  /\ phase # "running" => stranded = {}
  /\ \A o \in stranded :
       /\ row[o] = "pending"
       /\ unwritten[o] > 0
       /\ \A c \in Callers : call[c] # NoCall => call[c].order # o

OnceInv ==
  \A o \in Orders :
    /\ known[o] <= 1
    /\ executed[o] <= 1 + stops + lost[o] + unwritten[o]
    /\ (row[o] \in {"none", "pending"} /\ known[o] = 0) => executed[o] <= stops + lost[o] + unwritten[o]
    /\ (row[o] \in {"none", "pending"} /\ ~Succeeded(o) /\ o \notin stranded) => known[o] = 0
    /\ (known[o] > 0 /\ row[o] # "pending") => o \in announced \cup results

IInv == TypeOK /\ CallsInv /\ TodoInv /\ PendingIsUnderway /\ RunInv /\ StrandedInv /\ OnceInv

-----------------------------------------------------------------------------
(* A call at each stage of place_order() is a call record of the queue.    *)
LEMMA BeginType ==
  ASSUME NEW o \in Orders
  PROVE  [pc |-> "sending", order |-> o, attempt |-> 1, answer |-> "nothing"] \in Calls
BY QueueAssumption DEF Calls, Answers

(* The result of a call that is answered is one of the broker's.           *)
LEMMA AnsweredType ==
  ASSUME NEW k \in Calls, NEW ans \in Answers
  PROVE  [k EXCEPT !.pc = "answered", !.answer = ans] \in Calls
BY DEF Calls

(* A retry stays within the bound on attempts.                             *)
LEMMA RetryType ==
  ASSUME NEW k \in Calls, k.attempt < MaxRetries
  PROVE  [k EXCEPT !.pc = "sending", !.attempt = @ + 1] \in Calls
<1>1. k.attempt + 1 \in 1..MaxRetries
  BY QueueAssumption DEF Calls
<1>2. k.pc \in {"sending", "answered"} /\ k.order \in Orders /\ k.answer \in Answers
  BY DEF Calls
<1>3. k = [pc |-> k.pc, order |-> k.order, attempt |-> k.attempt, answer |-> k.answer]
  BY DEF Calls
<1> QED BY <1>1, <1>2, <1>3 DEF Calls

(* A caller that is in place_order() has a call record.                    *)
LEMMA InCall ==
  ASSUME TypeOK, NEW c \in Callers, call[c].pc \in {"sending", "answered"}
  PROVE  call[c] \in Calls /\ call[c].order \in Orders /\ call[c] # NoCall
<1>1. call[c] \in Calls \cup {NoCall}
  BY DEF TypeOK
<1>2. call[c] # NoCall
  BY DEF NoCall
<1>3. \A k \in Calls : k.order \in Orders
  BY DEF Calls
<1> QED BY <1>1, <1>2, <1>3

(* A counter of an order goes up by one or stays.                          *)
LEMMA CountedType ==
  ASSUME NEW f \in [Orders -> Nat], NEW o, NEW P \in BOOLEAN
  PROVE  [f EXCEPT ![o] = IF P THEN @ + 1 ELSE @] \in [Orders -> Nat]
<1>1. CASE o \in Orders
  BY <1>1
<1>2. CASE o \notin Orders
  BY <1>2
<1> QED BY <1>1, <1>2

(* The variables keep their types, whatever the queue, the broker and the  *)
(* stops of the process do.                                                *)
THEOREM TypeCorrect == Spec => []TypeOK
<1> USE QueueAssumption
<1>1. Init => TypeOK
  BY QueueAssumption DEF Init, TypeOK, Statuses
<1>2. TypeOK /\ [Next]_vars => TypeOK'
  <2> SUFFICES ASSUME TypeOK, [Next]_vars PROVE TypeOK'
    OBVIOUS
  <2> USE DEF TypeOK, Statuses, errorVars
  <2>1. ASSUME NEW c \in Senders, NEW o \in Orders, Submit(c, o) PROVE TypeOK'
    <3>1. call' \in [Callers -> Calls \cup {NoCall}]
      BY <2>1, BeginType DEF Submit, Begin
    <3>2. row' \in [Orders -> {"none", "pending", "sent", "failed"}] /\ accepted' \in Seq(Orders)
      BY <2>1 DEF Submit
    <3> QED BY <2>1, <3>1, <3>2 DEF Submit
  <2>2. ASSUME NEW c \in Callers, BrokerAnswers(c) PROVE TypeOK'
    <3>1. call[c] \in Calls /\ call[c].order \in Orders
      BY <2>2, InCall DEF BrokerAnswers
    <3> DEFINE o == call[c].order
    <3>2. PICK ans \in Answers, done \in BOOLEAN :
            /\ call' = [call EXCEPT ![c] = [@ EXCEPT !.pc = "answered", !.answer = ans]]
            /\ executed' = [executed EXCEPT ![o] = IF done THEN @ + 1 ELSE @]
            /\ known' = [known EXCEPT ![o] = IF ans = "success" THEN @ + 1 ELSE @]
            /\ lost' = [lost EXCEPT ![o] = IF done /\ ans # "success" THEN @ + 1 ELSE @]
      BY <2>2 DEF BrokerAnswers
    <3>3. call' \in [Callers -> Calls \cup {NoCall}]
      BY <3>1, <3>2, AnsweredType
    <3> HIDE DEF o
    <3>4. executed \in [Orders -> Nat] /\ known \in [Orders -> Nat] /\ lost \in [Orders -> Nat]
      OBVIOUS
    <3>5. executed' \in [Orders -> Nat] /\ known' \in [Orders -> Nat] /\ lost' \in [Orders -> Nat]
      <4>1. done \in BOOLEAN /\ (ans = "success") \in BOOLEAN /\ (done /\ ans # "success") \in BOOLEAN
        OBVIOUS
      <4>2. executed' \in [Orders -> Nat]
        BY ONLY <3>2, <3>4, <4>1, CountedType
      <4>3. known' \in [Orders -> Nat]
        BY ONLY <3>2, <3>4, <4>1, CountedType
      <4>4. lost' \in [Orders -> Nat]
        BY ONLY <3>2, <3>4, <4>1, CountedType
      <4> QED BY <4>2, <4>3, <4>4
    <3>6. UNCHANGED <<row, accepted, phase, todo, results, announced, stops, errorVars>>
      BY <2>2 DEF BrokerAnswers
    <3> QED BY <3>3, <3>5, <3>6
  <2>3. ASSUME NEW c \in Callers, Retry(c) PROVE TypeOK'
    <3>1. call[c] \in Calls /\ call[c].attempt < MaxRetries
      BY <2>3, InCall DEF Retry, Retries
    <3>2. [call[c] EXCEPT !.pc = "sending", !.attempt = @ + 1] \in Calls
      BY <3>1, RetryType
    <3>3. call' \in [Callers -> Calls \cup {NoCall}]
      BY <2>3, <3>2 DEF Retry
    <3> QED BY <2>3, <3>3 DEF Retry
  <2>4. ASSUME NEW c \in Callers, SubmitReturns(c) \/ SubmitRaises(c) PROVE TypeOK'
    <3>1. call[c].order \in Orders
      BY <2>4, InCall DEF SubmitReturns, SubmitRaises
    <3>2. row' \in [Orders -> {"none", "pending", "sent", "failed"}]
      BY <2>4, <3>1 DEF SubmitReturns, SubmitRaises, Resolve, Outcome
    <3>3. /\ call' = [call EXCEPT ![c] = NoCall]
          /\ announced' = announced \cup {call[c].order} \/ announced' = announced
          /\ UNCHANGED <<accepted, executed, phase, todo, results, known, lost, stops, errorVars>>
      BY <2>4 DEF SubmitReturns, SubmitRaises
    <3>4. call' \in [Callers -> Calls \cup {NoCall}] /\ announced' \subseteq Orders
      BY <3>1, <3>3
    <3> QED BY <3>2, <3>3, <3>4
  <2>5. ASSUME ReplayNext PROVE TypeOK'
    <3>1. PICK o \in Orders : Begin(Replayer, o)
      BY <2>5 DEF ReplayNext
    <3>2. call' \in [Callers -> Calls \cup {NoCall}]
      BY <3>1, BeginType DEF Begin
    <3>3. UNCHANGED <<row, accepted, executed, phase, todo, results, announced, known, lost, stops, errorVars>>
      BY <2>5 DEF ReplayNext
    <3> QED BY <3>2, <3>3
  <2>6. ASSUME ReplayReturns \/ ReplayRaises PROVE TypeOK'
    <3>1. call[Replayer].order \in Orders
      BY <2>6, InCall DEF ReplayReturns, ReplayRaises, Callers
    <3>2. row' \in [Orders -> {"none", "pending", "sent", "failed"}]
      BY <2>6, <3>1 DEF ReplayReturns, ReplayRaises, Resolve, Outcome
    <3> QED BY <2>6, <3>1, <3>2 DEF ReplayReturns, ReplayRaises
  <2>7. ASSUME ReplayEnds \/ Start \/ Stop PROVE TypeOK'
    BY <2>7, QueueAssumption DEF ReplayEnds, Start, Stop, GoesDown, PendingRows
  <2>9. ASSUME NEW c \in Callers, OutcomeUnwritten(c)
        PROVE  call[c].order \in Orders /\ unwritten' \in [Orders -> 0..MaxUnwritten]
    <3> DEFINE o == call[c].order
    <3>1. o \in Orders
      BY <2>9, InCall DEF OutcomeUnwritten
    <3>2. /\ unwritten' = [unwritten EXCEPT ![o] = unwritten[o] + 1]
          /\ unwritten[o] < MaxUnwritten /\ unwritten \in [Orders -> 0..MaxUnwritten]
      BY <2>9 DEF OutcomeUnwritten
    <3> HIDE DEF o
    <3>3. unwritten[o] + 1 \in 0..MaxUnwritten
      BY <3>1, <3>2, QueueAssumption
    <3>4. o \in Orders /\ unwritten' \in [Orders -> 0..MaxUnwritten]
      BY <3>1, <3>2, <3>3
    <3> QED BY <3>4 DEF o
  <2>10. ASSUME NEW c \in Senders, SubmitUnwritten(c) PROVE TypeOK'
    <3>1. c \in Callers /\ OutcomeUnwritten(c)
      BY <2>10 DEF SubmitUnwritten, Callers
    <3> QED BY <2>9, <2>10, <3>1 DEF SubmitUnwritten
  <2>11. ASSUME ReplayAborts PROVE TypeOK'
    <3>1. unwritten' \in [Orders -> 0..MaxUnwritten]
      BY <2>9, <2>11 DEF ReplayAborts, Callers
    <3> QED BY <2>11, <3>1 DEF ReplayAborts, GoesDown
  <2>8. ASSUME AllHandled \/ UNCHANGED vars PROVE TypeOK'
    BY <2>8 DEF AllHandled, vars
  <2> QED
    <3>1. ASSUME NEW c \in Callers, SubmitUnwritten(c) PROVE TypeOK'
      BY <2>10, <3>1 DEF SubmitUnwritten
    <3> QED
      BY <2>1, <2>2, <2>3, <2>4, <2>5, <2>6, <2>7, <2>8, <2>11, <3>1 DEF Next, CallStep, ReplayStep
<1> QED BY <1>1, <1>2, PTL DEF Spec

-----------------------------------------------------------------------------
(* No action lets two calls work on one request, or a call work on a row   *)
(* that is not pending.                                                    *)
LEMMA CallsStep ==
  ASSUME TypeOK, CallsInv, TodoInv, [Next]_vars
  PROVE  CallsInv'
<1> USE QueueAssumption DEF CallsInv, Callers
<1>1. ASSUME NEW c \in Senders, NEW o \in Orders, Submit(c, o) PROVE CallsInv'
  <2> DEFINE new == [pc |-> "sending", order |-> o, attempt |-> 1, answer |-> "nothing"]
  <2>1. /\ phase = "running" /\ phase' = phase /\ row[o] = "none"
        /\ row' = [row EXCEPT ![o] = "pending"]
        /\ call' = [call EXCEPT ![c] = new]
    BY <1>1 DEF Submit, Begin
  <2>2. call'[c] = new /\ \A d \in Callers \ {c} : call'[d] = call[d]
    BY <2>1 DEF TypeOK
  <2>3. \A d \in Callers : call[d] # NoCall => call[d].order # o /\ row'[call[d].order] = "pending"
    BY <2>1 DEF TypeOK
  <2>4. row'[o] = "pending"
    BY <2>1 DEF TypeOK
  <2> QED BY <2>1, <2>2, <2>3, <2>4
<1>2. ASSUME NEW c \in Callers, BrokerAnswers(c) \/ Retry(c) PROVE CallsInv'
  <2>1. /\ call[c] # NoCall /\ call'[c] # NoCall /\ call'[c].order = call[c].order
        /\ call'[c].pc \in {"sending", "answered"}
        /\ \A d \in Callers \ {c} : call'[d] = call[d]
    <3>1. call[c] \in Calls /\ call[c] # NoCall
      BY <1>2, InCall DEF BrokerAnswers, Retry
    <3>2. \E n \in Calls : call' = [call EXCEPT ![c] = n] /\ n.order = call[c].order
      <4>1. CASE BrokerAnswers(c)
        <5>1. PICK ans \in Answers : call' = [call EXCEPT ![c] = [@ EXCEPT !.pc = "answered", !.answer = ans]]
          BY <4>1 DEF BrokerAnswers
        <5>2. [call[c] EXCEPT !.pc = "answered", !.answer = ans] \in Calls
          BY <3>1, AnsweredType
        <5>3. [call[c] EXCEPT !.pc = "answered", !.answer = ans].order = call[c].order
          BY <3>1 DEF Calls
        <5> QED BY <5>1, <5>2, <5>3
      <4>2. CASE Retry(c)
        <5>1. call' = [call EXCEPT ![c] = [@ EXCEPT !.pc = "sending", !.attempt = call[c].attempt + 1]]
          BY <4>2 DEF Retry
        <5>2. [call[c] EXCEPT !.pc = "sending", !.attempt = call[c].attempt + 1] \in Calls
          BY <4>2, <3>1, RetryType DEF Retry, Retries
        <5>3. [call[c] EXCEPT !.pc = "sending", !.attempt = call[c].attempt + 1].order = call[c].order
          BY <3>1 DEF Calls
        <5> QED BY <5>1, <5>2, <5>3
      <4> QED BY <1>2, <4>1, <4>2
    <3>3. \A n \in Calls : n # NoCall /\ n.pc \in {"sending", "answered"}
      BY DEF Calls, NoCall
    <3> QED BY <3>1, <3>2, <3>3 DEF TypeOK
  <2>2. UNCHANGED <<row, phase>>
    BY <1>2 DEF BrokerAnswers, Retry
  <2> QED BY <2>1, <2>2
<1>3. ASSUME NEW c \in Callers, call[c] # NoCall, call' = [call EXCEPT ![c] = NoCall],
             \E s \in {"sent", "failed"} : row' = [row EXCEPT ![call[c].order] = s],
             phase' = phase
      PROVE  CallsInv'
  <2>1. call'[c] = NoCall /\ \A d \in Callers \ {c} : call'[d] = call[d]
    BY <1>3 DEF TypeOK
  <2>2. \A d \in Callers \ {c} : call[d] # NoCall => row'[call[d].order] = row[call[d].order]
    BY <1>3 DEF TypeOK
  <2> QED BY <1>3, <2>1, <2>2
<1>4. ASSUME NEW c \in Callers, SubmitReturns(c) \/ SubmitRaises(c) PROVE CallsInv'
  <2>1. call[c] # NoCall
    BY <1>4, InCall DEF SubmitReturns, SubmitRaises
  <2> QED BY <1>3, <1>4, <2>1 DEF SubmitReturns, SubmitRaises, Resolve, Outcome
<1>5. ASSUME ReplayReturns \/ ReplayRaises PROVE CallsInv'
  <2>1. call[Replayer] # NoCall
    BY <1>5, InCall DEF ReplayReturns, ReplayRaises
  <2> QED BY <1>3, <1>5, <2>1 DEF ReplayReturns, ReplayRaises, Resolve, Outcome
<1>6. ASSUME ReplayNext PROVE CallsInv'
  <2>1. PICK o \in Orders : IsOldest(o, todo) /\ Begin(Replayer, o)
    BY <1>6 DEF ReplayNext
  <2> DEFINE new == [pc |-> "sending", order |-> o, attempt |-> 1, answer |-> "nothing"]
  <2>2. call'[Replayer] = new /\ \A d \in Callers \ {Replayer} : call'[d] = call[d]
    BY <2>1 DEF TypeOK, Begin
  <2>3. phase = "replay" /\ UNCHANGED <<row, phase>>
    BY <1>6 DEF ReplayNext
  <2>4. row[o] = "pending"
    BY <2>1, <2>3 DEF TodoInv, PendingRows, IsPending, IsOldest
  <2>5. \A d \in Senders : call[d] = NoCall
    BY <2>3
  <2> QED BY <2>2, <2>3, <2>4, <2>5
<1>7. ASSUME ReplayEnds \/ Start PROVE CallsInv'
  <2>1. UNCHANGED <<row, call>> /\ \A c \in Callers : call[c] = NoCall
    BY <1>7 DEF ReplayEnds, Start
  <2> QED BY <2>1
<1>8. ASSUME Stop \/ ReplayAborts PROVE CallsInv'
  BY <1>8 DEF Stop, ReplayAborts, GoesDown
<1>9. ASSUME AllHandled \/ UNCHANGED vars PROVE CallsInv'
  BY <1>9 DEF AllHandled, vars
<1>10. ASSUME NEW c \in Callers, SubmitUnwritten(c) PROVE CallsInv'
  <2>1. /\ call'[c] = NoCall /\ \A d \in Callers \ {c} : call'[d] = call[d]
        /\ UNCHANGED <<row, phase>>
    BY <1>10 DEF SubmitUnwritten, TypeOK
  <2> QED BY <2>1
<1> QED
  BY <1>10, <1>1, <1>2, <1>4, <1>5, <1>6, <1>7, <1>8, <1>9 DEF Next, CallStep, ReplayStep

(* The replay loop works off the pending rows exactly, ...                 *)
LEMMA TodoStep ==
  ASSUME TypeOK, CallsInv, TodoInv, [Next]_vars
  PROVE  TodoInv'
<1> USE QueueAssumption DEF TodoInv, PendingRows, IsPending
<1>1. ASSUME NEW c \in Senders, NEW o \in Orders, Submit(c, o) PROVE TodoInv'
  BY <1>1 DEF Submit
<1>2. ASSUME NEW c \in Callers, BrokerAnswers(c) \/ Retry(c) PROVE TodoInv'
  BY <1>2 DEF BrokerAnswers, Retry
<1>3. ASSUME NEW c \in Callers, SubmitReturns(c) \/ SubmitRaises(c) PROVE TodoInv'
  <2>1. c \in Senders /\ call[c] # NoCall /\ UNCHANGED <<phase, todo, results>>
    BY <1>3, InCall DEF SubmitReturns, SubmitRaises
  <2>2. phase = "running"
    BY <2>1 DEF CallsInv
  <2> QED BY <2>1, <2>2
<1>4. ASSUME ReplayReturns \/ ReplayRaises PROVE TodoInv'
  <2> DEFINE o == call[Replayer].order
  <2>1. phase = "replay" /\ o \in Orders
    BY <1>4, InCall DEF ReplayReturns, ReplayRaises, CallsInv, Callers
  <2>2. phase' = phase /\ todo' = todo \ {o}
    BY <1>4 DEF ReplayReturns, ReplayRaises
  <2>3. \E s \in {"sent", "failed"} : row' = [row EXCEPT ![o] = s]
    BY <1>4 DEF ReplayReturns, ReplayRaises, Resolve, Outcome
  <2> QED BY <2>1, <2>2, <2>3 DEF TypeOK
<1>5. ASSUME ReplayNext PROVE TodoInv'
  BY <1>5 DEF ReplayNext
<1>6. ASSUME ReplayEnds \/ Start \/ Stop \/ ReplayAborts PROVE TodoInv'
  BY <1>6 DEF ReplayEnds, Start, Stop, ReplayAborts, GoesDown
<1>7. ASSUME AllHandled \/ UNCHANGED vars PROVE TodoInv'
  BY <1>7 DEF AllHandled, vars
<1>8. ASSUME NEW c \in Callers, SubmitUnwritten(c) PROVE TodoInv'
  BY <1>8 DEF SubmitUnwritten
<1> QED
  BY <1>8, <1>1, <1>2, <1>3, <1>4, <1>5, <1>6, <1>7 DEF Next, CallStep, ReplayStep

(* ... so that no pending row is left behind when it ends; and while the   *)
(* engine runs, a row becomes pending and stops being so with its call.    *)
LEMMA UnderwayStep ==
  ASSUME TypeOK, CallsInv, TodoInv, PendingIsUnderway, [Next]_vars
  PROVE  PendingIsUnderway'
<1> USE QueueAssumption DEF PendingIsUnderway, Callers
<1>1. ASSUME NEW c \in Senders, NEW o \in Orders, Submit(c, o) PROVE PendingIsUnderway'
  <2>1. /\ row' = [row EXCEPT ![o] = "pending"] /\ phase = "running" /\ call[c] = NoCall
        /\ call'[c].order = o /\ \A d \in Callers \ {c} : call'[d] = call[d]
        /\ stranded' = stranded
    BY <1>1 DEF Submit, Begin, TypeOK, errorVars
  <2>2. NoCall.order \notin Orders
    BY DEF NoCall
  <2>3. ASSUME NEW p \in Orders, row'[p] = "pending", p \notin stranded'
        PROVE  \E d \in Senders : call'[d].order = p
    <3>1. CASE p = o
      BY <2>1, <3>1
    <3>2. CASE p # o
      <4>1. PICK d \in Senders : call[d].order = p
        BY <2>1, <2>3, <3>2 DEF TypeOK
      <4>2. d # c
        BY <2>1, <2>2, <4>1
      <4> QED BY <2>1, <4>1, <4>2
    <3> QED BY <3>1, <3>2
  <2> QED BY <2>3
<1>2. ASSUME NEW c \in Callers, BrokerAnswers(c) \/ Retry(c) PROVE PendingIsUnderway'
  <2>1. call[c] \in Calls
    BY <1>2, InCall DEF BrokerAnswers, Retry
  <2>2. \A d \in Callers \ {c} : call'[d] = call[d]
    BY <1>2 DEF BrokerAnswers, Retry, TypeOK
  <2>3. call'[c].order = call[c].order
    <3>1. CASE BrokerAnswers(c)
      BY <2>1, <3>1 DEF BrokerAnswers, TypeOK, Calls
    <3>2. CASE Retry(c)
      BY <2>1, <3>2 DEF Retry, TypeOK, Calls
    <3> QED BY <1>2, <3>1, <3>2
  <2>4. \A d \in Senders : call'[d].order = call[d].order
    BY <2>2, <2>3
  <2>5. UNCHANGED <<row, phase, stranded>>
    BY <1>2 DEF BrokerAnswers, Retry, errorVars
  <2> QED BY <2>4, <2>5
<1>3. ASSUME NEW c \in Callers, SubmitReturns(c) \/ SubmitRaises(c) PROVE PendingIsUnderway'
  <2>1. /\ c \in Senders /\ call[c].order \in Orders /\ phase' = phase /\ stranded' = stranded
        /\ \A d \in Callers \ {c} : call'[d] = call[d]
    BY <1>3, InCall DEF SubmitReturns, SubmitRaises, TypeOK, errorVars
  <2>2. \E s \in {"sent", "failed"} : row' = [row EXCEPT ![call[c].order] = s]
    BY <1>3 DEF SubmitReturns, SubmitRaises, Resolve, Outcome
  <2>3. ASSUME phase = "running", NEW p \in Orders, row'[p] = "pending", p \notin stranded'
        PROVE  \E d \in Senders : call'[d].order = p
    <3>1. p # call[c].order /\ row[p] = "pending"
      BY <2>1, <2>2, <2>3 DEF TypeOK
    <3>2. PICK d \in Senders : call[d].order = p
      BY <2>1, <2>3, <3>1
    <3> QED BY <2>1, <3>1, <3>2
  <2> QED BY <2>1, <2>3
<1>4. ASSUME ReplayReturns \/ ReplayRaises \/ ReplayNext PROVE PendingIsUnderway'
  <2>1. phase = "replay" /\ phase' = phase
    BY <1>4, InCall DEF ReplayReturns, ReplayRaises, ReplayNext, CallsInv
  <2> QED BY <2>1
<1>5. ASSUME ReplayEnds \/ Start \/ Stop \/ ReplayAborts PROVE PendingIsUnderway'
  BY <1>5 DEF ReplayEnds, Start, Stop, ReplayAborts, GoesDown, TodoInv, PendingRows, IsPending
<1>6. ASSUME AllHandled \/ UNCHANGED vars PROVE PendingIsUnderway'
  BY <1>6 DEF AllHandled, vars, errorVars
<1>7. ASSUME NEW c \in Callers, SubmitUnwritten(c) PROVE PendingIsUnderway'
  <2>1. /\ c \in Senders /\ stranded' = stranded \cup {call[c].order} /\ UNCHANGED <<row, phase>>
        /\ \A d \in Callers \ {c} : call'[d] = call[d]
    BY <1>7 DEF SubmitUnwritten, TypeOK
  <2> QED BY <2>1
<1> QED
  BY <1>7, <1>1, <1>2, <1>3, <1>4, <1>5, <1>6 DEF Next, CallStep, ReplayStep

(* A successful answer is one of an execution, and a stopped process has   *)
(* executed nothing since its start.                                       *)
LEMMA RunStep ==
  ASSUME TypeOK, CallsInv, RunInv, [Next]_vars
  PROVE  RunInv'
<1> USE QueueAssumption DEF RunInv, Callers
<1>1. ASSUME NEW c \in Senders, NEW o \in Orders, Submit(c, o) PROVE RunInv'
  <2>1. /\ call[c] = NoCall /\ call'[c].pc = "sending" /\ UNCHANGED <<executed, known, phase>>
        /\ \A d \in Callers \ {c} : call'[d] = call[d]
    BY <1>1 DEF Submit, Begin, TypeOK
  <2>2. \A p \in Orders : Succeeded(p)' => Succeeded(p)
    BY <2>1 DEF Succeeded
  <2> QED BY <2>1, <2>2
<1>2. ASSUME NEW c \in Callers, BrokerAnswers(c) PROVE RunInv'
  <2> DEFINE o == call[c].order
  <2>1. call[c] \in Calls /\ o \in Orders /\ call[c] # NoCall
    BY <1>2, InCall DEF BrokerAnswers
  <2>2. PICK ans \in Answers, done \in BOOLEAN :
          /\ ans = "success" => done
          /\ call' = [call EXCEPT ![c] = [@ EXCEPT !.pc = "answered", !.answer = ans]]
          /\ executed' = [executed EXCEPT ![o] = IF done THEN @ + 1 ELSE @]
          /\ known' = [known EXCEPT ![o] = IF ans = "success" THEN @ + 1 ELSE @]
          /\ lost' = [lost EXCEPT ![o] = IF done /\ ans # "success" THEN @ + 1 ELSE @]
    BY <1>2 DEF BrokerAnswers
  <2>3. /\ call'[c].order = o /\ call'[c].answer = ans
        /\ \A d \in Callers \ {c} : call'[d] = call[d]
    BY <2>1, <2>2 DEF TypeOK, Calls
  <2>4. phase' = phase /\ phase # "down"
    BY <1>2, <2>1 DEF BrokerAnswers, CallsInv
  <2>5. \A p \in Orders : executed[p] \in Nat /\ executed'[p] \in Nat /\ executed'[p] >= executed[p]
    BY <2>1, <2>2 DEF TypeOK
  <2>6. ASSUME NEW p \in Orders, Succeeded(p)' PROVE executed'[p] > 0
    <3>1. CASE p = o /\ ans = "success"
      BY <2>1, <2>2, <2>5, <3>1 DEF TypeOK
    <3>2. CASE ~(p = o /\ ans = "success")
      <4>1. Succeeded(p)
        BY <2>3, <2>6, <3>2 DEF Succeeded
      <4> QED BY <2>5, <4>1
    <3> QED BY <3>1, <3>2
  <2> QED BY <2>4, <2>6
<1>3. ASSUME NEW c \in Callers, Retry(c) PROVE RunInv'
  <2>1. /\ call'[c].pc = "sending" /\ UNCHANGED <<executed, known, phase>>
        /\ \A d \in Callers \ {c} : call'[d] = call[d]
    BY <1>3, InCall DEF Retry, TypeOK, Calls
  <2>2. \A p \in Orders : Succeeded(p)' => Succeeded(p)
    BY <2>1 DEF Succeeded
  <2> QED BY <2>1, <2>2
<1>4. ASSUME NEW c \in Callers, SubmitReturns(c) \/ SubmitRaises(c) \/ SubmitUnwritten(c)
      PROVE  RunInv'
  <2>1. /\ call'[c] = NoCall /\ UNCHANGED <<executed, known, phase>>
        /\ \A d \in Callers \ {c} : call'[d] = call[d]
    BY <1>4 DEF SubmitReturns, SubmitRaises, SubmitUnwritten, TypeOK
  <2>2. \A p \in Orders : Succeeded(p)' => Succeeded(p)
    BY <2>1 DEF Succeeded
  <2> QED BY <2>1, <2>2
<1>5. ASSUME ReplayReturns \/ ReplayRaises PROVE RunInv'
  <2>1. /\ call'[Replayer] = NoCall /\ UNCHANGED <<executed, known, phase>>
        /\ \A d \in Callers \ {Replayer} : call'[d] = call[d]
    BY <1>5 DEF ReplayReturns, ReplayRaises, TypeOK
  <2>2. \A p \in Orders : Succeeded(p)' => Succeeded(p)
    BY <2>1 DEF Succeeded
  <2> QED BY <2>1, <2>2
<1>6. ASSUME ReplayNext PROVE RunInv'
  <2>1. /\ call'[Replayer].pc = "sending" /\ UNCHANGED <<executed, known, phase>>
        /\ \A d \in Callers \ {Replayer} : call'[d] = call[d]
    BY <1>6 DEF ReplayNext, Begin, TypeOK
  <2>2. \A p \in Orders : Succeeded(p)' => Succeeded(p)
    BY <2>1 DEF Succeeded
  <2> QED BY <2>1, <2>2
<1>7. ASSUME ReplayEnds \/ Start PROVE RunInv'
  BY <1>7 DEF ReplayEnds, Start, Succeeded
<1>8. ASSUME Stop \/ ReplayAborts PROVE RunInv'
  BY <1>8 DEF Stop, ReplayAborts, GoesDown, Succeeded
<1>9. ASSUME AllHandled \/ UNCHANGED vars PROVE RunInv'
  BY <1>9 DEF AllHandled, vars, Succeeded
<1> QED
  BY <1>1, <1>2, <1>3, <1>4, <1>5, <1>6, <1>7, <1>8, <1>9 DEF Next, CallStep, ReplayStep

(* An outcome that is not written leaves its row as it was, and is counted *)
(* for its own request.                                                    *)
LEMMA Unwritten ==
  ASSUME TypeOK, CallsInv, NEW c \in Callers, OutcomeUnwritten(c)
  PROVE  /\ call[c] # NoCall /\ call[c].order \in Orders /\ row[call[c].order] = "pending"
         /\ unwritten'[call[c].order] = unwritten[call[c].order] + 1
         /\ \A p \in Orders \ {call[c].order} : unwritten'[p] = unwritten[p]
<1>1. call[c] # NoCall /\ call[c].order \in Orders /\ row[call[c].order] = "pending"
  BY InCall DEF OutcomeUnwritten, CallsInv
<1> QED BY <1>1 DEF OutcomeUnwritten, TypeOK

(* A stranded request is neither sent nor resolved before a stop.          *)
LEMMA StrandedStep ==
  ASSUME TypeOK, CallsInv, TodoInv, StrandedInv, [Next]_vars
  PROVE  StrandedInv'
<1> USE QueueAssumption DEF StrandedInv, Callers
<1>1. ASSUME NEW c \in Senders, NEW o \in Orders, Submit(c, o) PROVE StrandedInv'
  <2>1. /\ row' = [row EXCEPT ![o] = "pending"] /\ row[o] = "none" /\ call'[c].order = o
        /\ \A d \in Callers \ {c} : call'[d] = call[d]
        /\ UNCHANGED <<phase, stranded, unwritten>>
    BY <1>1 DEF Submit, Begin, TypeOK, errorVars
  <2>2. \A p \in stranded : p # o /\ row'[p] = "pending"
    BY <2>1 DEF TypeOK
  <2> QED BY <2>1, <2>2
<1>2. ASSUME NEW c \in Callers, BrokerAnswers(c) \/ Retry(c) PROVE StrandedInv'
  <2>1. call[c] \in Calls /\ call[c] # NoCall
    BY <1>2, InCall DEF BrokerAnswers, Retry
  <2>2. \A d \in Callers \ {c} : call'[d] = call[d]
    BY <1>2 DEF BrokerAnswers, Retry, TypeOK
  <2>3. call'[c].order = call[c].order
    <3>1. CASE BrokerAnswers(c)
      BY <2>1, <3>1 DEF BrokerAnswers, TypeOK, Calls
    <3>2. CASE Retry(c)
      BY <2>1, <3>2 DEF Retry, TypeOK, Calls
    <3> QED BY <1>2, <3>1, <3>2
  <2>4. UNCHANGED <<row, phase, stranded, unwritten>>
    BY <1>2 DEF BrokerAnswers, Retry, errorVars
  <2> QED BY <2>1, <2>2, <2>3, <2>4
<1>3. ASSUME NEW c \in Callers, call[c] # NoCall, call' = [call EXCEPT ![c] = NoCall],
             \E s \in {"sent", "failed"} : row' = [row EXCEPT ![call[c].order] = s],
             UNCHANGED <<phase, stranded, unwritten>>
      PROVE  StrandedInv'
  <2>1. call'[c] = NoCall /\ \A d \in Callers \ {c} : call'[d] = call[d]
    BY <1>3 DEF TypeOK
  <2>2. \A p \in stranded : row'[p] = "pending"
    BY <1>3 DEF TypeOK
  <2> QED BY <1>3, <2>1, <2>2
<1>4. ASSUME NEW c \in Callers, SubmitReturns(c) \/ SubmitRaises(c) PROVE StrandedInv'
  <2>1. call[c] # NoCall
    BY <1>4, InCall DEF SubmitReturns, SubmitRaises
  <2> QED BY <1>3, <1>4, <2>1 DEF SubmitReturns, SubmitRaises, Resolve, Outcome, errorVars
<1>5. ASSUME ReplayReturns \/ ReplayRaises PROVE StrandedInv'
  <2>1. call[Replayer] # NoCall
    BY <1>5, InCall DEF ReplayReturns, ReplayRaises
  <2> QED BY <1>3, <1>5, <2>1 DEF ReplayReturns, ReplayRaises, Resolve, Outcome, errorVars
<1>6. ASSUME NEW c \in Callers, SubmitUnwritten(c) PROVE StrandedInv'
  <2> DEFINE o == call[c].order
  <2>1. /\ c \in Senders /\ stranded' = stranded \cup {o} /\ UNCHANGED <<row, phase>>
        /\ call'[c] = NoCall /\ \A d \in Callers \ {c} : call'[d] = call[d]
        /\ OutcomeUnwritten(c)
    BY <1>6 DEF SubmitUnwritten, TypeOK
  <2>2. /\ call[c] # NoCall /\ o \in Orders /\ row[o] = "pending"
        /\ unwritten'[o] = unwritten[o] + 1
        /\ \A p \in Orders \ {o} : unwritten'[p] = unwritten[p]
    BY <2>1, Unwritten
  <2>3. phase = "running"
    BY <2>1, <2>2 DEF CallsInv
  <2>4. \A d \in Callers : call'[d] # NoCall => call'[d].order # o
    BY <2>1, <2>2 DEF CallsInv
  <2>5. unwritten[o] \in Nat /\ stranded \subseteq Orders
    BY <2>2 DEF TypeOK
  <2> QED BY <2>1, <2>2, <2>3, <2>4, <2>5
<1>7. ASSUME ReplayNext PROVE StrandedInv'
  <2>1. stranded = {} /\ stranded' = {}
    BY <1>7 DEF ReplayNext, errorVars
  <2> QED BY <2>1
<1>8. ASSUME ReplayEnds \/ Start PROVE StrandedInv'
  BY <1>8 DEF ReplayEnds, Start, errorVars
<1>9. ASSUME Stop \/ ReplayAborts PROVE StrandedInv'
  BY <1>9 DEF Stop, ReplayAborts, GoesDown
<1>10. ASSUME AllHandled \/ UNCHANGED vars PROVE StrandedInv'
  BY <1>10 DEF AllHandled, vars, errorVars
<1> QED
  BY <1>1, <1>2, <1>4, <1>5, <1>6, <1>7, <1>8, <1>9, <1>10 DEF Next, CallStep, ReplayStep

(* One run of the process is told of one execution of a request at most,   *)
(* and publishes what it was told.                                         *)
LEMMA OnceStep ==
  ASSUME TypeOK, TypeOK', CallsInv, TodoInv, RunInv, StrandedInv, OnceInv, [Next]_vars
  PROVE  OnceInv'
<1> SUFFICES ASSUME NEW p \in Orders
             PROVE  /\ known'[p] <= 1
                    /\ executed'[p] <= 1 + stops' + lost'[p] + unwritten'[p]
                    /\ (row'[p] \in {"none", "pending"} /\ known'[p] = 0)
                         => executed'[p] <= stops' + lost'[p] + unwritten'[p]
                    /\ (row'[p] \in {"none", "pending"} /\ ~Succeeded(p)' /\ p \notin stranded')
                         => known'[p] = 0
                    /\ (known'[p] > 0 /\ row'[p] # "pending") => p \in announced' \cup results'
  BY DEF OnceInv
<1> DEFINE Goal == /\ known'[p] <= 1
                   /\ executed'[p] <= 1 + stops' + lost'[p] + unwritten'[p]
                   /\ (row'[p] \in {"none", "pending"} /\ known'[p] = 0)
                        => executed'[p] <= stops' + lost'[p] + unwritten'[p]
                   /\ (row'[p] \in {"none", "pending"} /\ ~Succeeded(p)' /\ p \notin stranded')
                        => known'[p] = 0
                   /\ (known'[p] > 0 /\ row'[p] # "pending") => p \in announced' \cup results'
<1> USE QueueAssumption DEF Callers
<1>a. /\ known[p] \in Nat /\ known'[p] \in Nat /\ executed[p] \in Nat /\ stops \in Nat
      /\ lost[p] \in Nat /\ lost'[p] \in Nat
      /\ unwritten[p] \in Nat /\ unwritten'[p] \in Nat
      /\ known[p] <= 1 /\ executed[p] <= 1 + stops + lost[p] + unwritten[p]
      /\ (row[p] \in {"none", "pending"} /\ known[p] = 0)
           => executed[p] <= stops + lost[p] + unwritten[p]
      /\ (row[p] \in {"none", "pending"} /\ ~Succeeded(p) /\ p \notin stranded) => known[p] = 0
      /\ (known[p] > 0 /\ row[p] # "pending") => p \in announced \cup results
  BY DEF OnceInv, TypeOK
<1>1. ASSUME NEW c \in Senders, NEW o \in Orders, Submit(c, o) PROVE Goal
  <2>1. /\ call[c] = NoCall /\ UNCHANGED <<executed, known, lost, stops, announced, results>>
        /\ row[o] = "none" /\ row' = [row EXCEPT ![o] = "pending"]
        /\ \A d \in Callers \ {c} : call'[d] = call[d]
        /\ UNCHANGED <<stranded, unwritten>>
    BY <1>1 DEF Submit, Begin, TypeOK, errorVars
  <2>2. Succeeded(p) => Succeeded(p)'
    BY <2>1 DEF Succeeded
  <2>3. row[p] = "none" => ~Succeeded(p) /\ p \notin stranded
    BY DEF Succeeded, CallsInv, StrandedInv
  <2>4. CASE p = o
    BY <1>a, <2>1, <2>3, <2>4 DEF TypeOK
  <2>5. CASE p # o
    BY <1>a, <2>1, <2>2, <2>5 DEF TypeOK
  <2> QED BY <2>4, <2>5
<1>2. ASSUME NEW c \in Callers, BrokerAnswers(c) PROVE Goal
  <2> DEFINE o == call[c].order
  <2>1. call[c] \in Calls /\ o \in Orders /\ call[c] # NoCall /\ call[c].pc = "sending"
    BY <1>2, InCall DEF BrokerAnswers
  <2>2. PICK ans \in Answers, done \in BOOLEAN :
          /\ ans = "success" => done
          /\ call' = [call EXCEPT ![c] = [@ EXCEPT !.pc = "answered", !.answer = ans]]
          /\ executed' = [executed EXCEPT ![o] = IF done THEN @ + 1 ELSE @]
          /\ known' = [known EXCEPT ![o] = IF ans = "success" THEN @ + 1 ELSE @]
          /\ lost' = [lost EXCEPT ![o] = IF done /\ ans # "success" THEN @ + 1 ELSE @]
    BY <1>2 DEF BrokerAnswers
  <2>a. call' = [call EXCEPT ![c] = [@ EXCEPT !.pc = "answered", !.answer = ans]]
    BY <2>2
  <2>3. /\ call'[c].order = o /\ call'[c].answer = ans /\ call'[c].pc = "answered"
        /\ call'[c] # NoCall
        /\ \A d \in Callers \ {c} : call'[d] = call[d]
    BY <2>1, <2>a DEF TypeOK, Calls, NoCall
  <2>4. UNCHANGED <<row, stops, announced, results, stranded, unwritten>>
    BY <1>2 DEF BrokerAnswers, errorVars
  <2>5. CASE p = o
    <3>1. row[o] = "pending" /\ ~Succeeded(o) /\ o \notin stranded
      BY <2>1 DEF CallsInv, Succeeded, StrandedInv
    <3>2. known[o] = 0 /\ known'[o] = (IF ans = "success" THEN 1 ELSE 0)
      <4>1. known[o] = 0
        BY <1>a, <2>5, <3>1
      <4>2. known'[o] = IF ans = "success" THEN known[o] + 1 ELSE known[o]
        BY <2>1, <2>2 DEF TypeOK
      <4> QED BY <4>1, <4>2
    <3>3. /\ executed'[o] = (IF done THEN executed[o] + 1 ELSE executed[o])
          /\ lost'[o] = (IF done /\ ans # "success" THEN lost[o] + 1 ELSE lost[o])
      BY <2>1, <2>2 DEF TypeOK
    <3>4. ans = "success" => Succeeded(p)'
      BY <2>1, <2>2, <2>3, <2>5 DEF Succeeded
    <3>5. CASE ans = "success"
      BY <2>2, <1>a, <2>4, <2>5, <3>1, <3>2, <3>3, <3>4, <3>5
    <3>6. CASE ans # "success"
      BY <1>a, <2>4, <2>5, <3>1, <3>2, <3>3, <3>6
    <3> QED BY <3>5, <3>6
  <2>6. CASE p # o
    <3>1. executed'[p] = executed[p] /\ known'[p] = known[p] /\ lost'[p] = lost[p]
      BY <2>1, <2>2, <2>6 DEF TypeOK
    <3>2. Succeeded(p) => Succeeded(p)'
      BY <2>3, <2>6 DEF Succeeded
    <3> QED BY <1>a, <2>4, <3>1, <3>2
  <2> QED BY <2>5, <2>6
<1>3. ASSUME NEW c \in Callers, Retry(c) PROVE Goal
  <2>1. /\ call[c].answer # "success" /\ UNCHANGED <<row, executed, known, lost, stops, announced, results>>
        /\ \A d \in Callers \ {c} : call'[d] = call[d]
        /\ UNCHANGED <<stranded, unwritten>>
    BY <1>3 DEF Retry, Retries, TypeOK, errorVars
  <2>2. Succeeded(p) => Succeeded(p)'
    BY <2>1 DEF Succeeded
  <2> QED BY <1>a, <2>1, <2>2
<1>4. ASSUME NEW c \in Callers, call[c] # NoCall,
             NEW s \in {"sent", "failed"}, row' = [row EXCEPT ![call[c].order] = s],
             call' = [call EXCEPT ![c] = NoCall],
             UNCHANGED <<executed, known, lost, stops, stranded, unwritten>>,
             announced \cup results \subseteq announced' \cup results',
             known[call[c].order] > 0 => call[c].order \in announced' \cup results'
      PROVE  Goal
  <2>1. call[c].order \in Orders /\ \A d \in Callers \ {c} : call'[d] = call[d]
    BY <1>4 DEF TypeOK, CallsInv
  <2>2. CASE p = call[c].order
    BY <1>a, <1>4, <2>1, <2>2 DEF TypeOK
  <2>3. CASE p # call[c].order
    <3>1. Succeeded(p) => Succeeded(p)'
      BY <2>1, <2>3 DEF Succeeded
    <3> QED BY <1>a, <1>4, <2>1, <2>3, <3>1 DEF TypeOK
  <2> QED BY <2>2, <2>3
<1>5. ASSUME NEW c \in Callers, call[c].pc = "sending" PROVE known[call[c].order] = 0
  <2>1. call[c].order \in Orders /\ call[c] # NoCall /\ row[call[c].order] = "pending"
    BY <1>5, InCall DEF CallsInv
  <2>2. ~Succeeded(call[c].order)
    BY <1>5, <2>1 DEF Succeeded, CallsInv
  <2>3. call[c].order \notin stranded
    BY <2>1 DEF StrandedInv
  <2> QED BY <2>1, <2>2, <2>3 DEF OnceInv
<1>6. ASSUME NEW c \in Callers, SubmitReturns(c) \/ SubmitRaises(c) PROVE Goal
  <2>1. call[c] # NoCall
    BY <1>6, InCall DEF SubmitReturns, SubmitRaises
  <2>2. CASE SubmitReturns(c)
    BY <1>4, <2>1, <2>2 DEF SubmitReturns, Resolve, Outcome, errorVars
  <2>3. CASE SubmitRaises(c)
    <3>1. known[call[c].order] = 0
      BY <1>5, <2>3 DEF SubmitRaises
    <3>2. /\ row' = [row EXCEPT ![call[c].order] = "failed"] /\ call' = [call EXCEPT ![c] = NoCall]
          /\ UNCHANGED <<executed, known, lost, stops, stranded, unwritten>>
          /\ announced \cup results \subseteq announced' \cup results'
      BY <2>3 DEF SubmitRaises, errorVars
    <3>3. ~(known[call[c].order] > 0)
      BY <3>1
    <3> QED BY <1>4, <2>1, <3>2, <3>3
  <2> QED BY <1>6, <2>2, <2>3
<1>7. ASSUME ReplayReturns \/ ReplayRaises PROVE Goal
  <2>1. call[Replayer] # NoCall
    BY <1>7, InCall DEF ReplayReturns, ReplayRaises
  <2>2. CASE ReplayReturns
    BY <1>4, <2>1, <2>2 DEF ReplayReturns, Resolve, Outcome, errorVars
  <2>3. CASE ReplayRaises
    <3>1. known[call[Replayer].order] = 0
      BY <1>5, <2>3 DEF ReplayRaises
    <3>2. /\ row' = [row EXCEPT ![call[Replayer].order] = "failed"]
          /\ call' = [call EXCEPT ![Replayer] = NoCall]
          /\ UNCHANGED <<executed, known, lost, stops, stranded, unwritten>>
          /\ announced \cup results \subseteq announced' \cup results'
      BY <2>3 DEF ReplayRaises, errorVars
    <3>3. ~(known[call[Replayer].order] > 0)
      BY <3>1
    <3> QED BY <1>4, <2>1, <3>2, <3>3
  <2> QED BY <1>7, <2>2, <2>3
<1>8. ASSUME ReplayNext PROVE Goal
  <2>1. /\ call[Replayer] = NoCall /\ UNCHANGED <<row, executed, known, lost, stops, announced, results>>
        /\ \A d \in Callers \ {Replayer} : call'[d] = call[d]
        /\ UNCHANGED <<stranded, unwritten>>
    BY <1>8 DEF ReplayNext, Begin, TypeOK, errorVars
  <2>2. Succeeded(p) => Succeeded(p)'
    BY <2>1 DEF Succeeded
  <2> QED BY <1>a, <2>1, <2>2
<1>9. ASSUME ReplayEnds \/ Start PROVE Goal
  BY <1>9, <1>a DEF ReplayEnds, Start, Succeeded, errorVars
<1>10. ASSUME Stop PROVE Goal
  BY <1>10, <1>a DEF Stop, GoesDown, TypeOK
<1>11. ASSUME AllHandled \/ UNCHANGED vars PROVE Goal
  BY <1>11, <1>a DEF AllHandled, vars, Succeeded, errorVars
<1>12. ASSUME NEW c \in Callers, SubmitUnwritten(c) PROVE Goal
  <2> DEFINE o == call[c].order
  <2>1. /\ OutcomeUnwritten(c) /\ stranded' = stranded \cup {o}
        /\ UNCHANGED <<row, executed, known, lost, stops, announced, results>>
        /\ \A d \in Callers \ {c} : call'[d] = call[d]
    BY <1>12 DEF SubmitUnwritten, TypeOK
  <2>2. /\ o \in Orders /\ unwritten'[o] = unwritten[o] + 1
        /\ \A q \in Orders \ {o} : unwritten'[q] = unwritten[q]
    BY <2>1, Unwritten
  <2>3. unwritten'[p] >= unwritten[p]
    BY <1>a, <2>2
  <2>4. Succeeded(p) => Succeeded(p)' \/ p = o
    BY <2>1 DEF Succeeded
  <2> QED BY <1>a, <2>1, <2>3, <2>4
<1>13. ASSUME ReplayAborts PROVE Goal
  <2>1. /\ phase = "replay" /\ known'[p] = 0 /\ UNCHANGED <<row, executed, lost, stops>>
        /\ (UNCHANGED unwritten /\ call[Replayer] = NoCall) \/ OutcomeUnwritten(Replayer)
    BY <1>13 DEF ReplayAborts, GoesDown
  <2>2. stranded = {} /\ \A d \in Senders : call[d] = NoCall
    BY <2>1 DEF StrandedInv, CallsInv
  <2>3. CASE UNCHANGED unwritten /\ call[Replayer] = NoCall
    <3>1. ~Succeeded(p)
      BY <2>2, <2>3 DEF Succeeded
    <3> QED BY <1>a, <2>1, <2>2, <2>3, <3>1
  <2>4. CASE OutcomeUnwritten(Replayer)
    <3> DEFINE o == call[Replayer].order
    <3>1. /\ o \in Orders /\ unwritten'[o] = unwritten[o] + 1
          /\ \A q \in Orders \ {o} : unwritten'[q] = unwritten[q]
      BY <2>4, Unwritten
    <3>2. CASE p = o
      BY <1>a, <2>1, <3>1, <3>2
    <3>3. CASE p # o
      <4>1. ~Succeeded(p)
        BY <2>2, <3>3 DEF Succeeded
      <4> QED BY <1>a, <2>1, <2>2, <3>1, <3>3, <4>1
    <3> QED BY <3>2, <3>3
  <2> QED BY <2>1, <2>3, <2>4
<1> QED
  BY <1>12, <1>13, <1>1, <1>2, <1>3, <1>6, <1>7, <1>8, <1>9, <1>10, <1>11 DEF Next, CallStep, ReplayStep

-----------------------------------------------------------------------------
(* The inductive invariant holds in every reachable state.                 *)
THEOREM Inductive == Spec => []IInv
<1>1. Init => IInv
  <2> SUFFICES ASSUME Init PROVE IInv
    OBVIOUS
  <2>1. TypeOK
    BY QueueAssumption DEF Init, TypeOK, Statuses
  <2>2. CallsInv /\ TodoInv /\ PendingIsUnderway
    BY QueueAssumption DEF Init, CallsInv, TodoInv, PendingIsUnderway, Callers
  <2>3. RunInv /\ StrandedInv
    BY DEF Init, RunInv, StrandedInv, Succeeded
  <2>4. OnceInv
    BY QueueAssumption DEF Init, OnceInv, Succeeded
  <2> QED BY <2>1, <2>2, <2>3, <2>4 DEF IInv
<1>2. IInv /\ TypeOK' /\ [Next]_vars => IInv'
  BY CallsStep, TodoStep, UnderwayStep, RunStep, StrandedStep, OnceStep DEF IInv
<1> QED BY <1>1, <1>2, TypeCorrect, PTL DEF Spec

(* While the engine runs, every pending row has a task working on it or is *)
(* one whose outcome could not be written in this run: no other error path *)
(* and no replay of order_queue.py leaves one behind.                      *)
THEOREM NoneLeftBehind == Spec => []PendingIsUnderway
<1>1. IInv => PendingIsUnderway
  BY DEF IInv
<1> QED BY <1>1, Inductive, PTL

(* One run of the process is told of one execution of a request at most,   *)
(* a second execution needs a stop, a lost answer or an outcome that could *)
(* not be written, and what a run was told of is announced in it: the      *)
(* retry loop and the replay of order_queue.py.                            *)
THEOREM ExecutionsCounted == Spec => []ExecutionsAccounted
<1>1. IInv => OncePerRun
  BY DEF IInv, OnceInv, OncePerRun
<1>2. IInv => DuplicatesNeedStops
  <2> SUFFICES ASSUME IInv, NEW o \in Orders PROVE executed[o] <= 1 + stops + lost[o] + unwritten[o]
    BY DEF DuplicatesNeedStops
  <2> QED BY DEF IInv, OnceInv
<1>3. IInv => ExecutedIsAnnounced
  BY DEF IInv, OnceInv, TodoInv, ExecutedIsAnnounced
<1>4. IInv => ExecutionsAccounted
  BY <1>1, <1>2, <1>3 DEF ExecutionsAccounted
<1> QED BY <1>4, Inductive, PTL

(* Unless the engine runs, no row becomes pending.                         *)
LEMMA Kept ==
  ASSUME TypeOK, CallsInv, [Next]_vars, phase' # "running", NEW o \in Orders, row'[o] = "pending"
  PROVE  row[o] = "pending"
<1>1. ASSUME NEW c \in Callers, call[c].order \in Orders,
             \E s \in {"sent", "failed"} : row' = [row EXCEPT ![call[c].order] = s]
      PROVE  row[o] = "pending"
  BY <1>1 DEF TypeOK
<1>2. ASSUME NEW c \in Callers, SubmitReturns(c) \/ SubmitRaises(c) PROVE row[o] = "pending"
  BY <1>1, <1>2, InCall DEF SubmitReturns, SubmitRaises, Resolve, Outcome
<1>3. ASSUME ReplayReturns \/ ReplayRaises PROVE row[o] = "pending"
  <2>1. Replayer \in Callers
    BY DEF Callers
  <2> QED BY <1>1, <1>3, <2>1, InCall DEF ReplayReturns, ReplayRaises, Resolve, Outcome
<1>4. ASSUME NEW c \in Senders, NEW p \in Orders, Submit(c, p) PROVE row[o] = "pending"
  BY <1>4 DEF Submit
<1>5. ASSUME \/ \E c \in Callers : BrokerAnswers(c) \/ Retry(c)
             \/ \E c \in Callers : SubmitUnwritten(c)
             \/ ReplayNext \/ ReplayAborts \/ ReplayEnds \/ Start \/ Stop
             \/ AllHandled \/ UNCHANGED vars
      PROVE  row[o] = "pending"
  BY <1>5 DEF BrokerAnswers, Retry, SubmitUnwritten, ReplayNext, ReplayAborts, ReplayEnds, Start,
              Stop, AllHandled, vars
<1> QED BY <1>2, <1>3, <1>4, <1>5 DEF Next, CallStep, ReplayStep

(* Outcomes that were not written are counted, and stay so.                *)
LEMMA StaysWritten ==
  ASSUME TypeOK, TypeOK', CallsInv, [Next]_vars, NEW o \in Orders, unwritten'[o] = 0
  PROVE  unwritten[o] = 0
<1>1. ASSUME NEW c \in Callers, OutcomeUnwritten(c) PROVE unwritten[o] = 0
  <2>1. unwritten'[o] = unwritten[o] \/ unwritten'[o] = unwritten[o] + 1
    BY <1>1, Unwritten
  <2>2. unwritten[o] \in Nat
    BY DEF TypeOK
  <2> QED BY <2>1, <2>2
<1>2. ASSUME NEW c \in Callers, SubmitUnwritten(c) PROVE unwritten[o] = 0
  BY <1>1, <1>2 DEF SubmitUnwritten
<1>3. ASSUME ReplayAborts PROVE unwritten[o] = 0
  BY <1>1, <1>3 DEF ReplayAborts, Callers
<1>4. ASSUME NEW c \in Senders, NEW p \in Orders, Submit(c, p) PROVE unwritten[o] = 0
  BY <1>4 DEF Submit, errorVars
<1>5. ASSUME \/ \E c \in Callers : BrokerAnswers(c) \/ Retry(c) \/ SubmitReturns(c) \/ SubmitRaises(c)
             \/ ReplayNext \/ ReplayReturns \/ ReplayRaises \/ ReplayEnds \/ Start \/ Stop
             \/ AllHandled \/ UNCHANGED vars
      PROVE  unwritten[o] = 0
  BY <1>5 DEF BrokerAnswers, Retry, SubmitReturns, SubmitRaises, ReplayNext, ReplayReturns,
              ReplayRaises, ReplayEnds, Start, Stop, AllHandled, vars, errorVars
<1> QED BY <1>2, <1>3, <1>4, <1>5 DEF Next, CallStep, ReplayStep

(* However often the process stops, at most one row per submitting task is *)
(* in doubt, those apart whose outcome could not be written: while the     *)
(* engine runs, the calls bound the pending rows, and neither a stop nor   *)
(* the replay adds one.                                                    *)
THEOREM DoubtBounded == Spec => []FewInDoubt
<1> DEFINE Few == IsFiniteSet(InDoubt) /\ FewInDoubt
<1> USE QueueAssumption
<1>1. Init => Few
  <2> SUFFICES ASSUME Init PROVE Few
    OBVIOUS
  <2>1. InDoubt = {}
    BY DEF Init, InDoubt, PendingRows, IsPending
  <2> QED BY <2>1, FS_EmptySet, FS_CardinalityType DEF FewInDoubt
<1>2. Few /\ IInv /\ IInv' /\ [Next]_vars => Few'
  <2> SUFFICES ASSUME Few, IInv, IInv', [Next]_vars PROVE Few'
    OBVIOUS
  <2> DEFINE busy == {call'[c].order : c \in Senders}
             at == [c \in Senders |-> call'[c].order]
  <2>1. CASE phase' = "running"
    <3>1. at \in Surjection(Senders, busy)
      BY DEF Surjection
    <3>2. IsFiniteSet(busy) /\ Cardinality(busy) <= Cardinality(Senders)
      BY <3>1, FS_Surjection
    <3>3. InDoubt' \subseteq busy
      <4>1. \A o \in InDoubt' : o \in Orders /\ row'[o] = "pending" /\ o \notin stranded'
        <5>1. \A o \in stranded' : unwritten'[o] > 0
          BY DEF IInv, StrandedInv
        <5> QED BY <5>1 DEF InDoubt, PendingRows, IsPending
      <4> QED BY <2>1, <4>1 DEF IInv, PendingIsUnderway
    <3>4. IsFiniteSet(InDoubt') /\ Cardinality(InDoubt') <= Cardinality(busy)
      BY <3>2, <3>3, FS_Subset
    <3> QED BY <3>2, <3>4, FS_CardinalityType DEF FewInDoubt
  <2>2. CASE phase' # "running"
    <3>1. InDoubt' \subseteq InDoubt
      <4>1. ASSUME NEW o \in Orders, row'[o] = "pending" PROVE row[o] = "pending"
        BY <4>1, <2>2, Kept DEF IInv
      <4>2. ASSUME NEW o \in Orders, unwritten'[o] = 0 PROVE unwritten[o] = 0
        BY <4>2, StaysWritten DEF IInv
      <4> QED BY <4>1, <4>2 DEF InDoubt, PendingRows, IsPending
    <3>2. IsFiniteSet(InDoubt') /\ Cardinality(InDoubt') <= Cardinality(InDoubt)
      BY <3>1, FS_Subset
    <3> QED BY <3>2, FS_CardinalityType DEF FewInDoubt
  <2> QED BY <2>1, <2>2
<1> QED BY <1>1, <1>2, Inductive, PTL DEF Spec

-----------------------------------------------------------------------------
(* Every step of the queue is a step of the abstract outbox, or changes    *)
(* nothing the outbox shows.                                               *)
LEMMA RefinesStep ==
  ASSUME IInv, [Next]_vars
  PROVE  [Abstract!OutboxNext]_Abstract!outboxVars
<1> USE QueueAssumption DEF Abstract!OutboxNext, Abstract!outboxVars, Callers
<1> DEFINE Goal == [Abstract!OutboxNext]_Abstract!outboxVars
<1>a. TypeOK /\ CallsInv /\ RunInv
  BY DEF IInv
<1>1. ASSUME NEW c \in Senders, NEW o \in Orders, Submit(c, o) PROVE Goal
  <2>1. Abstract!Accept(o)
    BY <1>1 DEF Submit, Abstract!Accept
  <2> QED BY <2>1
<1>2. ASSUME NEW c \in Callers, BrokerAnswers(c) PROVE Goal
  <2> DEFINE o == call[c].order
  <2>1. o \in Orders /\ row[o] = "pending"
    BY <1>2, <1>a, InCall DEF BrokerAnswers, CallsInv
  <2>2. PICK done \in BOOLEAN : executed' = [executed EXCEPT ![o] = IF done THEN @ + 1 ELSE @]
    BY <1>2 DEF BrokerAnswers
  <2>3. row' = row
    BY <1>2 DEF BrokerAnswers
  <2>4. CASE done
    <3>1. Abstract!Execute(o)
      BY <2>1, <2>2, <2>3, <2>4 DEF Abstract!Execute
    <3> QED BY <2>1, <3>1
  <2>5. CASE ~done
    <3>1. executed' = executed
      BY <1>a, <2>2, <2>5 DEF TypeOK
    <3> QED BY <2>3, <3>1
  <2> QED BY <2>4, <2>5
<1>3. ASSUME NEW c \in Callers, call[c] # NoCall, executed' = executed,
             \/ row' = [row EXCEPT ![call[c].order] = "failed"]
             \/ /\ row' = [row EXCEPT ![call[c].order] = "sent"]
                /\ call[c].pc = "answered" /\ call[c].answer = "success"
      PROVE  Goal
  <2>1. call[c].order \in Orders /\ row[call[c].order] = "pending"
    BY <1>3, <1>a DEF CallsInv
  <2>2. call[c].pc = "answered" /\ call[c].answer = "success" => executed[call[c].order] > 0
    BY <1>3, <1>a, <2>1 DEF RunInv, Succeeded
  <2>3. Abstract!Resolve(call[c].order)
    BY <1>3, <2>1, <2>2 DEF Abstract!Resolve
  <2> QED BY <2>1, <2>3
<1>4. ASSUME NEW c \in Callers, SubmitReturns(c) \/ SubmitRaises(c) PROVE Goal
  <2>1. call[c] # NoCall
    BY <1>4, <1>a, InCall DEF SubmitReturns, SubmitRaises
  <2> QED BY <1>3, <1>4, <2>1 DEF SubmitReturns, SubmitRaises, Resolve, Outcome
<1>5. ASSUME ReplayReturns \/ ReplayRaises PROVE Goal
  <2>1. call[Replayer] # NoCall
    BY <1>5, <1>a, InCall DEF ReplayReturns, ReplayRaises
  <2> QED BY <1>3, <1>5, <2>1 DEF ReplayReturns, ReplayRaises, Resolve, Outcome
<1>6. ASSUME \/ \E c \in Callers : Retry(c)
             \/ \E c \in Callers : SubmitUnwritten(c)
             \/ ReplayNext \/ ReplayAborts \/ ReplayEnds \/ Start \/ Stop
             \/ AllHandled \/ UNCHANGED vars
      PROVE  Goal
  BY <1>6 DEF Retry, SubmitUnwritten, ReplayNext, ReplayAborts, ReplayEnds, Start, Stop,
              AllHandled, vars
<1> QED
  BY <1>1, <1>2, <1>4, <1>5, <1>6 DEF Next, CallStep, ReplayStep

(* The order queue, with its retries, errors, replays and stops, keeps the *)
(* promise of Outbox: a request is resolved once, and as sent only if the  *)
(* broker executed it (order_queue.py:69-152).                             *)
THEOREM Refinement == Spec => ImplementsOutbox
<1>1. Init => Abstract!OutboxInit
  BY DEF Init, Abstract!OutboxInit
<1>2. IInv /\ [Next]_vars => [Abstract!OutboxNext]_Abstract!outboxVars
  BY RefinesStep
<1> QED BY <1>1, <1>2, Inductive, PTL DEF Spec, ImplementsOutbox, Abstract!OutboxSpec
===============================================================================
