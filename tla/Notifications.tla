----------------------------- MODULE Notifications -----------------------------
(***************************************************************************)
(* observability/notifications.py: the dispatcher between bus events and   *)
(* the configured channels.                                                *)
(*                                                                         *)
(* There is one subscription, hence one task, per event class some channel *)
(* wants; for one event it walks the channels and their configured names   *)
(* in order and awaits each send.  All tasks share the messages of the     *)
(* last DEDUPE_WINDOW.  A message is the name of the alert and what the    *)
(* event is about; wording and the HTTP request are left out.              *)
(***************************************************************************)
EXTENDS Naturals, Sequences, FiniteSets

CONSTANTS
  Channels,      \* the enabled channels: for each one the names it wants, in order
  Classes,       \* the event classes of _EVENT_REGISTRY
  Registry,      \* Registry[name]: the event class of an alert
  Formats(_, _), \* Formats(name, evt): its formatter returns a message
  Window,        \* DEDUPE_WINDOW
  MaxRecent,     \* DEDUPE_MAX
  MaxTime        \* bound: the clock

ASSUME NoticeAssumption == {Window, MaxRecent, MaxTime} \subseteq Nat

VARIABLES
  now,           \* the clock
  recent,        \* _recent: the messages sent, each with its time
  inbox,         \* inbox[c]: events queued for the task of class c
  targets,       \* targets[c]: the places <<channel, name>> its event has still to visit
  sending,       \* sending[c]: a send is awaited
  begun,         \* history: begun[c]: when the task of c took its event up
  sends          \* history: the sends begun

noticeVars == <<now, recent, inbox, targets, sending, begun, sends>>

(* An event is its class and what it is about.                             *)
Message(name, evt) == <<name, evt.about>>

NoticeTypeOK ==
  /\ now \in 0..MaxTime
  /\ \A i \in DOMAIN recent : recent[i].at \in 0..now
  /\ Len(recent) <= MaxRecent
  /\ DOMAIN inbox = Classes /\ DOMAIN targets = Classes
  /\ begun \in [Classes -> 0..now]
  /\ \A c \in Classes : sending[c] => targets[c] # {} /\ inbox[c] # <<>>

NoticeInit ==
  /\ now = 0
  /\ recent = <<>>
  /\ inbox = [c \in Classes |-> <<>>]
  /\ targets = [c \in Classes |-> {}]
  /\ sending = [c \in Classes |-> FALSE]
  /\ begun = [c \in Classes |-> 0]
  /\ sends = <<>>

(* A place is a channel and one of its names, both by number; names that   *)
(* the registry does not have are passed over.                             *)
Places == {p \in (DOMAIN Channels) \X (UNION {DOMAIN Channels[k] : k \in DOMAIN Channels}) :
             p[2] \in DOMAIN Channels[p[1]] /\ Channels[p[1]][p[2]] \in DOMAIN Registry}
Name(p) == Channels[p[1]][p[2]]

(* start(): the classes subscribed are those some channel wants.           *)
Wanted == {Registry[Name(p)] : p \in Places}

(* _make_handler(): what an event of class c visits, channel by channel    *)
(* and name by name.                                                       *)
TargetsOf == [c \in Classes |-> {p \in Places : Registry[Name(p)] = c}]

Before(p, q) == p[1] < q[1] \/ (p[1] = q[1] /\ p[2] < q[2])
First(ps) == {p \in ps : \A q \in ps \ {p} : Before(p, q)}

(* What publishing events does to the tasks, one event of a class at most: *)
(* a task that is idle starts.                                             *)
Published(box, evts) ==
  [c \in Classes |-> IF c \in Wanted /\ \E e \in evts : e.class = c
                     THEN Append(box[c], CHOOSE e \in evts : e.class = c)
                     ELSE box[c]]

Starts(c) == inbox[c] = <<>> /\ inbox'[c] # <<>>

Announce(evts) ==
  /\ inbox' = Published(inbox, evts)
  /\ targets' = [c \in Classes |-> IF Starts(c) THEN TargetsOf[c] ELSE targets[c]]
  /\ begun' = [c \in Classes |-> IF Starts(c) THEN now ELSE begun[c]]

(* (mutant) No message is ever dropped.                                    *)
KeptForever == 1

(* _is_duplicate(): the messages older than the window are dropped first,  *)
(* from the oldest up to the first that is not.                            *)
Kept == CHOOSE k \in 1..(Len(recent) + 1) :
  /\ k <= Len(recent) => recent[k].at + Window >= now
  /\ \A i \in 1..(k - 1) : recent[i].at + Window < now

Pruned == SubSeq(recent, Kept, Len(recent))

IsDuplicate(msg) == \E i \in Kept..Len(recent) : recent[i].msg = msg

(* A deque of bounded length: the oldest message makes room.               *)
Remembered(msg) ==
  LET all == Append(Pruned, [msg |-> msg, at |-> now])
  IN  IF Len(all) > MaxRecent THEN Tail(all) ELSE all

Formatted(c) == {p \in targets[c] : Formats(Name(p), Head(inbox[c]))}
MessageFor(c, p) == Message(Name(p), Head(inbox[c]))
Sendable(c) == {p \in Formatted(c) : ~IsDuplicate(MessageFor(c, p))}

(* The event is done: the task takes the next one.                         *)
NextEvent(c) ==
  /\ inbox' = [inbox EXCEPT ![c] = Tail(@)]
  /\ targets' = [targets EXCEPT ![c] = IF Len(inbox[c]) > 1 THEN TargetsOf[c] ELSE {}]
  /\ begun' = [begun EXCEPT ![c] = IF Len(inbox[c]) > 1 THEN now ELSE 0]

(* handler(): targets without a message, or with one sent lately, are      *)
(* passed over; the first other one is remembered and its send begins.     *)
Walk(c) ==
  /\ inbox[c] # <<>> /\ ~sending[c]
  /\ \/ /\ Sendable(c) = {}
        /\ NextEvent(c)
        /\ recent' = IF Formatted(c) # {} THEN Pruned ELSE recent
        /\ UNCHANGED <<sending, sends>>
     \/ \E p \in First(Sendable(c)) :
        /\ recent' = Remembered(MessageFor(c, p))
        /\ targets' = [targets EXCEPT ![c] = {q \in @ : q = p \/ Before(p, q)}]
        /\ sending' = [sending EXCEPT ![c] = TRUE]
        /\ sends' = Append(sends, [msg |-> MessageFor(c, p), at |-> now])
        /\ UNCHANGED <<inbox, begun>>
  /\ UNCHANGED now

(* send() returned: the channel took the message, refused it or could not  *)
(* be reached, which the handler does not look at.                         *)
SendEnds(c) ==
  /\ sending[c]
  /\ sending' = [sending EXCEPT ![c] = FALSE]
  /\ IF Cardinality(targets[c]) = 1 THEN NextEvent(c)
     ELSE targets' = [targets EXCEPT ![c] = @ \ First(@)] /\ UNCHANGED <<inbox, begun>>
  /\ UNCHANGED <<now, recent, sends>>

(* An error that is not an HTTP error leaves the handler: the rest of the  *)
(* event is lost.                                                          *)
SendRaises(c) ==
  /\ sending[c]
  /\ sending' = [sending EXCEPT ![c] = FALSE]
  /\ NextEvent(c)
  /\ UNCHANGED <<now, recent, sends>>

TimePasses ==
  /\ now < MaxTime
  /\ now' = now + 1
  /\ UNCHANGED <<recent, inbox, targets, sending, begun, sends>>

NoticeStep ==
  \/ \E c \in Classes : Walk(c) \/ SendEnds(c) \/ SendRaises(c)
  \/ TimePasses

(* A message is not repeated within the window, unless so many others were *)
(* sent in between that the list of recent messages no longer held it.     *)
NoStorm ==
  \A i, j \in DOMAIN sends :
    i < j /\ sends[i].msg = sends[j].msg /\ sends[j].at <= sends[i].at + Window
      => j - i > MaxRecent

(* The places an event has been to when its task is done with it: all of   *)
(* them, or those up to the send that raised.                              *)
Visited(c) ==
  {p \in TargetsOf[c] : sending[c] => p \notin targets[c] \ First(targets[c])}

(* A task is done with an event only when each message it had for a place  *)
(* it came to was sent since it took the event up, or within the window    *)
(* before: nothing older, and no other message, keeps a message back. That *)
(* it was sent to the place is not said: of two channels that want one     *)
(* alert the later one is passed over, its message being a duplicate.      *)
NoneSilenced ==
  \A c \in Classes : Len(inbox'[c]) < Len(inbox[c]) =>
    \A p \in Visited(c) : Formats(Name(p), Head(inbox[c])) =>
      \E i \in DOMAIN sends' : /\ sends'[i].msg = MessageFor(c, p)
                               /\ sends'[i].at + Window >= begun[c]

(* The tasks get through what is published.                                *)
Drained == \A c \in Classes : inbox[c] = <<>>
=============================================================================
