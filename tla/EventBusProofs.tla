---------------------------- MODULE EventBusProofs ----------------------------
(***************************************************************************)
(* Theorems about EventBus, for any subscriptions, publishers, types,      *)
(* queue sizes, overflow policies and any number of events.                *)
(***************************************************************************)
EXTENDS EventBus, SequenceTheorems, WellFoundedInduction, TLAPS

(* What asyncio.Queue and the consumer have seen of a stream is in each    *)
(* publisher's order.                                                      *)
Ordered(stream) ==
  \A i, j \in DOMAIN stream :
    (i < j /\ stream[i].by = stream[j].by) => stream[i].id < stream[j].id

(* No event of e's publisher that s got is as new as e.                    *)
Behind(s, e) == \A i \in DOMAIN Stream(s) : Stream(s)[i].by = e.by => Stream(s)[i].id < e.id

(* The subscriptions from position i on, which publish() has yet to reach. *)
From(i) == {s \in Subs : \E k \in DOMAIN subList : k >= i /\ subList[k] = s}

(* s was on the bus in time for e and wants it.                            *)
Due(s, e) == s \in open /\ e.type \in Wants[s] /\ joined[s] <= e.id

Offered(s, e) == \E i \in DOMAIN offered[s] : offered[s][i] = e

(* A subscription is listed once; one that was never made is untouched.    *)
ListInv ==
  /\ \A j, k \in DOMAIN subList : subList[j] = subList[k] => j = k
  /\ \A k \in DOMAIN subList : task[subList[k]] # "none"
  /\ open \subseteq From(1)
  /\ busClosed => open = {}
  /\ \A s \in Subs : task[s] = "none" => queue[s] = <<>> /\ taken[s] = <<>> /\ offered[s] = <<>>

(* The queue is the end of what was offered; what went before was handled  *)
(* or evicted by MaxSize newer events.                                     *)
Kept(s) ==
  /\ Len(queue[s]) <= Len(offered[s])
  /\ \A k \in 1..Len(queue[s]) : queue[s][k] = offered[s][Len(offered[s]) - Len(queue[s]) + k]
  /\ \A i \in 1..(Len(offered[s]) - Len(queue[s])) :
       \/ \E j \in DOMAIN taken[s] : taken[s][j] = offered[s][i]
       \/ Overflow[s] = "drop_oldest" /\ Len(offered[s]) - i >= MaxSize[s]

QueueInv == \A s \in Subs : Kept(s)

(* No event is newer than the last one published.                          *)
IdInv ==
  /\ \A s \in Subs : \A i \in DOMAIN Stream(s) : Stream(s)[i].id < nextId
  /\ \A e \in returned : e.id < nextId

(* A put() of event e under way, in the queue of s, with the positions     *)
(* from m on still to come: those are behind e, all others due e have it.  *)
PutKept(p, e, s, m) ==
  /\ e.by = p /\ e.id < nextId /\ m > 0
  /\ task[s] # "none" /\ s \notin From(m)
  /\ \A r \in {s} \cup From(m) : Behind(r, e)
  /\ \A r \in Subs \ ({s} \cup From(m)) : Due(r, e) => Offered(r, e)

PutInv ==
  \A p \in Publishers, e \in Events, s \in Subs, m \in Nat :
    pub[p] = Put(s, e, m) => PutKept(p, e, s, m)

IInv ==
  /\ TypeOK /\ ListInv /\ IdInv /\ PutInv
  /\ BlockKeepsAll /\ QueueInv /\ PublisherOrder /\ ReachesEverySubscriber

-----------------------------------------------------------------------------
(* A set of naturals has a least element: First(S) is one of S.            *)
LEMMA LeastNatural ==
  ASSUME NEW T, T \subseteq Nat, T # {}
  PROVE  \E m \in T : \A n \in T : m <= n
<1> DEFINE R == {pair \in Nat \X Nat : pair[1] < pair[2]}
<1>1. IsWellFoundedOn(R, Nat)
  <2>1. IsWellFoundedOn(OpToRel(<, Nat), Nat)
    BY NatLessThanWellFounded
  <2>2. OpToRel(<, Nat) = R
    BY DEF OpToRel
  <2> QED BY <2>1, <2>2
<1>2. \E m \in T : \A n \in T : ~ (<<n, m>> \in R)
  <2> HIDE DEF R
  <2> QED BY <1>1, WFMin
<1>3. PICK m \in T : \A n \in T : ~ (<<n, m>> \in R)
  BY <1>2
<1>4. ASSUME NEW n \in T PROVE m <= n
  <2>1. m \in Nat /\ n \in Nat /\ <<n, m>> \notin R
    BY <1>3, <1>4
  <2>2. <<n, m>> \in Nat \X Nat
    BY <2>1
  <2>3. ~(<<n, m>>[1] < <<n, m>>[2])
    BY <2>1, <2>2
  <2> QED BY <2>1, <2>3
<1> QED BY <1>4

(* The first position at which publish() has to wait is one, and no later. *)
LEMMA FirstIs ==
  ASSUME NEW T, T \subseteq Nat, T # {}
  PROVE  First(T) \in T /\ \A n \in T : First(T) <= n
BY LeastNatural DEF First

(* What a queue holds after an event is put into it: the events queued    *)
(* before it, less the gone oldest ones, and then the event.               *)
Placed(s, e, gone) ==
  /\ Full(s) => gone = 1
  /\ ~Full(s) => gone = 0
  /\ Enqueue(s, e) \in Seq(Events)
  /\ Len(Enqueue(s, e)) = Len(queue[s]) + 1 - gone
  /\ Len(queue[s]) + 1 - gone \in 1..MaxSize[s]
  /\ Enqueue(s, e)[Len(queue[s]) + 1 - gone] = e
  /\ \A k \in 1..(Len(queue[s]) - gone) : Enqueue(s, e)[k] = queue[s][k + gone]

(* Putting an event into a queue evicts the oldest one of a full queue and *)
(* nothing of another.                                                     *)
LEMMA EnqueueIs ==
  ASSUME NEW s \in Subs, queue[s] \in Seq(Events), NEW e \in Events,
         MaxSize[s] \in Nat \ {0}, Len(queue[s]) <= MaxSize[s]
  PROVE  \E gone \in Nat : Placed(s, e, gone)
<1>1. CASE Full(s)
  <2>1. queue[s] # <<>> /\ Len(queue[s]) = MaxSize[s]
    BY <1>1 DEF Full
  <2>2. /\ Tail(queue[s]) \in Seq(Events) /\ Len(Tail(queue[s])) = Len(queue[s]) - 1
        /\ \A k \in 1..(Len(queue[s]) - 1) : Tail(queue[s])[k] = queue[s][k + 1]
    BY <2>1, HeadTailProperties
  <2>3. Enqueue(s, e) = Append(Tail(queue[s]), e)
    BY <1>1 DEF Enqueue
  <2> HIDE DEF Full
  <2>4. /\ Enqueue(s, e) \in Seq(Events) /\ Len(Enqueue(s, e)) = Len(queue[s]) + 1 - 1
        /\ Enqueue(s, e)[Len(queue[s]) + 1 - 1] = e
        /\ \A k \in 1..(Len(queue[s]) - 1) : Enqueue(s, e)[k] = queue[s][k + 1]
    BY <2>1, <2>2, <2>3, AppendProperties
  <2>5. Len(queue[s]) + 1 - 1 \in 1..MaxSize[s]
    BY <2>1
  <2>6. Placed(s, e, 1)
    BY <1>1, <2>4, <2>5 DEF Placed
  <2> QED BY <2>6
<1>2. CASE ~Full(s)
  <2>1. Enqueue(s, e) = Append(queue[s], e) /\ Len(queue[s]) < MaxSize[s]
    BY <1>2 DEF Enqueue, Full
  <2>2. /\ Append(queue[s], e) \in Seq(Events) /\ Len(Append(queue[s], e)) = Len(queue[s]) + 1
        /\ Append(queue[s], e)[Len(queue[s]) + 1] = e
        /\ \A k \in 1..Len(queue[s]) : Append(queue[s], e)[k] = queue[s][k]
    BY AppendProperties
  <2>3. Len(queue[s]) \in Nat
    OBVIOUS
  <2>4. Len(queue[s]) + 1 - 0 = Len(queue[s]) + 1 /\ Len(queue[s]) - 0 = Len(queue[s])
    BY <2>3
  <2>5. \A k \in 1..Len(queue[s]) : k + 0 = k
    OBVIOUS
  <2>6. Len(queue[s]) + 1 \in 1..MaxSize[s]
    BY <2>1, <2>3
  <2>7. /\ Enqueue(s, e) \in Seq(Events) /\ Len(Enqueue(s, e)) = Len(queue[s]) + 1 - 0
        /\ Len(queue[s]) + 1 - 0 \in 1..MaxSize[s]
        /\ Enqueue(s, e)[Len(queue[s]) + 1 - 0] = e
    BY <2>1, <2>2, <2>4, <2>6
  <2>8. ASSUME NEW k \in 1..(Len(queue[s]) - 0) PROVE Enqueue(s, e)[k] = queue[s][k + 0]
    BY <2>1, <2>2, <2>4, <2>5
  <2>9. Placed(s, e, 0)
    BY <1>2, <2>7, <2>8 DEF Placed
  <2> QED BY <2>9
<1> QED BY <1>1, <1>2

(* A stream has what was taken and then what is queued.                    *)
LEMMA StreamIs ==
  ASSUME NEW t \in Seq(Events), NEW q \in Seq(Events)
  PROVE  /\ t \o q \in Seq(Events) /\ Len(t \o q) = Len(t) + Len(q)
         /\ \A k \in 1..Len(t) : (t \o q)[k] = t[k]
         /\ \A k \in 1..Len(q) : (t \o q)[Len(t) + k] = q[k]
         /\ \A k \in (Len(t) + 1)..(Len(t) + Len(q)) : (t \o q)[k] = q[k - Len(t)]
BY ConcatProperties

(* Putting an event into a queue adds it at the end of the stream; what    *)
(* was there before keeps its order, less an event that is evicted.        *)
LEMMA PushIs ==
  ASSUME TypeOK, NEW s \in Subs, NEW e \in Events, queue'[s] = Enqueue(s, e), taken' = taken
  PROVE  /\ Stream(s) \in Seq(Events) /\ Stream(s)' \in Seq(Events)
         /\ Len(Stream(s)') > 0 /\ Stream(s)'[Len(Stream(s)')] = e
         /\ \E f \in [1..(Len(Stream(s)') - 1) -> DOMAIN Stream(s)] :
              /\ \A i \in DOMAIN f : Stream(s)'[i] = Stream(s)[f[i]]
              /\ \A i, j \in DOMAIN f : i < j => f[i] < f[j]
<1>0. queue[s] \in Seq(Events) /\ MaxSize[s] \in Nat \ {0} /\ Len(queue[s]) <= MaxSize[s]
  BY BusAssumption DEF TypeOK
<1>1. PICK gone \in Nat : Placed(s, e, gone)
  BY <1>0, EnqueueIs
<1>2. (Full(s) => gone = 1) /\ (~Full(s) => gone = 0)
  BY <1>1 DEF Placed
<1>3. /\ Enqueue(s, e) \in Seq(Events) /\ Len(Enqueue(s, e)) = Len(queue[s]) + 1 - gone
     /\ Len(queue[s]) + 1 - gone \in 1..MaxSize[s]
     /\ Enqueue(s, e)[Len(queue[s]) + 1 - gone] = e
     /\ \A k \in 1..(Len(queue[s]) - gone) : Enqueue(s, e)[k] = queue[s][k + gone]
  BY <1>1 DEF Placed
<1> DEFINE t == taken[s]
           q == queue[s]
           new == Enqueue(s, e)
<1>4. t \in Seq(Events) /\ q \in Seq(Events) /\ Len(t) \in Nat /\ Len(q) \in Nat
  BY DEF TypeOK
<1>5. /\ new \in Seq(Events) /\ Len(new) = Len(q) + 1 - gone
      /\ Len(q) + 1 - gone \in 1..MaxSize[s]
      /\ new[Len(q) + 1 - gone] = e
      /\ \A k \in 1..(Len(q) - gone) : new[k] = q[k + gone]
  BY <1>3
<1>6. Stream(s) = t \o q /\ Stream(s)' = t \o new
  BY DEF Stream
<1> HIDE DEF t, q, new
<1>7. /\ t \o q \in Seq(Events) /\ Len(t \o q) = Len(t) + Len(q)
      /\ \A k \in 1..Len(t) : (t \o q)[k] = t[k]
      /\ \A k \in (Len(t) + 1)..(Len(t) + Len(q)) : (t \o q)[k] = q[k - Len(t)]
  BY <1>4, StreamIs
<1>8. /\ t \o new \in Seq(Events) /\ Len(t \o new) = Len(t) + Len(q) + 1 - gone
      /\ \A k \in 1..Len(t) : (t \o new)[k] = t[k]
      /\ \A k \in (Len(t) + 1)..(Len(t) + Len(q) + 1 - gone) : (t \o new)[k] = new[k - Len(t)]
  <2>1. /\ t \o new \in Seq(Events) /\ Len(t \o new) = Len(t) + Len(new)
        /\ \A k \in 1..Len(t) : (t \o new)[k] = t[k]
        /\ \A k \in (Len(t) + 1)..(Len(t) + Len(new)) : (t \o new)[k] = new[k - Len(t)]
    BY <1>4, <1>5, StreamIs
  <2>2. Len(t) + Len(new) = Len(t) + Len(q) + 1 - gone
    BY <1>4, <1>5
  <2> QED BY <2>1, <2>2
<1> DEFINE last == Len(t) + Len(q) + 1 - gone
           f == [i \in 1..(last - 1) |-> IF i <= Len(t) THEN i ELSE i + gone]
<1>9. last \in Nat \ {0} /\ (t \o new)[last] = e
  <2>1. last \in (Len(t) + 1)..(Len(t) + Len(q) + 1 - gone) /\ last - Len(t) = Len(q) + 1 - gone
    BY <1>4, <1>5
  <2> QED BY <1>4, <1>5, <1>8, <2>1
<1>10. f \in [1..(last - 1) -> 1..(Len(t) + Len(q))] /\ \A i, j \in DOMAIN f : i < j => f[i] < f[j]
  BY <1>2, <1>4, <1>5
<1>11. ASSUME NEW i \in 1..(last - 1) PROVE (t \o new)[i] = (t \o q)[f[i]]
  <2>0. i \in Nat /\ (i <= Len(t) \/ i > Len(t))
    BY <1>4, <1>9
  <2>1. CASE i <= Len(t)
    BY <1>4, <1>7, <1>8, <2>1
  <2>2. CASE i > Len(t)
    <3>1. /\ i \in (Len(t) + 1)..last /\ i - Len(t) \in 1..(Len(q) - gone)
          /\ i + gone \in (Len(t) + 1)..(Len(t) + Len(q)) /\ f[i] = i + gone
          /\ i + gone - Len(t) = i - Len(t) + gone
      BY <1>4, <1>5, <2>2
    <3>2. (t \o new)[i] = new[i - Len(t)] /\ (t \o q)[i + gone] = q[i + gone - Len(t)]
      BY <1>7, <1>8, <3>1
    <3>3. new[i - Len(t)] = q[i - Len(t) + gone]
      BY <1>5, <3>1
    <3> QED BY <3>1, <3>2, <3>3
  <2> QED BY <2>0, <2>1, <2>2
<1>12. DOMAIN (t \o q) = 1..(Len(t) + Len(q)) /\ Len(t \o new) = last
  BY <1>4, <1>7, <1>8
<1> HIDE DEF f, last
<1>13. DOMAIN f = 1..(last - 1)
  BY <1>10
<1>14. /\ \A i \in DOMAIN f : (t \o new)[i] = (t \o q)[f[i]]
       /\ f \in [1..(Len(t \o new) - 1) -> DOMAIN (t \o q)]
  BY <1>10, <1>11, <1>12, <1>13
<1>15. Len(t \o new) > 0 /\ (t \o new)[Len(t \o new)] = e
  BY <1>9, <1>12
<1>16. \E g \in [1..(Len(t \o new) - 1) -> DOMAIN (t \o q)] :
         /\ \A i \in DOMAIN g : (t \o new)[i] = (t \o q)[g[i]]
         /\ \A i, j \in DOMAIN g : i < j => g[i] < g[j]
  BY <1>10, <1>14, Zenon
<1>17. t \o q \in Seq(Events) /\ t \o new \in Seq(Events)
  BY <1>7, <1>8, Zenon
<1> QED BY <1>6, <1>15, <1>16, <1>17, Zenon

(* An event newer than all before it keeps a stream in order.              *)
LEMMA PushOrdered ==
  ASSUME TypeOK, NEW s \in Subs, NEW e \in Events, queue'[s] = Enqueue(s, e), taken' = taken,
         Ordered(Stream(s)), Behind(s, e)
  PROVE  Ordered(Stream(s)')
<1>1. PICK f \in [1..(Len(Stream(s)') - 1) -> DOMAIN Stream(s)] :
        /\ \A i \in DOMAIN f : Stream(s)'[i] = Stream(s)[f[i]]
        /\ \A i, j \in DOMAIN f : i < j => f[i] < f[j]
  BY PushIs
<1>2. /\ Stream(s)' \in Seq(Events) /\ Stream(s)'[Len(Stream(s)')] = e /\ Len(Stream(s)') \in Nat
      /\ DOMAIN Stream(s)' = 1..Len(Stream(s)')
  BY PushIs
<1> SUFFICES ASSUME NEW i \in DOMAIN Stream(s)', NEW j \in DOMAIN Stream(s)', i < j,
                    Stream(s)'[i].by = Stream(s)'[j].by
             PROVE  Stream(s)'[i].id < Stream(s)'[j].id
  BY DEF Ordered
<1>3. i \in DOMAIN f /\ Stream(s)'[i] = Stream(s)[f[i]] /\ f[i] \in DOMAIN Stream(s)
  BY <1>1, <1>2
<1>4. CASE j = Len(Stream(s)')
  BY <1>2, <1>3, <1>4 DEF Behind
<1>5. CASE j # Len(Stream(s)')
  <2>1. j \in DOMAIN f /\ Stream(s)'[j] = Stream(s)[f[j]] /\ f[j] \in DOMAIN Stream(s)
    BY <1>1, <1>2, <1>5
  <2>2. f[i] < f[j]
    BY <1>1, <1>3, <2>1
  <2> QED BY <1>3, <2>1, <2>2 DEF Ordered
<1> QED BY <1>4, <1>5

-----------------------------------------------------------------------------
(* The subscriptions publish() reaches from position i before it stops.    *)
Reached(e, i, stop) ==
  {s \in Subs : Matches(s, e) /\ \E j \in i..(stop - 1) : subList[j] = s}

(* The walk of publish() for p, which puts e into the queues of got and of *)
(* what it reaches, and stops at a full block subscription or the end.     *)
WalkTo(p, e, got, i, stop) ==
  /\ queue' = [s \in Subs |-> IF s \in got \cup Reached(e, i, stop) THEN Enqueue(s, e)
                                                                  ELSE queue[s]]
  /\ offered' = [s \in Subs |-> IF s \in got \cup Reached(e, i, stop) THEN Append(offered[s], e)
                                                                    ELSE offered[s]]
  /\ \A s \in Reached(e, i, stop) : Overflow[s] = "block" => ~Full(s)
  /\ stop <= Len(subList) + 1
  /\ \/ /\ stop = Len(subList) + 1
        /\ pub' = [pub EXCEPT ![p] = Idle] /\ returned' = returned \cup {e}
     \/ /\ i <= stop /\ stop <= Len(subList) /\ Full(subList[stop])
        /\ pub' = [pub EXCEPT ![p] = Put(subList[stop], e, stop + 1)]
        /\ returned' = returned

LEMMA WalkIs ==
  ASSUME TypeOK, NEW p \in Publishers, NEW e \in Events, NEW got \in SUBSET Subs,
         NEW i \in Nat \ {0}, Walk(p, e, got, i)
  PROVE  \E stop \in Nat \ {0} : WalkTo(p, e, got, i, stop)
<1> DEFINE W == Waits(e, i)
           stop == IF W = {} THEN Len(subList) + 1 ELSE First(W)
           reached == got \cup Reached(e, i, stop)
<1>1. Len(subList) \in Nat
  BY DEF TypeOK
<1>2. W \subseteq i..Len(subList) /\ W \subseteq Nat
  BY <1>1 DEF Waits
<1>3. W # {} => First(W) \in W /\ \A n \in W : First(W) <= n
  BY <1>2, FirstIs
<1>4. /\ stop \in Nat \ {0} /\ stop <= Len(subList) + 1
      /\ W # {} => i <= stop /\ stop <= Len(subList) /\ Full(subList[stop])
  BY <1>1, <1>2, <1>3 DEF Waits
<1>5. \A s \in Reached(e, i, stop) : Overflow[s] = "block" => ~Full(s)
  <2> SUFFICES ASSUME NEW s \in Subs, Matches(s, e), NEW j \in i..(stop - 1), subList[j] = s,
                      Overflow[s] = "block", Full(s)
               PROVE  FALSE
    BY DEF Reached
  <2>1. j \in i..Len(subList) /\ j < stop
    BY <1>1, <1>4
  <2>2. j \in W
    BY <2>1 DEF Waits
  <2> QED BY <1>2, <1>3, <2>1, <2>2
<1>6. /\ queue' = [s \in Subs |-> IF s \in reached THEN Enqueue(s, e) ELSE queue[s]]
      /\ offered' = [s \in Subs |-> IF s \in reached THEN Append(offered[s], e) ELSE offered[s]]
      /\ pub' = [pub EXCEPT ![p] = IF W = {} THEN Idle ELSE Put(subList[stop], e, stop + 1)]
      /\ returned' = IF W = {} THEN returned \cup {e} ELSE returned
  BY DEF Walk, Reached
<1>7. (W = {} => stop = Len(subList) + 1)
  OBVIOUS
<1> HIDE DEF stop, W
<1> QED BY <1>4, <1>5, <1>6, <1>7 DEF WalkTo

LEMMA PutIs ==
  /\ ~Idle.waits
  /\ \A s, e, m : LET put == Put(s, e, m)
                 IN put.waits /\ put # Idle /\ put.sub = s /\ put.evt = e /\ put.next = m
  /\ \A put \in Puts : /\ put.waits /\ put = Put(put.sub, put.evt, put.next)
                       /\ put.sub \in Subs /\ put.evt \in Events /\ put.next \in Nat
<1>1. ~Idle.waits
  BY DEF Idle
<1>2. \A s, e, m : LET put == Put(s, e, m)
                  IN put.waits /\ put # Idle /\ put.sub = s /\ put.evt = e /\ put.next = m
  BY <1>1 DEF Put
<1>3. \A put \in Puts : /\ put.waits /\ put = Put(put.sub, put.evt, put.next)
                       /\ put.sub \in Subs /\ put.evt \in Events /\ put.next \in Nat
  <2> TAKE put \in Puts
  <2>1. /\ put.waits = TRUE /\ put.sub \in Subs /\ put.evt \in Events /\ put.next \in Nat
        /\ put = [waits |-> put.waits, sub |-> put.sub, evt |-> put.evt, next |-> put.next]
    BY DEF Puts
  <2> QED BY <2>1, Zenon DEF Put
<1> QED BY <1>1, <1>2, <1>3

(* A block subscription is never offered an event it has no room for, so   *)
(* nothing is lost.                                                        *)
LEMMA PushKeepsAll ==
  ASSUME TypeOK, NEW s \in Subs, NEW e \in Events, ~Full(s), offered[s] = Stream(s),
         queue'[s] = Enqueue(s, e), offered'[s] = Append(offered[s], e), taken' = taken
  PROVE  offered'[s] = Stream(s)'
<1>1. taken[s] \in Seq(Events) /\ queue[s] \in Seq(Events)
  BY DEF TypeOK
<1>2. Stream(s)' = taken[s] \o Append(queue[s], e)
  BY DEF Stream, Enqueue
<1>3. \A t, q \in Seq(Events) : t \o Append(q, e) = Append(t \o q, e)
  OBVIOUS
<1>4. taken[s] \o Append(queue[s], e) = Append(taken[s] \o queue[s], e)
  BY <1>1, <1>3, Zenon
<1> QED BY <1>2, <1>4, Zenon DEF Stream

(* The queue stays the end of what was offered.                            *)
LEMMA PushKept ==
  ASSUME TypeOK, NEW s \in Subs, NEW e \in Events, Kept(s),
         Overflow[s] = "block" => ~Full(s),
         queue'[s] = Enqueue(s, e), offered'[s] = Append(offered[s], e), taken' = taken
  PROVE  Kept(s)'
<1>0. queue[s] \in Seq(Events) /\ MaxSize[s] \in Nat \ {0} /\ Len(queue[s]) <= MaxSize[s]
  BY BusAssumption DEF TypeOK
<1>1. PICK gone \in Nat : Placed(s, e, gone)
  BY <1>0, EnqueueIs
<1>2. (Full(s) => gone = 1) /\ (~Full(s) => gone = 0)
  BY <1>1 DEF Placed
<1>3. offered[s] \in Seq(Events) /\ Len(queue[s]) \in Nat /\ Len(offered[s]) \in Nat
  BY DEF TypeOK
<1>4. /\ Len(Enqueue(s, e)) = Len(queue[s]) + 1 - gone
      /\ Len(queue[s]) + 1 - gone \in 1..MaxSize[s]
      /\ Enqueue(s, e)[Len(queue[s]) + 1 - gone] = e
      /\ \A k \in 1..(Len(queue[s]) - gone) : Enqueue(s, e)[k] = queue[s][k + gone]
  BY <1>1 DEF Placed
<1> DEFINE n == Len(queue[s])
           m == Len(offered[s])
<1>5. /\ Len(offered'[s]) = m + 1 /\ offered'[s][m + 1] = e
      /\ \A k \in 1..m : offered'[s][k] = offered[s][k]
  BY <1>3, AppendProperties
<1>6. Len(queue'[s]) = n + 1 - gone
  BY <1>4
<1>7. n <= m /\ n \in Nat /\ m \in Nat /\ n + 1 - gone \in Nat /\ n >= gone
  BY <1>0, <1>2, <1>4, <1>3 DEF Kept
<1>8. /\ \A k \in 1..n : queue[s][k] = offered[s][m - n + k]
      /\ \A i \in 1..(m - n) :
           \/ \E j \in DOMAIN taken[s] : taken[s][j] = offered[s][i]
           \/ Overflow[s] = "drop_oldest" /\ m - i >= MaxSize[s]
      /\ \A k \in 1..(n - gone) : queue'[s][k] = queue[s][k + gone]
      /\ queue'[s][n + 1 - gone] = e
      /\ Full(s) => n = MaxSize[s]
  <2>1. /\ \A k \in 1..n : queue[s][k] = offered[s][m - n + k]
        /\ \A i \in 1..(m - n) :
             \/ \E j \in DOMAIN taken[s] : taken[s][j] = offered[s][i]
             \/ Overflow[s] = "drop_oldest" /\ m - i >= MaxSize[s]
    BY DEF Kept
  <2>2. /\ \A k \in 1..(n - gone) : queue'[s][k] = queue[s][k + gone]
        /\ queue'[s][n + 1 - gone] = e
    BY <1>4
  <2>3. Full(s) => n = MaxSize[s]
    BY <1>0, <1>3 DEF Full
  <2> QED BY <2>1, <2>2, <2>3
<1> HIDE DEF n, m
<1>9. ASSUME NEW k \in 1..(n + 1 - gone)
      PROVE  queue'[s][k] = offered'[s][m + 1 - (n + 1 - gone) + k]
  <2>1. CASE k = n + 1 - gone
    <3>1. m + 1 - (n + 1 - gone) + k = m + 1
      BY <1>7, <2>1
    <3> QED BY <1>5, <1>8, <2>1, <3>1
  <2>2. CASE k # n + 1 - gone
    <3>1. k \in 1..(n - gone) /\ k + gone \in 1..n /\ m - n + (k + gone) \in 1..m
          /\ m + 1 - (n + 1 - gone) + k = m - n + (k + gone)
      BY <1>7, <2>2
    <3>2. queue'[s][k] = queue[s][k + gone] /\ queue[s][k + gone] = offered[s][m - n + (k + gone)]
      BY <1>8, <3>1
    <3> QED BY <1>5, <3>1, <3>2
  <2> QED BY <2>1, <2>2
<1>10. ASSUME NEW i \in 1..(m + 1 - (n + 1 - gone))
       PROVE  \/ \E j \in DOMAIN taken'[s] : taken'[s][j] = offered'[s][i]
              \/ Overflow[s] = "drop_oldest" /\ m + 1 - i >= MaxSize[s]
  <2>1. i \in 1..m /\ offered'[s][i] = offered[s][i]
    BY <1>5, <1>7
  <2>2. CASE i <= m - n
    <3>1. i \in 1..(m - n)
      BY <1>7, <2>1, <2>2
    <3>2. \/ \E j \in DOMAIN taken[s] : taken[s][j] = offered[s][i]
          \/ Overflow[s] = "drop_oldest" /\ m - i >= MaxSize[s]
      BY <1>8, <3>1
    <3>3. MaxSize[s] \in Int /\ m \in Int /\ i \in Int
      BY <1>0, <1>7, <2>1
    <3>4. m - i >= MaxSize[s] => m + 1 - i >= MaxSize[s]
      BY ONLY <3>3
    <3> QED BY <2>1, <3>2, <3>4
  <2>3. CASE ~(i <= m - n)
    <3>1. gone = 1 /\ i = m - n + 1
      BY <1>2, <1>7, <2>1, <2>3
    <3>2. Full(s)
      BY <1>2, <3>1
    <3>3. Overflow[s] = "drop_oldest" /\ n = MaxSize[s]
      BY <1>8, <3>2, BusAssumption
    <3> QED BY <1>7, <3>1, <3>3
  <2> QED BY <2>2, <2>3
<1>11. n + 1 - gone <= m + 1
  BY <1>7
<1>12. Len(queue'[s]) <= Len(offered'[s])
  BY <1>5, <1>6, <1>11
<1>13. \A k \in 1..Len(queue'[s]) :
         queue'[s][k] = offered'[s][Len(offered'[s]) - Len(queue'[s]) + k]
  <2> TAKE k \in 1..Len(queue'[s])
  <2>1. k \in 1..(n + 1 - gone) /\ Len(offered'[s]) - Len(queue'[s]) + k = m + 1 - (n + 1 - gone) + k
    BY <1>5, <1>6, <1>7
  <2> QED BY <1>9, <2>1
<1>14. \A i \in 1..(Len(offered'[s]) - Len(queue'[s])) :
         \/ \E j \in DOMAIN taken'[s] : taken'[s][j] = offered'[s][i]
         \/ Overflow[s] = "drop_oldest" /\ Len(offered'[s]) - i >= MaxSize[s]
  <2> TAKE i \in 1..(Len(offered'[s]) - Len(queue'[s]))
  <2>1. i \in 1..(m + 1 - (n + 1 - gone)) /\ Len(offered'[s]) - i = m + 1 - i
    BY <1>5, <1>6, <1>7
  <2> QED BY <1>10, <2>1
<1> QED BY <1>12, <1>13, <1>14 DEF Kept

-----------------------------------------------------------------------------
(* A walk of publish() keeps the invariant: it starts behind its event at  *)
(* what it has still to reach, and with the event offered at the rest.     *)
LEMMA WalkKeeps ==
  ASSUME IInv, NEW p \in Publishers, NEW e \in Events, e.by = p,
         NEW got \in SUBSET Subs, NEW i \in Nat \ {0}, Walk(p, e, got, i),
         nextId' \in 1..(MaxEvents + 1), e.id < nextId', nextId <= nextId',
         \A s \in got : ~Full(s) /\ s \notin From(i) /\ task[s] # "none",
         \A s \in got \cup From(i) : Behind(s, e),
         \A s \in Subs \ (got \cup From(i)) : Due(s, e) => Offered(s, e),
         UNCHANGED <<busClosed, subList, open, task, taken, joined>>
  PROVE  IInv'
<1>1. TypeOK
  BY DEF IInv
<1>2. PICK stop \in Nat \ {0} : WalkTo(p, e, got, i, stop)
  BY <1>1, WalkIs
<1> DEFINE reached == got \cup Reached(e, i, stop)
           ends == stop = Len(subList) + 1 /\ pub' = [pub EXCEPT ![p] = Idle]
                   /\ returned' = returned \cup {e}
           waits == /\ i <= stop /\ stop <= Len(subList)
                    /\ pub' = [pub EXCEPT ![p] = Put(subList[stop], e, stop + 1)]
                    /\ returned' = returned
<1>3. /\ reached \subseteq Subs /\ (ends \/ waits)
      /\ \A s \in reached : queue'[s] = Enqueue(s, e) /\ offered'[s] = Append(offered[s], e)
      /\ \A s \in Subs \ reached : queue'[s] = queue[s] /\ offered'[s] = offered[s]
      /\ \A s \in reached : Overflow[s] = "block" => ~Full(s)
      /\ DOMAIN queue' = Subs /\ DOMAIN offered' = Subs
      /\ queue' = [s \in Subs |-> queue'[s]] /\ offered' = [s \in Subs |-> offered'[s]]
  BY <1>2 DEF Reached, WalkTo
<1>4. subList \in Seq(Subs) /\ Len(subList) \in Nat /\ DOMAIN subList = 1..Len(subList)
  BY DEF IInv, TypeOK
<1>5. reached \subseteq got \cup From(i)
  <2> SUFFICES ASSUME NEW s \in Reached(e, i, stop) PROVE s \in From(i)
    OBVIOUS
  <2>1. PICK j \in i..(stop - 1) : subList[j] = s
    BY DEF Reached
  <2>2. j \in DOMAIN subList /\ j >= i /\ s \in Subs
    BY <1>2, <1>4 DEF Reached, WalkTo
  <2> QED BY <2>1, <2>2 DEF From
<1>6. \A s \in reached : task[s] # "none"
  BY <1>5 DEF IInv, ListInv, From
<1> HIDE DEF reached, ends, waits
<1>7. TypeOK'
  <2>1. \A s \in Subs : queue'[s] \in Seq(Events) /\ Len(queue'[s]) <= MaxSize[s]
                        /\ offered'[s] \in Seq(Events)
    <3> TAKE s \in Subs
    <3>1. /\ queue[s] \in Seq(Events) /\ Len(queue[s]) <= MaxSize[s] /\ offered[s] \in Seq(Events)
          /\ MaxSize[s] \in Nat \ {0}
      BY BusAssumption DEF IInv, TypeOK
    <3>2. Enqueue(s, e) \in Seq(Events) /\ Len(Enqueue(s, e)) <= MaxSize[s]
      <4>1. PICK gone \in Nat : Placed(s, e, gone)
        BY <3>1, EnqueueIs
      <4> QED BY <4>1 DEF Placed
    <3>3. Append(offered[s], e) \in Seq(Events)
      BY <3>1
    <3> QED BY <1>3, <3>1, <3>2, <3>3
  <2>2. pub' \in [Publishers -> {Idle} \cup Puts] /\ returned' \subseteq Events
    <3>1. CASE ends
      BY <3>1 DEF ends, IInv, TypeOK
    <3>2. CASE waits
      <4>1. subList[stop] \in Subs /\ stop + 1 \in Nat
        BY <1>4, <3>2 DEF waits
      <4>2. Put(subList[stop], e, stop + 1) \in Puts
        BY <4>1 DEF Put, Puts
      <4> QED BY <3>2, <4>2 DEF waits, IInv, TypeOK
    <3> QED BY <1>3, <3>1, <3>2
  <2>3. queue' \in [Subs -> Seq(Events)] /\ offered' \in [Subs -> Seq(Events)]
    BY <1>3, <2>1
  <2> QED BY <2>1, <2>2, <2>3 DEF IInv, TypeOK
<1>8. ListInv'
  BY <1>3, <1>6 DEF IInv, ListInv, From
<1>9. \A s \in Subs : Stream(s)' = Stream(s) \/ (s \in reached /\ queue'[s] = Enqueue(s, e))
  BY <1>3 DEF Stream
(* What a stream holds after the walk was there, or is e.                  *)
<1>10. ASSUME NEW s \in Subs, NEW k \in DOMAIN Stream(s)'
       PROVE  \/ \E l \in DOMAIN Stream(s) : Stream(s)'[k] = Stream(s)[l]
              \/ s \in reached /\ Stream(s)'[k] = e
  <2>1. CASE Stream(s)' = Stream(s)
    BY <2>1
  <2>2. CASE s \in reached /\ queue'[s] = Enqueue(s, e)
    <3>1. /\ Stream(s)' \in Seq(Events) /\ Stream(s)'[Len(Stream(s)')] = e
          /\ \E f \in [1..(Len(Stream(s)') - 1) -> DOMAIN Stream(s)] :
               \A j \in DOMAIN f : Stream(s)'[j] = Stream(s)[f[j]]
      BY <2>2, PushIs DEF IInv
    <3>2. k = Len(Stream(s)') \/ k \in 1..(Len(Stream(s)') - 1)
      BY <3>1
    <3> QED BY <2>2, <3>1, <3>2
  <2> QED BY <1>9, <2>1, <2>2
<1>11. IdInv'
  <2>1. \A s \in Subs : \A k \in DOMAIN Stream(s)' : Stream(s)'[k].id < nextId'
    <3> TAKE s \in Subs
    <3> TAKE k \in DOMAIN Stream(s)'
    <3>1. CASE \E l \in DOMAIN Stream(s) : Stream(s)'[k] = Stream(s)[l]
      <4>1. PICK l \in DOMAIN Stream(s) : Stream(s)'[k] = Stream(s)[l]
        BY <3>1
      <4>2. Stream(s)[l].id < nextId /\ Stream(s)[l].id \in Nat /\ nextId \in Nat
        <5>1. Stream(s) \in Seq(Events)
          BY StreamIs DEF Stream, IInv, TypeOK
        <5>2. Stream(s)[l] \in Events
          BY <5>1
        <5> QED BY <5>2 DEF IInv, IdInv, TypeOK, Events
      <4> QED BY <4>1, <4>2
    <3>2. CASE Stream(s)'[k] = e
      BY <3>2
    <3> QED BY <1>10, <3>1, <3>2
  <2>2. \A x \in returned' : x.id < nextId'
    <3>1. \A x \in returned : x.id < nextId'
      BY DEF IInv, IdInv, TypeOK, Events
    <3> QED BY <1>3, <3>1 DEF ends, waits
  <2> QED BY <2>1, <2>2 DEF IdInv
<1>12. BlockKeepsAll'
  <2> SUFFICES ASSUME NEW s \in Subs, Overflow[s] = "block" PROVE offered'[s] = Stream(s)'
    BY DEF BlockKeepsAll
  <2>1. offered[s] = Stream(s)
    BY DEF IInv, BlockKeepsAll
  <2>2. CASE s \in reached
    BY <1>3, <2>1, <2>2, PushKeepsAll DEF IInv
  <2>3. CASE s \notin reached
    BY <1>3, <2>1, <2>3 DEF Stream
  <2> QED BY <2>2, <2>3
<1>13. QueueInv'
  <2> SUFFICES ASSUME NEW s \in Subs PROVE Kept(s)'
    BY DEF QueueInv
  <2>1. Kept(s)
    BY DEF IInv, QueueInv
  <2>2. CASE s \in reached
    BY <1>3, <2>1, <2>2, PushKept DEF IInv
  <2>3. CASE s \notin reached
    BY <1>3, <2>1, <2>3 DEF Kept
  <2> QED BY <2>2, <2>3
<1>14. PublisherOrder'
  <2> SUFFICES ASSUME NEW s \in Subs PROVE Ordered(Stream(s)')
    BY DEF PublisherOrder, Ordered
  <2>1. Ordered(Stream(s))
    BY DEF IInv, PublisherOrder, Ordered
  <2>2. CASE s \in reached
    <3>1. Behind(s, e)
      BY <1>5, <2>2
    <3> QED BY <1>3, <2>1, <2>2, <3>1, PushOrdered DEF IInv
  <2>3. CASE s \notin reached
    BY <1>3, <2>1, <2>3 DEF Stream
  <2> QED BY <2>2, <2>3
(* What was offered still is; e is offered at all that was reached.        *)
<1>15. ASSUME NEW s \in Subs
       PROVE  /\ \A x \in Events : Offered(s, x) => Offered(s, x)'
              /\ s \in reached => Offered(s, e)'
  <2>1. offered[s] \in Seq(Events)
    BY DEF IInv, TypeOK
  <2>2. CASE s \in reached
    <3>1. /\ offered'[s] = Append(offered[s], e) /\ DOMAIN offered'[s] = 1..(Len(offered[s]) + 1)
          /\ offered'[s][Len(offered[s]) + 1] = e /\ Len(offered[s]) \in Nat
          /\ DOMAIN offered[s] = 1..Len(offered[s])
          /\ \A k \in 1..Len(offered[s]) : offered'[s][k] = offered[s][k]
      BY <1>3, <2>1, <2>2
    <3>2. /\ Len(offered[s]) + 1 \in DOMAIN offered'[s]
          /\ DOMAIN offered[s] \subseteq DOMAIN offered'[s]
      BY <3>1
    <3> QED BY <3>1, <3>2 DEF Offered
  <2>3. CASE s \notin reached
    BY <1>3, <2>3 DEF Offered
  <2> QED BY <2>2, <2>3
(* Who is due e and did not get it stands where the walk has not been yet. *)
<1>16. ASSUME NEW s \in Subs, Due(s, e), s \notin reached, ~Offered(s, e)
       PROVE  s \in From(stop)
  <2>1. s \in From(i)
    BY <1>16 DEF reached
  <2>2. PICK k \in DOMAIN subList : k >= i /\ subList[k] = s
    BY <2>1 DEF From
  <2>3. CASE k < stop
    <3>1. k \in i..(stop - 1)
      BY <1>4, <2>2, <2>3
    <3>2. s \in Reached(e, i, stop)
      BY <1>16, <2>2, <3>1 DEF Due, Matches, Reached
    <3> QED BY <1>16, <3>2 DEF reached
  <2>4. CASE ~(k < stop)
    BY <1>4, <2>2, <2>4 DEF From
  <2> QED BY <2>3, <2>4
<1>17. \A r \in Subs, x \in Events : Due(r, x)' <=> Due(r, x)
  BY DEF Due
<1>18. \A k \in Nat : From(k)' = From(k)
  BY DEF From
<1>19. PutInv'
  <2> SUFFICES ASSUME NEW q \in Publishers, NEW x \in Events, NEW b \in Subs, NEW m \in Nat,
                      pub'[q] = Put(b, x, m)
               PROVE  PutKept(q, x, b, m)'
    BY DEF PutInv
  <2> SUFFICES /\ x.by = q /\ x.id < nextId' /\ m > 0
               /\ task[b] # "none" /\ b \notin From(m)
               /\ \A r \in {b} \cup From(m) : Behind(r, x)'
               /\ \A r \in Subs \ ({b} \cup From(m)) : Due(r, x) => Offered(r, x)'
    BY <1>17, <1>18 DEF PutKept
  <2>1. CASE q # p
    <3>1. pub[q] = Put(b, x, m)
      BY <1>3, <2>1 DEF ends, waits, IInv, TypeOK
    <3>2. PutKept(q, x, b, m)
      BY <3>1 DEF IInv, PutInv
    <3>3. x.id < nextId'
      BY <3>2 DEF IInv, TypeOK, Events, PutKept
    <3>4. {b} \cup From(m) \subseteq Subs
      BY DEF From
    <3>5. ASSUME NEW r \in {b} \cup From(m) PROVE Behind(r, x)'
      <4> SUFFICES ASSUME NEW k \in DOMAIN Stream(r)', Stream(r)'[k].by = x.by
                   PROVE  Stream(r)'[k].id < x.id
        BY DEF Behind
      <4>1. Stream(r)'[k] # e
        BY <2>1, <3>2 DEF PutKept
      <4>2. PICK l \in DOMAIN Stream(r) : Stream(r)'[k] = Stream(r)[l]
        BY <1>10, <3>4, <4>1
      <4> QED BY <3>2, <4>2 DEF Behind, PutKept
    <3>6. \A r \in Subs \ ({b} \cup From(m)) : Due(r, x) => Offered(r, x)'
      BY <1>15, <3>2 DEF PutKept
    <3> QED BY <3>2, <3>3, <3>5, <3>6 DEF PutKept
  <2>2. CASE q = p
    <3>1. waits
      BY <1>3, <2>2, PutIs DEF ends, IInv, TypeOK
    <3>2. x = e /\ b = subList[stop] /\ m = stop + 1 /\ stop \in DOMAIN subList /\ i <= stop
      <4>1. Put(b, x, m) = Put(subList[stop], e, stop + 1)
        BY <2>2, <3>1 DEF waits, IInv, TypeOK
      <4>2. b = subList[stop] /\ x = e /\ m = stop + 1
        BY <4>1, PutIs
      <4> QED BY <1>4, <3>1, <4>2 DEF waits
    <3>3. \A j, k \in DOMAIN subList : subList[j] = subList[k] => j = k
      BY DEF IInv, ListInv
    <3>4. task[b] # "none"
      BY <3>2 DEF IInv, ListInv
    <3>5. b \notin From(m)
      BY <1>4, <3>2, <3>3 DEF From
    <3>6. {b} \cup From(m) = From(stop)
      BY <1>4, <3>2 DEF From
    <3>7. From(stop) \subseteq From(i)
      BY <1>4, <3>2 DEF From
    <3>8. ASSUME NEW r \in From(stop) PROVE r \notin reached
      <4>1. r \notin got
        BY <3>7
      <4>2. PICK k \in DOMAIN subList : k >= stop /\ subList[k] = r
        BY DEF From
      <4>3. \A j \in i..(stop - 1) : subList[j] # r
        BY <1>4, <3>2, <3>3, <4>2
      <4> QED BY <4>1, <4>3 DEF reached, Reached
    <3>9. ASSUME NEW r \in From(stop) PROVE Behind(r, e)'
      <4>1. r \in Subs /\ Stream(r)' = Stream(r)
        BY <1>3, <3>8 DEF Stream, From
      <4>2. Behind(r, e)
        BY <3>7
      <4> QED BY <4>1, <4>2 DEF Behind
    <3>10. \A r \in Subs \ From(stop) : Due(r, e) => Offered(r, e)'
      BY <1>15, <1>16
    <3>11. m > 0
      BY <3>2
    <3> QED BY <2>2, <3>2, <3>4, <3>5, <3>6, <3>9, <3>10, <3>11
  <2> QED BY <2>1, <2>2
<1>20. ReachesEverySubscriber'
  <2> SUFFICES ASSUME NEW s \in open, NEW x \in returned', Due(s, x) PROVE Offered(s, x)'
    BY DEF ReachesEverySubscriber, Due, Offered
  <2>0. s \in Subs
    BY DEF IInv, TypeOK
  <2>1. CASE x \in returned
    <3>1. Offered(s, x) /\ x \in Events
      BY <2>1 DEF IInv, TypeOK, ReachesEverySubscriber, Due, Offered
    <3> QED BY <1>15, <2>0, <3>1
  <2>2. CASE x \notin returned
    <3>1. ends /\ x = e
      BY <1>3, <2>2 DEF ends, waits
    <3>2. From(stop) = {}
      BY <1>4, <3>1 DEF From, ends
    <3> QED BY <1>15, <1>16, <2>0, <3>1, <3>2
  <2> QED BY <2>1, <2>2
<1> QED BY <1>7, <1>8, <1>11, <1>12, <1>13, <1>14, <1>19, <1>20 DEF IInv

-----------------------------------------------------------------------------
(* A step that puts and takes nothing: a handler returns, a subscription   *)
(* or the bus is closed, a put() is abandoned.                             *)
Calm ==
  /\ UNCHANGED <<queue, nextId, offered, taken, returned, joined>>
  /\ subList' = subList \/ (subList' = <<>> /\ open' = {})
  /\ open' \subseteq open
  /\ busClosed' \in BOOLEAN /\ (busClosed' => open' = {})
  /\ task' \in [Subs -> TaskStates]
  /\ \A s \in Subs : task'[s] = "none" <=> task[s] = "none"
  /\ pub' \in [Publishers -> {Idle} \cup Puts]
  /\ \A p \in Publishers : pub'[p] \in {pub[p], Idle}

LEMMA CalmKeeps ==
  ASSUME IInv, Calm
  PROVE  IInv'
<1> USE DEF Calm
<1>1. TypeOK'
  <2>1. subList' \in Seq(Subs)
    <3>1. subList \in Seq(Subs) /\ <<>> \in Seq(Subs)
      BY DEF IInv, TypeOK
    <3> QED BY <3>1
  <2> QED BY <2>1 DEF IInv, TypeOK
<1>2. \A s \in Subs : Stream(s)' = Stream(s)
  BY DEF Stream
<1>3. \A k : From(k)' \subseteq Subs /\ (From(k)' = From(k) \/ (From(k)' = {} /\ open' = {}))
  BY DEF From
<1>4. ListInv'
  <2>1. subList \in Seq(Subs) /\ DOMAIN subList = 1..Len(subList) /\ DOMAIN << >> = {}
    BY DEF IInv, TypeOK
  <2>2. /\ \A j, k \in DOMAIN subList' : subList'[j] = subList'[k] => j = k
        /\ \A k \in DOMAIN subList' : task'[subList'[k]] # "none"
    BY <2>1 DEF IInv, ListInv
  <2>3. open' \subseteq From(1)'
    BY <1>3 DEF IInv, ListInv
  <2> QED BY <2>2, <2>3 DEF IInv, ListInv
<1>5. IdInv'
  BY <1>2 DEF IInv, IdInv
<1>6. PutInv'
  <2> SUFFICES ASSUME NEW p \in Publishers, NEW e \in Events, NEW s \in Subs, NEW m \in Nat,
                      pub'[p] = Put(s, e, m)
               PROVE  PutKept(p, e, s, m)'
    BY DEF PutInv
  <2>1. PutKept(p, e, s, m)
    BY PutIs DEF IInv, PutInv
  <2>2. \A r \in Subs : Behind(r, e) => Behind(r, e)'
    BY <1>2 DEF Behind
  <2>3. \A r \in Subs : (Due(r, e)' => Due(r, e)) /\ (Offered(r, e) => Offered(r, e)')
    BY DEF Due, Offered
  <2>4. s \notin From(m)' /\ \A r \in {s} \cup From(m)' : Behind(r, e)'
    BY <1>3, <2>1, <2>2 DEF PutKept
  <2>5. \A r \in Subs \ ({s} \cup From(m)') : Due(r, e)' => Offered(r, e)'
    <3> SUFFICES ASSUME NEW r \in Subs \ ({s} \cup From(m)'), Due(r, e)' PROVE Offered(r, e)'
      OBVIOUS
    <3>1. From(m)' = From(m)
      BY <1>3 DEF Due
    <3> QED BY <2>1, <2>3, <3>1 DEF PutKept
  <2> QED BY <2>1, <2>4, <2>5 DEF PutKept
<1>7. BlockKeepsAll' /\ PublisherOrder'
  BY <1>2 DEF IInv, BlockKeepsAll, PublisherOrder
<1>8. QueueInv'
  BY ZenonT(60) DEF IInv, QueueInv, Kept
<1>9. ReachesEverySubscriber'
  BY DEF IInv, ReachesEverySubscriber
<1> QED BY <1>1, <1>4, <1>5, <1>6, <1>7, <1>8, <1>9 DEF IInv

(* A new subscription is last in the list and has yet to see an event.     *)
LEMMA SubscribeKeeps ==
  ASSUME IInv, NEW s \in Subs, Subscribe(s)
  PROVE  IInv'
<1>1. /\ subList' = Append(subList, s) /\ open' = open \cup {s} /\ ~busClosed
      /\ task[s] = "none" /\ task' = [task EXCEPT ![s] = "waiting"]
      /\ joined' = [joined EXCEPT ![s] = nextId]
      /\ UNCHANGED <<busClosed, queue, pub, nextId, offered, taken, returned>>
  BY DEF Subscribe
<1>2. /\ subList \in Seq(Subs) /\ task \in [Subs -> TaskStates]
      /\ joined \in [Subs -> Nat] /\ nextId \in Nat
  BY DEF IInv, TypeOK
<1>3. /\ Len(subList) \in Nat /\ DOMAIN subList = 1..Len(subList)
      /\ subList' \in Seq(Subs) /\ DOMAIN subList' = 1..(Len(subList) + 1)
      /\ \A k \in DOMAIN subList : subList'[k] = subList[k]
      /\ subList'[Len(subList) + 1] = s
  BY <1>1, <1>2, AppendProperties
<1>4. TypeOK'
  BY <1>1, <1>2, <1>3 DEF IInv, TypeOK, TaskStates
<1>5. \A k \in DOMAIN subList : subList[k] # s
  BY <1>1 DEF IInv, ListInv
<1>6. \A r \in Subs : Stream(r)' = Stream(r)
  BY <1>1 DEF Stream
<1>7. Stream(s) = <<>>
  <2>1. taken[s] = <<>> /\ queue[s] = <<>>
    BY <1>1 DEF IInv, ListInv
  <2>2. <<>> \o <<>> = <<>>
    OBVIOUS
  <2> QED BY <2>1, <2>2 DEF Stream
<1>8. \A k \in Nat : From(k) \subseteq From(k)' /\ From(k)' \subseteq From(k) \cup {s}
  <2> SUFFICES ASSUME NEW k \in Nat, NEW r \in Subs
               PROVE  /\ r \in From(k) => r \in From(k)'
                      /\ r \in From(k)' => r \in From(k) \cup {s}
    BY DEF From
  <2>1. ASSUME r \in From(k) PROVE r \in From(k)'
    BY <1>3, <2>1 DEF From
  <2>2. ASSUME r \in From(k)' PROVE r \in From(k) \cup {s}
    <3>1. PICK j \in DOMAIN subList' : j >= k /\ subList'[j] = r
      BY <2>2 DEF From
    <3>2. j \in DOMAIN subList \/ j = Len(subList) + 1
      BY <1>3
    <3> QED BY <1>3, <3>1, <3>2 DEF From
  <2> QED BY <2>1, <2>2
<1>9. ListInv'
  <2>1. \A j, k \in DOMAIN subList' : subList'[j] = subList'[k] => j = k
    <3>1. \A k \in DOMAIN subList' : k \in DOMAIN subList \/ k = Len(subList) + 1
      BY <1>3
    <3>2. \A j, k \in DOMAIN subList : subList[j] = subList[k] => j = k
      BY DEF IInv, ListInv
    <3> QED BY <1>3, <1>5, <3>1, <3>2
  <2>2. \A k \in DOMAIN subList' : task'[subList'[k]] # "none"
    <3>1. \A k \in DOMAIN subList' : k \in DOMAIN subList \/ k = Len(subList) + 1
      BY <1>3
    <3>2. \A k \in DOMAIN subList : subList[k] \in Subs /\ task[subList[k]] # "none"
      BY <1>2 DEF IInv, ListInv
    <3> QED BY <1>1, <1>2, <1>3, <3>1, <3>2
  <2>3. open' \subseteq From(1)'
    <3>1. s \in From(1)'
      BY <1>3 DEF From
    <3> QED BY <1>1, <1>8, <3>1 DEF IInv, ListInv
  <2>4. \A r \in Subs : task'[r] = "none" =>
          queue'[r] = <<>> /\ taken'[r] = <<>> /\ offered'[r] = <<>>
    BY <1>1, <1>2 DEF IInv, ListInv
  <2> QED BY <1>1, <2>1, <2>2, <2>3, <2>4 DEF ListInv
<1>10. IdInv'
  BY <1>1, <1>6 DEF IInv, IdInv
<1>11. PutInv'
  <2> SUFFICES ASSUME NEW p \in Publishers, NEW e \in Events, NEW b \in Subs, NEW m \in Nat,
                      pub'[p] = Put(b, e, m)
               PROVE  PutKept(p, e, b, m)'
    BY DEF PutInv
  <2>1. PutKept(p, e, b, m)
    BY <1>1 DEF IInv, PutInv
  <2>2. b # s
    BY <1>1, <2>1 DEF PutKept
  <2>3. b \notin From(m)' /\ task'[b] # "none"
    BY <1>1, <1>2, <1>8, <2>1, <2>2 DEF PutKept
  <2>4. \A r \in {b} \cup From(m)' : Behind(r, e)'
    <3>1. Behind(s, e)'
      BY <1>6, <1>7 DEF Behind
    <3>2. \A r \in {b} \cup From(m) : Behind(r, e)'
      BY <1>6, <2>1 DEF PutKept, Behind, From
    <3> QED BY <1>8, <3>1, <3>2
  <2>5. \A r \in Subs \ ({b} \cup From(m)') : Due(r, e)' => Offered(r, e)'
    <3> SUFFICES ASSUME NEW r \in Subs \ ({b} \cup From(m)'), Due(r, e)' PROVE Offered(r, e)'
      OBVIOUS
    <3>1. r # s
      BY <1>1, <1>2, <2>1 DEF Due, PutKept, Events
    <3>2. Due(r, e) /\ r \notin From(m)
      BY <1>1, <1>2, <1>8, <3>1 DEF Due
    <3> QED BY <1>1, <2>1, <3>2 DEF PutKept, Offered
  <2> QED BY <1>1, <2>1, <2>3, <2>4, <2>5 DEF PutKept
<1>12. BlockKeepsAll' /\ PublisherOrder'
  BY <1>1, <1>6 DEF IInv, BlockKeepsAll, PublisherOrder
<1>13. QueueInv'
  BY <1>1 DEF IInv, QueueInv, Kept
<1>14. ReachesEverySubscriber'
  <2> SUFFICES ASSUME NEW r \in open', NEW e \in returned, Due(r, e)' PROVE Offered(r, e)'
    BY <1>1 DEF ReachesEverySubscriber, Due, Offered
  <2>1. e \in Events /\ e.id < nextId /\ r \in Subs
    BY <1>1 DEF IInv, IdInv, TypeOK
  <2>2. r # s
    BY <1>1, <1>2, <2>1 DEF Due, Events
  <2> QED BY <1>1, <1>2, <2>2 DEF IInv, ReachesEverySubscriber, Due, Offered
<1> QED BY <1>4, <1>9, <1>10, <1>11, <1>12, <1>13, <1>14 DEF IInv

(* publish() starts at the first subscription, behind its new number.      *)
LEMMA PublishKeeps ==
  ASSUME IInv, NEW p \in Publishers, NEW type \in Types, Publish(p, type)
  PROVE  IInv'
<1> DEFINE e == [id |-> nextId, type |-> type, by |-> p]
<1>1. /\ Walk(p, e, {}, 1) /\ nextId' = nextId + 1 /\ nextId <= MaxEvents
      /\ UNCHANGED <<busClosed, subList, open, task, taken, joined>>
  BY DEF Publish
<1>2. nextId \in Nat \ {0} /\ MaxEvents \in Nat
  BY BusAssumption DEF IInv, TypeOK
<1>3. e \in Events /\ e.by = p /\ e.id = nextId
  BY <1>1, <1>2 DEF Events
<1> HIDE DEF e
<1>4. /\ nextId' \in 1..(MaxEvents + 1) /\ e.id < nextId' /\ nextId <= nextId'
  BY <1>1, <1>2, <1>3
<1>5. \A s \in {} \cup From(1) : Behind(s, e)
  BY <1>3 DEF IInv, IdInv, Behind, From
<1>6. \A s \in Subs \ ({} \cup From(1)) : Due(s, e) => Offered(s, e)
  BY DEF IInv, ListInv, Due
<1>7. 1 \in Nat \ {0} /\ {} \in SUBSET Subs
  OBVIOUS
<1>8. \A s \in {} : ~Full(s) /\ s \notin From(1) /\ task[s] # "none"
  OBVIOUS
<1> QED BY <1>1, <1>3, <1>4, <1>5, <1>6, <1>7, <1>8, WalkKeeps

(* A put() that found room goes on where it stopped, with the same event.  *)
LEMMA PutResumesKeeps ==
  ASSUME IInv, NEW p \in Publishers, PutResumes(p)
  PROVE  IInv'
<1>1. pub[p] \in Puts
  BY PutIs DEF PutResumes, IInv, TypeOK
<1>2. PICK e \in Events, s \in Subs, m \in Nat :
        /\ pub[p] = Put(s, e, m) /\ pub[p].evt = e /\ pub[p].sub = s /\ pub[p].next = m
  BY <1>1, PutIs
<1>3. PutKept(p, e, s, m)
  BY <1>2 DEF IInv, PutInv
<1>4. /\ Walk(p, e, {s}, m) /\ ~Full(s)
      /\ UNCHANGED <<busClosed, subList, open, task, nextId, taken, joined>>
  BY <1>2 DEF PutResumes
<1>5. /\ e.by = p /\ e.id < nextId' /\ m \in Nat \ {0} /\ {s} \in SUBSET Subs
      /\ nextId' \in 1..(MaxEvents + 1) /\ nextId <= nextId'
  BY <1>3, <1>4, BusAssumption DEF PutKept, IInv, TypeOK
<1>6. /\ \A r \in {s} : ~Full(r) /\ r \notin From(m) /\ task[r] # "none"
      /\ \A r \in {s} \cup From(m) : Behind(r, e)
      /\ \A r \in Subs \ ({s} \cup From(m)) : Due(r, e) => Offered(r, e)
  BY <1>3, <1>4 DEF PutKept
<1> QED BY <1>4, <1>5, <1>6, WalkKeeps

(* The consumer moves the oldest queued event to what was taken: the       *)
(* stream stays the same.                                                  *)
LEMMA TakeKeeps ==
  ASSUME IInv, NEW s \in Subs, Take(s)
  PROVE  IInv'
<1>1. /\ task[s] = "waiting" /\ queue[s] # <<>>
      /\ queue' = [queue EXCEPT ![s] = Tail(@)]
      /\ taken' = [taken EXCEPT ![s] = Append(@, Head(queue[s]))]
      /\ task' = [task EXCEPT ![s] = "handling"]
      /\ UNCHANGED <<busClosed, subList, open, pub, nextId, offered, returned, joined>>
  BY DEF Take
<1>2. /\ queue \in [Subs -> Seq(Events)] /\ taken \in [Subs -> Seq(Events)]
      /\ offered \in [Subs -> Seq(Events)] /\ task \in [Subs -> TaskStates]
      /\ \A r \in Subs : Len(queue[r]) <= MaxSize[r]
  BY DEF IInv, TypeOK
<1>3. /\ queue'[s] = Tail(queue[s]) /\ taken'[s] = Append(taken[s], Head(queue[s]))
      /\ \A r \in Subs : r # s => queue'[r] = queue[r] /\ taken'[r] = taken[r]
      /\ \A r \in Subs : task'[r] = "none" <=> task[r] = "none"
  BY <1>1, <1>2
<1>4. \A q \in Seq(Events) : q # <<>> =>
        /\ Head(q) \in Events /\ Head(q) = q[1]
        /\ Tail(q) \in Seq(Events) /\ Len(Tail(q)) = Len(q) - 1
        /\ \A k \in 1..(Len(q) - 1) : Tail(q)[k] = q[k + 1]
  BY HeadTailProperties
<1>5. \A r \in Subs : Stream(r)' = Stream(r)
  <2>1. \A t, q \in Seq(Events) : q # <<>> => Append(t, Head(q)) \o Tail(q) = t \o q
    OBVIOUS
  <2>2. Append(taken[s], Head(queue[s])) \o Tail(queue[s]) = taken[s] \o queue[s]
    BY <1>1, <1>2, <2>1, Zenon
  <2>3. Stream(s)' = Stream(s)
    BY <1>3, <2>2, Zenon DEF Stream
  <2> QED BY <1>3, <2>3 DEF Stream
<1>6. TypeOK'
  <2>1. Tail(queue[s]) \in Seq(Events) /\ Append(taken[s], Head(queue[s])) \in Seq(Events)
    BY <1>1, <1>2, <1>4
  <2>2. Len(Tail(queue[s])) <= MaxSize[s]
    <3>1. Len(queue[s]) \in Nat /\ MaxSize[s] \in Nat
      BY <1>2, BusAssumption
    <3> QED BY <1>1, <1>2, <1>4, <3>1
  <2>3. queue' \in [Subs -> Seq(Events)] /\ taken' \in [Subs -> Seq(Events)]
    BY <1>1, <1>2, <2>1
  <2>4. \A r \in Subs : Len(queue'[r]) <= MaxSize[r]
    BY <1>2, <1>3, <2>2
  <2>5. task' \in [Subs -> TaskStates]
    BY <1>1, <1>2 DEF TaskStates
  <2> QED BY <1>1, <2>3, <2>4, <2>5 DEF IInv, TypeOK
<1>7. ListInv'
  <2>1. subList \in Seq(Subs) /\ \A k \in DOMAIN subList : subList[k] \in Subs
    BY DEF IInv, TypeOK
  <2> QED BY <1>1, <1>3, <2>1 DEF IInv, ListInv, From
<1>8. IdInv' /\ PublisherOrder'
  BY <1>1, <1>5 DEF IInv, IdInv, PublisherOrder
<1>9. BlockKeepsAll'
  BY <1>1, <1>5 DEF IInv, BlockKeepsAll
<1>10. PutInv'
  <2> SUFFICES ASSUME NEW p \in Publishers, NEW e \in Events, NEW b \in Subs, NEW m \in Nat,
                      pub'[p] = Put(b, e, m)
               PROVE  PutKept(p, e, b, m)'
    BY DEF PutInv
  <2>1. PutKept(p, e, b, m)
    BY <1>1 DEF IInv, PutInv
  <2>2. From(m)' = From(m) /\ From(m) \subseteq Subs
    BY <1>1 DEF From
  <2>3. \A r \in Subs : Behind(r, e)' <=> Behind(r, e)
    BY <1>5 DEF Behind
  <2>4. \A r \in Subs : (Due(r, e)' <=> Due(r, e)) /\ (Offered(r, e)' <=> Offered(r, e))
    BY <1>1 DEF Due, Offered
  <2> QED BY <1>1, <1>3, <2>1, <2>2, <2>3, <2>4 DEF PutKept
<1>11. ReachesEverySubscriber'
  BY <1>1 DEF IInv, ReachesEverySubscriber
<1>12. Kept(s)'
  <2> DEFINE n == Len(queue[s])
             m == Len(offered[s])
  <2>1. n \in Nat /\ n > 0 /\ m \in Nat /\ n <= m /\ Len(taken[s]) \in Nat
    BY <1>1, <1>2 DEF IInv, QueueInv, Kept
  <2>2. /\ \A k \in 1..n : queue[s][k] = offered[s][m - n + k]
        /\ \A i \in 1..(m - n) : \/ \E j \in DOMAIN taken[s] : taken[s][j] = offered[s][i]
                                 \/ Overflow[s] = "drop_oldest" /\ m - i >= MaxSize[s]
    BY DEF IInv, QueueInv, Kept
  <2>3. /\ Len(queue'[s]) = n - 1 /\ \A k \in 1..(n - 1) : queue'[s][k] = queue[s][k + 1]
        /\ Head(queue[s]) = queue[s][1]
    BY <1>1, <1>2, <1>3, <1>4
  <2>4. /\ DOMAIN taken[s] \subseteq DOMAIN taken'[s]
        /\ \A j \in DOMAIN taken[s] : taken'[s][j] = taken[s][j]
        /\ \E j \in DOMAIN taken'[s] : taken'[s][j] = queue[s][1]
    <3>1. Head(queue[s]) \in Events /\ taken[s] \in Seq(Events)
      BY <1>1, <1>2, <1>4
    <3>2. /\ DOMAIN taken'[s] = 1..(Len(taken[s]) + 1) /\ DOMAIN taken[s] = 1..Len(taken[s])
          /\ taken'[s][Len(taken[s]) + 1] = Head(queue[s])
          /\ \A j \in 1..Len(taken[s]) : taken'[s][j] = taken[s][j]
      BY <1>3, <3>1, AppendProperties
    <3> QED BY <2>1, <2>3, <3>2
  <2>5. offered'[s] = offered[s] /\ Len(offered'[s]) = m
    BY <1>1
  <2> HIDE DEF n, m
  <2>6. ASSUME NEW k \in 1..(n - 1) PROVE queue'[s][k] = offered[s][m - (n - 1) + k]
    <3>1. k + 1 \in 1..n /\ m - n + (k + 1) = m - (n - 1) + k
      BY <2>1
    <3> QED BY <2>2, <2>3, <3>1
  <2>7. ASSUME NEW i \in 1..(m - (n - 1))
        PROVE  \/ \E j \in DOMAIN taken'[s] : taken'[s][j] = offered[s][i]
               \/ Overflow[s] = "drop_oldest" /\ m - i >= MaxSize[s]
    <3>1. CASE i \in 1..(m - n)
      BY <2>2, <2>4, <3>1
    <3>2. CASE i = m - n + 1
      <4>1. offered[s][i] = queue[s][1]
        BY <2>1, <2>2, <3>2
      <4> QED BY <2>4, <4>1
    <3> QED BY <2>1, <3>1, <3>2
  <2>8. n - 1 <= m
    BY <2>1
  <2> QED BY <2>3, <2>5, <2>6, <2>7, <2>8 DEF Kept
<1>13. QueueInv'
  <2>1. ASSUME NEW r \in Subs, r # s PROVE Kept(r)'
    <3>1. Kept(r) /\ queue'[r] = queue[r] /\ taken'[r] = taken[r] /\ offered' = offered
      BY <1>1, <1>3, <2>1 DEF IInv, QueueInv
    <3> QED BY <3>1 DEF Kept
  <2> QED BY <1>12, <2>1 DEF QueueInv
<1> QED BY <1>6, <1>7, <1>8, <1>9, <1>10, <1>11, <1>13 DEF IInv

-----------------------------------------------------------------------------
(* A bus that was just made, and every step of it, keeps the invariant.    *)
LEMMA InitInv == Init => IInv
<1> SUFFICES ASSUME Init PROVE IInv
  OBVIOUS
<1>1. TypeOK
  <2>1. <<>> \in Seq(Subs) /\ <<>> \in Seq(Events) /\ Len(<<>>) = 0
    OBVIOUS
  <2>2. 1 \in 1..(MaxEvents + 1) /\ \A s \in Subs : 0 <= MaxSize[s]
    BY BusAssumption
  <2> QED BY <2>1, <2>2 DEF Init, TypeOK, TaskStates
<1>2. \A s \in Subs : Stream(s) = <<>>
  <2>1. <<>> \o <<>> = <<>>
    OBVIOUS
  <2> QED BY <2>1 DEF Init, Stream
<1>3. ListInv
  BY DEF Init, ListInv
<1>4. IdInv /\ BlockKeepsAll /\ PublisherOrder /\ ReachesEverySubscriber
  BY <1>2 DEF Init, IdInv, BlockKeepsAll, PublisherOrder, ReachesEverySubscriber
<1>5. PutInv
  BY PutIs DEF Init, PutInv
<1>6. QueueInv
  BY DEF Init, QueueInv, Kept
<1> QED BY <1>1, <1>3, <1>4, <1>5, <1>6 DEF IInv

LEMMA NextInv ==
  ASSUME IInv, [Next]_vars
  PROVE  IInv'
<1>1. /\ busClosed \in BOOLEAN /\ task \in [Subs -> TaskStates] /\ open \subseteq Subs
      /\ pub \in [Publishers -> {Idle} \cup Puts] /\ (busClosed => open = {})
      /\ \A s \in open : task[s] # "none"
  BY DEF IInv, TypeOK, ListInv, From
<1>2. ASSUME NEW s \in Subs, Subscribe(s) PROVE IInv'
  BY <1>2, SubscribeKeeps
<1>3. ASSUME NEW p \in Publishers, NEW type \in Types, Publish(p, type) PROVE IInv'
  BY <1>3, PublishKeeps
<1>4. ASSUME NEW p \in Publishers, PutResumes(p) PROVE IInv'
  BY <1>4, PutResumesKeeps
<1>5. ASSUME NEW s \in Subs, Take(s) PROVE IInv'
  BY <1>5, TakeKeeps
<1>6. ASSUME NEW s \in Subs, HandlerReturns(s) PROVE IInv'
  <2>1. /\ UNCHANGED <<queue, nextId, offered, taken, returned, joined>>
        /\ subList' = subList /\ busClosed' = busClosed /\ open' \subseteq open
        /\ task' \in [Subs -> TaskStates]
        /\ \A r \in Subs : task'[r] = "none" <=> task[r] = "none"
    BY <1>1, <1>6 DEF HandlerReturns, TaskStates
  <2>2. /\ pub' \in [Publishers -> {Idle} \cup Puts]
        /\ \A p \in Publishers : pub'[p] \in {pub[p], Idle}
    BY <1>1, <1>6 DEF HandlerReturns
  <2>3. busClosed' \in BOOLEAN /\ (busClosed' => open' = {})
    BY <1>1, <2>1
  <2>4. Calm
    BY <2>1, <2>2, <2>3 DEF Calm
  <2> QED BY <2>4, CalmKeeps
<1>7. ASSUME NEW s \in Subs, Unsubscribe(s) PROVE IInv'
  <2>1. /\ UNCHANGED <<queue, nextId, offered, taken, returned, joined>>
        /\ subList' = subList /\ busClosed' = busClosed /\ open' \subseteq open
        /\ task' \in [Subs -> TaskStates]
        /\ \A r \in Subs : task'[r] = "none" <=> task[r] = "none"
    BY <1>1, <1>7 DEF Unsubscribe, TaskStates
  <2>2. /\ pub' \in [Publishers -> {Idle} \cup Puts]
        /\ \A p \in Publishers : pub'[p] \in {pub[p], Idle}
    BY <1>1, <1>7 DEF Unsubscribe
  <2>3. busClosed' \in BOOLEAN /\ (busClosed' => open' = {})
    BY <1>1, <2>1
  <2>4. Calm
    BY <2>1, <2>2, <2>3 DEF Calm
  <2> QED BY <2>4, CalmKeeps
<1>8. ASSUME NEW s \in Subs, CancelDelivered(s) PROVE IInv'
  <2>1. /\ UNCHANGED <<queue, nextId, offered, taken, returned, joined>>
        /\ subList' = subList /\ busClosed' = busClosed /\ open' \subseteq open
        /\ task' \in [Subs -> TaskStates]
        /\ \A r \in Subs : task'[r] = "none" <=> task[r] = "none"
    BY <1>1, <1>8 DEF CancelDelivered, TaskStates
  <2>2. /\ pub' \in [Publishers -> {Idle} \cup Puts]
        /\ \A p \in Publishers : pub'[p] \in {pub[p], Idle}
    BY <1>1, <1>8 DEF CancelDelivered
  <2>3. busClosed' \in BOOLEAN /\ (busClosed' => open' = {})
    BY <1>1, <2>1
  <2>4. Calm
    BY <2>1, <2>2, <2>3 DEF Calm
  <2> QED BY <2>4, CalmKeeps
<1>9. CASE Close
  <2>1. Calm
    BY <1>1, <1>9 DEF Close, TaskStates, Calm
  <2> QED BY <2>1, CalmKeeps
<1>10. CASE CloseReturns
  <2>1. Calm
    BY <1>1, <1>10 DEF CloseReturns, Calm
  <2> QED BY <2>1, CalmKeeps
<1>11. CASE UNCHANGED vars
  <2>1. /\ UNCHANGED <<queue, nextId, offered, taken, returned, joined>>
        /\ subList' = subList /\ busClosed' = busClosed /\ open' = open
        /\ task' = task /\ pub' = pub
    BY <1>11 DEF vars
  <2>2. /\ open' \subseteq open /\ busClosed' \in BOOLEAN /\ (busClosed' => open' = {})
        /\ task' \in [Subs -> TaskStates] /\ pub' \in [Publishers -> {Idle} \cup Puts]
        /\ \A s \in Subs : task'[s] = "none" <=> task[s] = "none"
        /\ \A p \in Publishers : pub'[p] \in {pub[p], Idle}
    BY <1>1, <2>1
  <2>3. Calm
    BY <2>1, <2>2 DEF Calm
  <2> QED BY <2>3, CalmKeeps
<1> QED BY <1>2, <1>3, <1>4, <1>5, <1>6, <1>7, <1>8, <1>9, <1>10, <1>11 DEF Next, Stopped

(* Queues, lists and put() calls stay consistent with what was offered,    *)
(* taken and published, on every path through publish().                   *)
THEOREM Inductive == Spec => []IInv
<1>1. IInv /\ [Next]_vars => IInv'
  BY NextInv
<1> QED BY <1>1, InitInv, PTL DEF Spec

(* A drop_oldest subscription loses an event only to MaxSize newer ones.   *)
LEMMA NewestKept ==
  ASSUME IInv
  PROVE  FreshestKept
<1> SUFFICES ASSUME NEW s \in Subs, NEW i \in DOMAIN offered[s],
                    ~(Overflow[s] = "drop_oldest" /\ Len(offered[s]) - i >= MaxSize[s])
             PROVE  \E j \in DOMAIN Stream(s) : Stream(s)[j] = offered[s][i]
  BY DEF FreshestKept
<1>1. taken[s] \in Seq(Events) /\ queue[s] \in Seq(Events) /\ offered[s] \in Seq(Events)
  BY DEF IInv, TypeOK
<1> DEFINE l == Len(taken[s])
           n == Len(queue[s])
           m == Len(offered[s])
<1>2. l \in Nat /\ n \in Nat /\ m \in Nat /\ n <= m /\ i \in 1..m /\ DOMAIN taken[s] = 1..l
  <2>1. n <= m
    BY DEF IInv, QueueInv, Kept
  <2> QED BY <1>1, <2>1
<1>3. /\ DOMAIN Stream(s) = 1..(l + n)
      /\ \A k \in 1..l : Stream(s)[k] = taken[s][k]
      /\ \A k \in 1..n : Stream(s)[l + k] = queue[s][k]
  <2>1. /\ Stream(s) \in Seq(Events) /\ Len(Stream(s)) = l + n
        /\ \A k \in 1..l : Stream(s)[k] = taken[s][k]
        /\ \A k \in 1..n : Stream(s)[l + k] = queue[s][k]
    BY <1>1, StreamIs DEF Stream
  <2>2. \A t \in Seq(Events) : DOMAIN t = 1..Len(t)
    OBVIOUS
  <2> QED BY <2>1, <2>2, Zenon
<1>4. /\ \A k \in 1..n : queue[s][k] = offered[s][m - n + k]
      /\ i \in 1..(m - n) => \E j \in DOMAIN taken[s] : taken[s][j] = offered[s][i]
  BY DEF IInv, QueueInv, Kept
<1> HIDE DEF l, n, m
<1>5. CASE i \in 1..(m - n)
  <2>1. PICK j \in DOMAIN taken[s] : taken[s][j] = offered[s][i]
    BY <1>4, <1>5
  <2>2. j \in 1..(l + n) /\ Stream(s)[j] = taken[s][j]
    BY <1>2, <1>3
  <2> QED BY <1>3, <2>1, <2>2
<1>6. CASE i \notin 1..(m - n)
  <2>1. i - (m - n) \in 1..n /\ m - n + (i - (m - n)) = i /\ l + (i - (m - n)) \in 1..(l + n)
    BY <1>2, <1>6
  <2> QED BY <1>3, <1>4, <2>1
<1> QED BY <1>5, <1>6

(* Whatever is published, subscribed and closed meanwhile, and however     *)
(* often publishers wait: a block subscription is handed everything that   *)
(* was put into its queue, a drop_oldest one loses an event only to        *)
(* MaxSize newer ones, and each sees a publisher's events in order, once.  *)
THEOREM NothingLost == Spec => []Delivered
<1>1. IInv => Delivered
  BY NewestKept DEF IInv, Delivered
<1> QED BY <1>1, Inductive, PTL

(* When publish() has returned, every open subscription that was made      *)
(* before it and wants the event has been offered it.                      *)
THEOREM ReachesAll == Spec => []ReachesEverySubscriber
<1>1. IInv => ReachesEverySubscriber
  BY DEF IInv
<1> QED BY <1>1, Inductive, PTL
=============================================================================
