---------------------------- MODULE ObserversProofs ----------------------------
(***************************************************************************)
(* Proofs about Observers, for every ticket, channel and alert, any length *)
(* of the window and of the list of recent messages, any limits of the     *)
(* breaker and the drift monitor: alarms are real, losers are paused, and  *)
(* no message is repeated within the window.                               *)
(***************************************************************************)
EXTENDS Observers, WellFoundedInduction, TLAPS

-----------------------------------------------------------------------------
(* Numbers and sequences.                                                  *)

LEMMA Least ==
  ASSUME NEW T, T \subseteq Nat, T # {}
  PROVE  \E m \in T : \A n \in T : m <= n
<1> DEFINE R == OpToRel(<, Nat)
<1>1. IsWellFoundedOn(R, Nat)
  BY NatLessThanWellFounded
<1>2. PICK m \in T : \A n \in T : <<n, m>> \notin R
  <2> HIDE DEF R
  <2> QED BY <1>1, WFMin
<1>3. ASSUME NEW n \in T PROVE m <= n
  <2>1. ~(n < m)
    BY <1>2 DEF OpToRel
  <2> HIDE DEF R
  <2> QED BY <2>1
<1> QED BY <1>3

(* What a sequence holds is not looked at: messages may be anything.       *)
IsSeq(s) == \E S : s \in Seq(S)

LEMMA SeqIs ==
  ASSUME NEW s, IsSeq(s)
  PROVE  Len(s) \in Nat /\ DOMAIN s = 1..Len(s) /\ (s = <<>> <=> Len(s) = 0)
BY DEF IsSeq

LEMMA AppendIs ==
  ASSUME NEW s, NEW e, IsSeq(s)
  PROVE  /\ IsSeq(Append(s, e)) /\ Append(s, e) # <<>>
         /\ Len(Append(s, e)) = Len(s) + 1
         /\ \A i \in 1..Len(s) : Append(s, e)[i] = s[i]
         /\ Append(s, e)[Len(s) + 1] = e
<1>1. PICK S : s \in Seq(S)
  BY DEF IsSeq
<1>2. s \in Seq(S \cup {e}) /\ e \in S \cup {e}
  BY <1>1
<1>3. Append(s, e) \in Seq(S \cup {e})
  BY <1>2
<1> QED BY <1>2, <1>3 DEF IsSeq

LEMMA RestIs ==
  ASSUME NEW s, IsSeq(s), NEW k \in 1..(Len(s) + 1)
  PROVE  LET r == SubSeq(s, k, Len(s))
         IN  /\ IsSeq(r)
             /\ Len(r) = Len(s) + 1 - k
             /\ \A i \in 1..(Len(s) + 1 - k) : r[i] = s[k - 1 + i]
<1>1. PICK S : s \in Seq(S)
  BY DEF IsSeq
<1>2. Len(s) \in Nat
  BY <1>1
<1>3. SubSeq(s, k, Len(s)) \in Seq(S)
  BY <1>1, <1>2
<1>4. Len(SubSeq(s, k, Len(s))) = Len(s) + 1 - k
  BY <1>1, <1>2
<1>5. \A i \in 1..(Len(s) + 1 - k) : SubSeq(s, k, Len(s))[i] = s[k - 1 + i]
  BY <1>1, <1>2
<1> QED BY <1>3, <1>4, <1>5 DEF IsSeq

LEMMA TailIs ==
  ASSUME NEW s, IsSeq(s), s # <<>>
  PROVE  /\ IsSeq(Tail(s))
         /\ Len(Tail(s)) = Len(s) - 1
         /\ \A i \in 1..(Len(s) - 1) : Tail(s)[i] = s[i + 1]
<1>1. PICK S : s \in Seq(S)
  BY DEF IsSeq
<1>2. Tail(s) \in Seq(S)
  BY <1>1
<1> QED BY <1>1, <1>2 DEF IsSeq

-----------------------------------------------------------------------------
(* The notifications.                                                      *)

(* r is the end of all; what went before is out of the window at time t or *)
(* did not fit.                                                            *)
EndOf(r, all) ==
  /\ IsSeq(r) /\ Len(r) <= Len(all)
  /\ \A i \in 1..Len(r) : r[i] = all[Len(all) - Len(r) + i]

Outdated(r, all, t) ==
  Len(r) < Len(all) => Len(r) = MaxRecent \/ all[Len(all) - Len(r)].at + Window < t

Ordered(all, t) ==
  /\ IsSeq(all)
  /\ \A i \in 1..Len(all) : all[i].at \in 0..t
  /\ \A i, j \in 1..Len(all) : i <= j => all[i].at <= all[j].at

SentInv ==
  /\ now \in Nat /\ Len(recent) <= MaxRecent
  /\ Ordered(sends, now) /\ EndOf(recent, sends) /\ Outdated(recent, sends, now)

InboxInv == \A c \in Classes : IsSeq(inbox[c])

(* _is_duplicate() drops the messages up to the first in the window.       *)
LEMMA KeptIs ==
  ASSUME SentInv
  PROVE  /\ Kept \in 1..(Len(recent) + 1)
         /\ Kept <= Len(recent) => recent[Kept].at + Window >= now
         /\ \A i \in 1..(Kept - 1) : recent[i].at + Window < now
<1> DEFINE Good(k) == /\ k <= Len(recent) => recent[k].at + Window >= now
                      /\ \A i \in 1..(k - 1) : recent[i].at + Window < now
           T == {k \in 1..(Len(recent) + 1) : k <= Len(recent) => recent[k].at + Window >= now}
<1>1. Len(recent) \in Nat /\ Len(sends) \in Nat /\ Window \in Nat /\ now \in Nat
  BY SeqIs, NoticeAssumption DEF SentInv, EndOf, Ordered
<1>2. \A i \in 1..Len(recent) : recent[i].at \in Nat
  <2> TAKE i \in 1..Len(recent)
  <2>1. Len(sends) - Len(recent) + i \in 1..Len(sends)
    BY <1>1 DEF SentInv, EndOf
  <2>2. recent[i].at \in 0..now
    BY <2>1 DEF SentInv, EndOf, Ordered
  <2> QED BY <2>2
<1>3. PICK m \in T : \A n \in T : m <= n
  <2>1. Len(recent) + 1 \in T /\ T \subseteq Nat
    BY <1>1
  <2> HIDE DEF T
  <2> QED BY <2>1, Least
<1>4. m \in 1..(Len(recent) + 1) /\ Good(m)
  <2>1. m \in 1..(Len(recent) + 1)
    BY <1>3
  <2>2. ASSUME NEW i \in 1..(m - 1) PROVE recent[i].at + Window < now
    <3>1. i \in 1..Len(recent) /\ i < m
      BY <1>1, <2>1
    <3>2. i \notin T
      BY <1>3, <2>1, <3>1
    <3>3. ~(recent[i].at + Window >= now)
      BY <1>1, <3>1, <3>2
    <3> QED BY <1>1, <1>2, <3>1, <3>3
  <2> QED BY <1>3, <2>1, <2>2
<1>5. Kept = CHOOSE k \in 1..(Len(recent) + 1) : Good(k)
  BY DEF Kept
<1> HIDE DEF Good
<1>6. Kept \in 1..(Len(recent) + 1) /\ Good(Kept)
  BY <1>4, <1>5
<1> QED BY <1>6 DEF Good

(* What it keeps is still the end of what was sent.                        *)
LEMMA PrunedIs ==
  ASSUME SentInv
  PROVE  /\ EndOf(Pruned, sends) /\ Outdated(Pruned, sends, now)
         /\ Len(Pruned) = Len(recent) + 1 - Kept /\ Len(Pruned) <= MaxRecent
<1>1. Len(recent) \in Nat /\ Len(sends) \in Nat /\ IsSeq(recent) /\ MaxRecent \in Nat
  BY SeqIs, NoticeAssumption DEF SentInv, EndOf, Ordered
<1>2. Kept \in 1..(Len(recent) + 1)
  BY KeptIs
<1>3. /\ IsSeq(Pruned) /\ Len(Pruned) = Len(recent) + 1 - Kept
      /\ \A i \in 1..(Len(recent) + 1 - Kept) : Pruned[i] = recent[Kept - 1 + i]
  BY <1>1, <1>2, RestIs DEF Pruned
<1>4. Len(Pruned) \in Nat /\ Len(Pruned) <= Len(recent)
  BY <1>1, <1>2, <1>3
<1>5. EndOf(Pruned, sends)
  <2>1. ASSUME NEW i \in 1..Len(Pruned)
        PROVE  Pruned[i] = sends[Len(sends) - Len(Pruned) + i]
    <3>1. i \in 1..(Len(recent) + 1 - Kept) /\ Kept - 1 + i \in 1..Len(recent)
      BY <1>1, <1>2, <1>3
    <3>2. Pruned[i] = recent[Kept - 1 + i]
      BY <1>3, <3>1
    <3>3. recent[Kept - 1 + i] = sends[Len(sends) - Len(recent) + (Kept - 1 + i)]
      BY <3>1 DEF SentInv, EndOf
    <3>4. Len(sends) - Len(recent) + (Kept - 1 + i) = Len(sends) - Len(Pruned) + i
      BY <1>1, <1>2, <1>3
    <3> QED BY <3>2, <3>3, <3>4
  <2> QED BY <1>1, <1>3, <1>4, <2>1 DEF SentInv, EndOf
<1>6. Outdated(Pruned, sends, now)
  <2>1. CASE Kept = 1
    BY <1>1, <1>3, <2>1 DEF SentInv, Outdated
  <2>2. CASE Kept # 1
    <3>1. Kept - 1 \in 1..Len(recent) /\ Kept - 1 \in 1..(Kept - 1)
      BY <1>1, <1>2, <2>2
    <3>2. recent[Kept - 1].at + Window < now
      BY <3>1, KeptIs
    <3>3. recent[Kept - 1] = sends[Len(sends) - Len(recent) + (Kept - 1)]
      BY <3>1 DEF SentInv, EndOf
    <3>4. Len(sends) - Len(recent) + (Kept - 1) = Len(sends) - Len(Pruned)
      BY <1>1, <1>2, <1>3
    <3> QED BY <3>2, <3>3, <3>4 DEF Outdated
  <2> QED BY <2>1, <2>2
<1>7. Len(Pruned) <= MaxRecent
  BY <1>1, <1>4 DEF SentInv
<1> QED BY <1>3, <1>5, <1>6, <1>7

(* A message that was sent and is still in the window, is a duplicate or   *)
(* was pushed out by MaxRecent others.                                     *)
LEMMA NotRepeated ==
  ASSUME SentInv, NEW msg, ~IsDuplicate(msg), NEW i \in 1..Len(sends),
         sends[i].msg = msg, now <= sends[i].at + Window
  PROVE  Len(sends) + 1 - i > MaxRecent
<1>1. Len(recent) \in Nat /\ Len(sends) \in Nat /\ MaxRecent \in Nat /\ now \in Nat /\ Window \in Nat
  BY SeqIs, NoticeAssumption DEF SentInv, EndOf, Ordered
<1>2. \A j \in 1..Len(sends) : sends[j].at \in Nat
  BY DEF SentInv, Ordered
<1>3. \A j, k \in 1..Len(sends) : j <= k => sends[j].at <= sends[k].at
  BY DEF SentInv, Ordered
<1>4. /\ Kept \in 1..(Len(recent) + 1)
      /\ \A k \in 1..(Kept - 1) : recent[k].at + Window < now
  BY KeptIs
<1>5. Len(recent) <= Len(sends)
  BY DEF SentInv, EndOf
<1>6. ~(Len(sends) - Len(recent) < i)
  <2> SUFFICES ASSUME Len(sends) - Len(recent) < i PROVE FALSE
    OBVIOUS
  <2> DEFINE k == i - (Len(sends) - Len(recent))
  <2>1. k \in 1..Len(recent)
    BY <1>1, <1>5
  <2>2. recent[k] = sends[Len(sends) - Len(recent) + k]
    BY <2>1 DEF SentInv, EndOf
  <2>3. Len(sends) - Len(recent) + k = i
    BY <1>1
  <2> HIDE DEF k
  <2>4. recent[k] = sends[i]
    BY <2>2, <2>3
  <2>5. ~(k \in 1..(Kept - 1))
    BY <1>1, <1>2, <1>4, <2>4
  <2>6. k \in Kept..Len(recent)
    BY <1>1, <1>4, <2>1, <2>5
  <2> QED BY <2>4, <2>6 DEF IsDuplicate
<1>7. i <= Len(sends) - Len(recent) /\ Len(sends) - Len(recent) \in 1..Len(sends)
  BY <1>1, <1>5, <1>6
<1>8. CASE Len(recent) = MaxRecent
  BY <1>1, <1>7, <1>8
<1>9. CASE sends[Len(sends) - Len(recent)].at + Window < now
  <2>1. sends[i].at <= sends[Len(sends) - Len(recent)].at
    BY <1>3, <1>7
  <2>2. sends[i].at \in Nat /\ sends[Len(sends) - Len(recent)].at \in Nat
    BY <1>2, <1>7
  <2>3. Window \in Nat /\ now \in Nat /\ now <= sends[i].at + Window
    BY <1>1
  <2>4. \A a, b, w, c \in Nat : ~(a <= b /\ b + w < c /\ c <= a + w)
    OBVIOUS
  <2> QED BY <1>9, <2>1, <2>2, <2>3, <2>4, Zenon
<1> QED
  <2>1. Len(recent) < Len(sends)
    BY <1>1, <1>7
  <2> QED BY <1>8, <1>9, <2>1 DEF SentInv, Outdated

(* The message is remembered: the oldest one goes when there are too many. *)
LEMMA RememberedIs ==
  ASSUME SentInv, NEW msg, recent' = Remembered(msg),
         sends' = Append(sends, [msg |-> msg, at |-> now]), now' = now
  PROVE  SentInv'
<1> DEFINE m == [msg |-> msg, at |-> now]
           all == Append(Pruned, m)
<1>1. Len(Pruned) \in Nat /\ Len(sends) \in Nat /\ MaxRecent \in Nat /\ now \in Nat /\ Window \in Nat
  BY SeqIs, PrunedIs, NoticeAssumption DEF SentInv, EndOf, Ordered
<1>2. /\ IsSeq(Pruned) /\ Len(Pruned) <= Len(sends) /\ Len(Pruned) <= MaxRecent
      /\ \A i \in 1..Len(Pruned) : Pruned[i] = sends[Len(sends) - Len(Pruned) + i]
  BY PrunedIs DEF EndOf
<1>3. /\ IsSeq(all) /\ all # <<>> /\ Len(all) = Len(Pruned) + 1
      /\ \A i \in 1..Len(Pruned) : all[i] = Pruned[i]
      /\ all[Len(Pruned) + 1] = m
  BY <1>2, AppendIs
<1>4. /\ IsSeq(sends') /\ Len(sends') = Len(sends) + 1
      /\ \A i \in 1..Len(sends) : sends'[i] = sends[i]
      /\ sends'[Len(sends) + 1] = m
  BY AppendIs DEF SentInv, Ordered
<1>5. m.at = now
  OBVIOUS
<1> HIDE DEF m
<1>6. recent' = IF Len(all) > MaxRecent THEN Tail(all) ELSE all
  BY DEF Remembered, m
<1> HIDE DEF all
<1>7. Ordered(sends', now')
  <2>1. \A i \in 1..Len(sends) : sends[i].at \in 0..now
    BY DEF SentInv, Ordered
  <2>2. \A i, j \in 1..Len(sends) : i <= j => sends[i].at <= sends[j].at
    BY DEF SentInv, Ordered
  <2>3. \A i \in 1..Len(sends') : sends'[i].at \in 0..now
    BY <1>1, <1>4, <1>5, <2>1
  <2>4. ASSUME NEW i \in 1..Len(sends'), NEW j \in 1..Len(sends'), i <= j
        PROVE  sends'[i].at <= sends'[j].at
    <3>1. CASE j = Len(sends) + 1
      BY <1>1, <1>4, <1>5, <2>3, <3>1
    <3>2. CASE j # Len(sends) + 1
      <4>1. i \in 1..Len(sends) /\ j \in 1..Len(sends)
        BY <1>1, <1>4, <2>4, <3>2
      <4> QED BY <1>4, <2>2, <2>4, <4>1
    <3> QED BY <3>1, <3>2
  <2> QED BY <1>4, <2>3, <2>4 DEF Ordered
<1>8. \A i \in 1..Len(all) : all[i] = sends'[Len(sends') - Len(all) + i]
  <2> TAKE i \in 1..Len(all)
  <2>1. CASE i = Len(Pruned) + 1
    BY <1>1, <1>2, <1>3, <1>4, <2>1
  <2>2. CASE i # Len(Pruned) + 1
    <3>1. /\ i \in 1..Len(Pruned) /\ Len(sends) - Len(Pruned) + i \in 1..Len(sends)
          /\ Len(sends') - Len(all) + i = Len(sends) - Len(Pruned) + i
      BY <1>1, <1>2, <1>3, <1>4, <2>2
    <3>2. all[i] = Pruned[i] /\ Pruned[i] = sends[Len(sends) - Len(Pruned) + i]
      BY <1>2, <1>3, <3>1
    <3>3. sends'[Len(sends) - Len(Pruned) + i] = sends[Len(sends) - Len(Pruned) + i]
      BY <1>4, <3>1
    <3> QED BY <3>1, <3>2, <3>3
  <2> QED BY <2>1, <2>2
<1>9. CASE Len(all) > MaxRecent
  <2>1. /\ IsSeq(recent') /\ Len(recent') = Len(all) - 1
        /\ \A i \in 1..(Len(all) - 1) : recent'[i] = all[i + 1]
    BY <1>3, <1>6, <1>9, TailIs
  <2>2. Len(recent') = MaxRecent
    BY <1>1, <1>2, <1>3, <1>9, <2>1
  <2>3. ASSUME NEW i \in 1..Len(recent')
        PROVE  recent'[i] = sends'[Len(sends') - Len(recent') + i]
    <3>1. /\ i \in 1..(Len(all) - 1) /\ i + 1 \in 1..Len(all)
          /\ Len(sends') - Len(all) + (i + 1) = Len(sends') - Len(recent') + i
      BY <1>1, <1>3, <1>4, <2>1
    <3> QED BY <1>8, <2>1, <3>1
  <2>4. Len(recent') <= Len(sends')
    BY <1>1, <1>2, <1>3, <1>4, <2>1
  <2>5. EndOf(recent', sends')
    BY <2>1, <2>3, <2>4 DEF EndOf
  <2>6. Outdated(recent', sends', now')
    BY <2>2 DEF Outdated
  <2>7. now' \in Nat /\ Len(recent') <= MaxRecent
    BY <1>1, <2>2
  <2> QED BY <1>7, <2>5, <2>6, <2>7 DEF SentInv
<1>10. CASE ~(Len(all) > MaxRecent)
  <2>1. recent' = all
    BY <1>6, <1>10
  <2>2. EndOf(recent', sends')
    <3>1. Len(all) <= Len(sends')
      BY <1>1, <1>2, <1>3, <1>4
    <3> QED BY <1>3, <1>8, <2>1, <3>1 DEF EndOf
  <2>3. Outdated(recent', sends', now')
    <3> SUFFICES ASSUME Len(all) < Len(sends')
                 PROVE  sends'[Len(sends') - Len(all)].at + Window < now
      BY <2>1 DEF Outdated
    <3>1. /\ Len(Pruned) < Len(sends) /\ Len(Pruned) # MaxRecent
          /\ Len(sends) - Len(Pruned) \in 1..Len(sends)
          /\ Len(sends') - Len(all) = Len(sends) - Len(Pruned)
      BY <1>1, <1>2, <1>3, <1>4, <1>10
    <3>2. sends[Len(sends) - Len(Pruned)].at + Window < now
      BY <3>1, PrunedIs DEF Outdated
    <3> QED BY <1>4, <3>1, <3>2
  <2>4. now' \in Nat /\ Len(recent') <= MaxRecent
    BY <1>1, <1>3, <1>10, <2>1
  <2> QED BY <1>7, <2>2, <2>3, <2>4 DEF SentInv
<1> QED BY <1>9, <1>10

LEMMA StormKept ==
  ASSUME SentInv, NoStorm, NEW msg, ~IsDuplicate(msg),
         sends' = Append(sends, [msg |-> msg, at |-> now])
  PROVE  NoStorm'
<1> DEFINE m == [msg |-> msg, at |-> now]
<1>1. Len(sends) \in Nat /\ DOMAIN sends = 1..Len(sends)
  BY SeqIs DEF SentInv, Ordered
<1>2. /\ IsSeq(sends') /\ Len(sends') = Len(sends) + 1
      /\ \A i \in 1..Len(sends) : sends'[i] = sends[i]
      /\ sends'[Len(sends) + 1] = m
  BY AppendIs DEF SentInv, Ordered
<1>3. DOMAIN sends' = 1..(Len(sends) + 1)
  BY <1>2, SeqIs
<1>4. m.at = now /\ m.msg = msg
  OBVIOUS
<1> HIDE DEF m
<1>5. ASSUME NEW i \in DOMAIN sends', NEW j \in DOMAIN sends', i < j,
             sends'[i].msg = sends'[j].msg, sends'[j].at <= sends'[i].at + Window
      PROVE  j - i > MaxRecent
  <2>1. i \in 1..Len(sends) /\ sends'[i] = sends[i]
    BY <1>1, <1>2, <1>3, <1>5
  <2>2. CASE j = Len(sends) + 1
    <3>1. sends[i].msg = msg /\ now <= sends[i].at + Window
      BY <1>2, <1>4, <1>5, <2>1, <2>2
    <3> QED BY <2>1, <2>2, <3>1, NotRepeated
  <2>3. CASE j # Len(sends) + 1
    <3>1. j \in 1..Len(sends) /\ sends'[j] = sends[j]
      BY <1>1, <1>2, <1>3, <2>3
    <3> QED BY <1>1, <1>5, <2>1, <3>1 DEF NoStorm
  <2> QED BY <2>2, <2>3
<1> QED BY <1>5 DEF NoStorm

(* Each class has its task; a task that sends has an event and a target.   *)
TaskInv ==
  /\ DOMAIN inbox = Classes /\ DOMAIN targets = Classes /\ sending \in [Classes -> BOOLEAN]
  /\ \A c \in Classes : IsSeq(inbox[c]) /\ (sending[c] => targets[c] # {} /\ inbox[c] # <<>>)

NoticeInv == now \in 0..MaxTime /\ begun \in [Classes -> 0..now] /\ SentInv /\ TaskInv /\ NoStorm

LEMMA NoticeTypes ==
  ASSUME NoticeInv
  PROVE  NoticeTypeOK
<1>1. Len(recent) \in Nat /\ Len(sends) \in Nat /\ DOMAIN recent = 1..Len(recent)
  BY SeqIs DEF NoticeInv, SentInv, EndOf, Ordered
<1>2. ASSUME NEW i \in DOMAIN recent PROVE recent[i].at \in 0..now
  <2>1. Len(sends) - Len(recent) + i \in 1..Len(sends)
    BY <1>1, <1>2 DEF NoticeInv, SentInv, EndOf
  <2> QED BY <1>1, <2>1 DEF NoticeInv, SentInv, EndOf, Ordered
<1> QED BY <1>2 DEF NoticeInv, NoticeTypeOK, TaskInv, SentInv

LEMMA NoticeInitially ==
  ASSUME NoticeInit
  PROVE  NoticeInv
<1>1. IsSeq(<<>>) /\ Len(<<>>) = 0
  <2>1. <<>> \in Seq({})
    OBVIOUS
  <2> QED BY <2>1 DEF IsSeq
<1>2. SentInv
  BY <1>1, NoticeAssumption DEF NoticeInit, SentInv, Ordered, EndOf, Outdated
<1>3. begun \in [Classes -> 0..now]
  BY DEF NoticeInit
<1> QED BY <1>1, <1>2, <1>3, NoticeAssumption DEF NoticeInit, NoticeInv, TaskInv, NoStorm

(* Publishing adds to the inboxes and starts no send.                      *)
LEMMA Announced ==
  ASSUME NoticeInv, NEW evts, Announce(evts), UNCHANGED <<now, recent, sending, sends>>
  PROVE  NoticeInv'
<1>1. SentInv' /\ NoStorm' /\ now' \in 0..MaxTime
  BY DEF NoticeInv, SentInv, NoStorm
<1>2. DOMAIN inbox' = Classes /\ DOMAIN targets' = Classes /\ sending' \in [Classes -> BOOLEAN]
  BY DEF NoticeInv, TaskInv, Announce, Published
<1>3. ASSUME NEW c \in Classes
      PROVE  IsSeq(inbox'[c]) /\ (sending'[c] => targets'[c] # {} /\ inbox'[c] # <<>>)
  <2>1. IsSeq(inbox[c]) /\ (sending[c] => targets[c] # {} /\ inbox[c] # <<>>)
    BY DEF NoticeInv, TaskInv
  <2>2. inbox'[c] = inbox[c] \/ \E e : inbox'[c] = Append(inbox[c], e)
    BY DEF Announce, Published
  <2>3. IsSeq(inbox'[c]) /\ (inbox[c] # <<>> => inbox'[c] # <<>>)
    <3>1. ASSUME NEW e, inbox'[c] = Append(inbox[c], e)
          PROVE  IsSeq(inbox'[c]) /\ inbox'[c] # <<>>
      <4>1. IsSeq(Append(inbox[c], e)) /\ Append(inbox[c], e) # <<>>
        BY <2>1, AppendIs
      <4> QED BY <3>1, <4>1, Zenon
    <3> QED BY <2>1, <2>2, <3>1, Zenon
  <2>4. inbox[c] # <<>> => targets'[c] = targets[c]
    BY DEF Announce, Starts
  <2> QED BY <2>1, <2>3, <2>4
<1>4. begun' \in [Classes -> 0..now']
  <2>1. now \in 0..now /\ now' = now
    BY DEF NoticeInv, SentInv
  <2> QED BY <2>1 DEF NoticeInv, Announce
<1> QED BY <1>1, <1>2, <1>3, <1>4 DEF NoticeInv, TaskInv

LEMMA NoticesStutter ==
  ASSUME NoticeInv, UNCHANGED noticeVars
  PROVE  NoticeInv'
BY DEF NoticeInv, SentInv, TaskInv, NoStorm, noticeVars

(* The time at which an event was taken up.                                *)
LEMMA BegunKept ==
  ASSUME NoticeInv, NEW c \in Classes, NextEvent(c) \/ UNCHANGED begun, now' = now
  PROVE  begun' \in [Classes -> 0..now']
<1>1. now \in 0..now /\ 0 \in 0..now
  BY DEF NoticeInv, SentInv
<1> QED BY <1>1 DEF NoticeInv, NextEvent

(* A task that is done with its event does not send.                       *)
LEMMA NextEventKeeps ==
  ASSUME TaskInv, NEW c \in Classes, inbox[c] # <<>>, NextEvent(c),
         sending' \in [Classes -> BOOLEAN], ~sending'[c],
         \A d \in Classes \ {c} : sending'[d] = sending[d]
  PROVE  TaskInv'
<1>1. DOMAIN inbox' = Classes /\ DOMAIN targets' = Classes
  BY DEF TaskInv, NextEvent
<1>2. inbox'[c] = Tail(inbox[c]) /\ IsSeq(inbox'[c])
  BY TailIs DEF TaskInv, NextEvent
<1>3. \A d \in Classes \ {c} : inbox'[d] = inbox[d] /\ targets'[d] = targets[d]
  BY DEF TaskInv, NextEvent
<1> QED BY <1>1, <1>2, <1>3 DEF TaskInv

LEMMA WalkKeeps ==
  ASSUME NoticeInv, NEW c \in Classes, Walk(c)
  PROVE  NoticeInv'
<1>1. inbox[c] # <<>> /\ ~sending[c] /\ now' = now
  BY DEF Walk
<1>2. CASE NextEvent(c) /\ recent' \in {Pruned, recent} /\ UNCHANGED <<sending, sends>>
  <2>1. TaskInv'
    BY <1>1, <1>2, NextEventKeeps DEF NoticeInv, TaskInv
  <2>2. SentInv'
    <3>1. CASE recent' = recent
      BY <1>1, <1>2, <3>1 DEF NoticeInv, SentInv
    <3>2. CASE recent' = Pruned
      BY <1>1, <1>2, <3>2, PrunedIs DEF NoticeInv, SentInv
    <3> QED BY <1>2, <3>1, <3>2
  <2>3. NoStorm' /\ now' \in 0..MaxTime
    BY <1>1, <1>2 DEF NoticeInv, NoStorm
  <2>4. begun' \in [Classes -> 0..now']
    BY <1>1, <1>2, BegunKept
  <2> QED BY <2>1, <2>2, <2>3, <2>4 DEF NoticeInv
<1>3. ASSUME NEW p \in Sendable(c),
             recent' = Remembered(MessageFor(c, p)),
             targets' = [targets EXCEPT ![c] = {q \in @ : q = p \/ Before(p, q)}],
             sending' = [sending EXCEPT ![c] = TRUE],
             sends' = Append(sends, [msg |-> MessageFor(c, p), at |-> now]),
             inbox' = inbox, begun' = begun
      PROVE  NoticeInv'
  <2>1. p \in targets[c] /\ ~IsDuplicate(MessageFor(c, p))
    BY <1>3 DEF Sendable, Formatted
  <2>2. SentInv'
    BY <1>1, <1>3, RememberedIs DEF NoticeInv
  <2>3. NoStorm'
    BY <1>3, <2>1, StormKept DEF NoticeInv
  <2>4. TaskInv'
    <3>1. targets'[c] # {}
      BY <1>3, <2>1 DEF NoticeInv, TaskInv
    <3>2. \A d \in Classes \ {c} : targets'[d] = targets[d] /\ sending'[d] = sending[d]
      BY <1>3 DEF NoticeInv, TaskInv
    <3> QED BY <1>1, <1>3, <3>1, <3>2 DEF NoticeInv, TaskInv
  <2>5. begun' \in [Classes -> 0..now']
    BY <1>1, <1>3, BegunKept
  <2> QED BY <1>1, <2>2, <2>3, <2>4, <2>5 DEF NoticeInv
<1> QED BY <1>2, <1>3 DEF Walk, First

LEMMA SendKeeps ==
  ASSUME NoticeInv, NEW c \in Classes, SendEnds(c) \/ SendRaises(c)
  PROVE  NoticeInv'
<1>1. /\ sending[c] /\ inbox[c] # <<>> /\ sending' = [sending EXCEPT ![c] = FALSE]
      /\ UNCHANGED <<now, recent, sends>>
  BY DEF SendEnds, SendRaises, NoticeInv, TaskInv
<1>2. /\ sending' \in [Classes -> BOOLEAN] /\ ~sending'[c]
      /\ \A d \in Classes \ {c} : sending'[d] = sending[d]
  BY <1>1 DEF NoticeInv, TaskInv
<1>3. TaskInv'
  <2>1. CASE NextEvent(c)
    BY <1>1, <1>2, <2>1, NextEventKeeps DEF NoticeInv
  <2>2. CASE ~NextEvent(c)
    <3>1. targets' = [targets EXCEPT ![c] = @ \ First(@)] /\ UNCHANGED inbox
      BY <2>2 DEF SendEnds, SendRaises
    <3> QED BY <1>2, <3>1 DEF NoticeInv, TaskInv
  <2> QED BY <2>1, <2>2
<1>4. NextEvent(c) \/ UNCHANGED begun
  BY DEF SendEnds, SendRaises
<1>5. begun' \in [Classes -> 0..now']
  BY <1>1, <1>4, BegunKept
<1> QED BY <1>1, <1>3, <1>5 DEF NoticeInv, SentInv, NoStorm

LEMMA TimeKeeps ==
  ASSUME NoticeInv, TimePasses
  PROVE  NoticeInv'
<1>1. now \in Nat /\ now' = now + 1 /\ now' \in 0..MaxTime /\ UNCHANGED <<recent, sends>>
  BY NoticeAssumption DEF NoticeInv, SentInv, TimePasses
<1>2. Len(recent) \in Nat /\ Len(sends) \in Nat /\ Window \in Nat
  BY SeqIs, NoticeAssumption DEF NoticeInv, SentInv, EndOf, Ordered
<1>3. \A i \in 1..Len(sends) : sends[i].at \in 0..now
  BY DEF NoticeInv, SentInv, Ordered
<1>4. Ordered(sends, now')
  BY <1>1, <1>3 DEF NoticeInv, SentInv, Ordered
<1>5. Outdated(recent, sends, now')
  <2> SUFFICES ASSUME Len(recent) < Len(sends), Len(recent) # MaxRecent
               PROVE  sends[Len(sends) - Len(recent)].at + Window < now'
    BY DEF Outdated
  <2>1. Len(sends) - Len(recent) \in 1..Len(sends)
    BY <1>2
  <2>2. sends[Len(sends) - Len(recent)].at + Window < now
    BY DEF NoticeInv, SentInv, Outdated
  <2> QED BY <1>1, <1>2, <1>3, <2>1, <2>2
<1>6. begun' \in [Classes -> 0..now']
  <2>1. \A n \in 0..now : n \in 0..now'
    BY <1>1
  <2>2. begun' = begun /\ begun \in [Classes -> 0..now]
    BY DEF NoticeInv, TimePasses
  <2> QED BY <2>1, <2>2
<1> QED BY <1>1, <1>4, <1>5, <1>6 DEF NoticeInv, SentInv, TaskInv, NoStorm, TimePasses

LEMMA NoticesKeep ==
  ASSUME NoticeInv, NoticeStep
  PROVE  NoticeInv'
BY WalkKeeps, SendKeeps, TimeKeeps DEF NoticeStep

-----------------------------------------------------------------------------
(* The reconciler.                                                         *)

CheckRec ==
  [ticket : Tickets, at : Live \cup {"cancelled", "unreachable", "ended"}, volume : 0..Volume]

TableInv ==
  /\ checks \in Seq(CheckRec)
  /\ table \in [Tickets -> 0..Len(checks)]
  /\ \A t \in Tickets : table[t] # 0 => checks[table[t]].ticket = t /\ checks[table[t]].at \in Live

(* What is known of a ticket needs a fill; a ticket filled once has one    *)
(* check, which the table has while it is live, and no longer than to the  *)
(* handling of its close.                                                  *)
CheckInv ==
  /\ held \in [Tickets -> 0..Volume]
  /\ leaving \in [Tickets -> {"no", "part", "full"}]
  /\ filled \in [Tickets -> 0..MaxFills]
  /\ TableInv
  /\ \A t \in Tickets : held[t] > 0 \/ leaving[t] # "no" \/ t \in closedOwn => filled[t] >= 1
  /\ \A i \in 1..Len(checks) : filled[checks[i].ticket] >= 1
  /\ \A i, j \in 1..Len(checks) :
       i # j /\ checks[i].ticket = checks[j].ticket => filled[checks[i].ticket] > 1
  /\ \A i \in 1..Len(checks) :
       checks[i].at \in Live => table[checks[i].ticket] = i \/ filled[checks[i].ticket] > 1
  /\ \A i \in 1..Len(checks) :
       checks[i].at \in Live /\ checks[i].ticket \in closedOwn => filled[checks[i].ticket] > 1

AlarmInv == \A m \in mismatches : m.ticket \in Tickets /\ (m.late => filled[m.ticket] > 1)

LEMMA CheckTypes ==
  ASSUME CheckInv
  PROVE  /\ Len(checks) \in Nat /\ DOMAIN checks = 1..Len(checks)
         /\ \A i \in 1..Len(checks) : checks[i] \in CheckRec
         /\ MaxFills \in Nat
BY ObserversAssumption DEF CheckInv, TableInv

LEMMA Emptied ==
  ASSUME NEW c \in CheckRec, NEW a \in {"cancelled", "ended"}
  PROVE  LET r == [c EXCEPT !.at = a, !.volume = 0]
         IN  r \in CheckRec /\ r.ticket = c.ticket /\ r.at = a /\ r.at \notin Live
<1> DEFINE d == [c EXCEPT !.at = a]
<1>1. d \in CheckRec /\ d.ticket = c.ticket /\ d.at = a
  BY DEF CheckRec
<1> HIDE DEF d
<1>2. 0 \in 0..Volume
  BY DEF Volume
<1>3. [d EXCEPT !.volume = 0] \in CheckRec
  BY <1>1, <1>2 DEF CheckRec
<1>4. [d EXCEPT !.volume = 0].ticket = c.ticket /\ [d EXCEPT !.volume = 0].at = a
  BY <1>1 DEF CheckRec
<1>5. a \notin Live
  BY DEF Live
<1> QED BY <1>3, <1>4, <1>5 DEF d

(* Cancelling ends the check the table has for a ticket and no other.      *)
LEMMA CancelIs ==
  ASSUME CheckInv, NEW t \in Tickets, NEW new, new = CancelCheck(checks, table[t])
  PROVE  /\ new \in Seq(CheckRec) /\ Len(new) = Len(checks)
         /\ \A i \in 1..Len(checks) :
              /\ new[i].ticket = checks[i].ticket
              /\ new[i].at \in Live => i # table[t]
              /\ i # table[t] => new[i] = checks[i]
<1>1. table[t] \in 0..Len(checks) /\ checks \in Seq(CheckRec)
  BY DEF CheckInv, TableInv
<1>2. CASE table[t] = 0
  BY <1>1, <1>2 DEF CancelCheck
<1>3. CASE table[t] # 0
  <2>1. table[t] \in 1..Len(checks) /\ checks[table[t]].at \in Live
    BY <1>1, <1>3, CheckTypes DEF CheckInv, TableInv
  <2>2. new = [checks EXCEPT ![table[t]] = [@ EXCEPT !.at = "cancelled", !.volume = 0]]
    BY <1>3, <2>1 DEF CancelCheck, CheckRec
  <2>3. [checks[table[t]] EXCEPT !.at = "cancelled", !.volume = 0] \in CheckRec
    BY <2>1, CheckTypes, Emptied
  <2>4. new \in Seq(CheckRec) /\ Len(new) = Len(checks)
    BY <1>1, <2>1, <2>2, <2>3
  <2>5. new[table[t]].ticket = checks[table[t]].ticket /\ new[table[t]].at = "cancelled"
    BY <1>1, <2>1, <2>2, CheckTypes DEF CheckRec
  <2>6. \A i \in 1..Len(checks) : i # table[t] => new[i] = checks[i]
    BY <1>1, <2>1, <2>2
  <2> QED BY <2>4, <2>5, <2>6 DEF Live
<1> QED BY <1>2, <1>3

LEMMA FillChecks ==
  ASSUME CheckInv, AlarmInv, NEW t \in Tickets, Fill(t)
  PROVE  CheckInv' /\ AlarmInv'
<1> DEFINE new == CancelCheck(checks, table[t])
           c == [ticket |-> t, at |-> "sleeping", volume |-> 0]
<1>1. /\ filled' = [filled EXCEPT ![t] = @ + 1] /\ filled[t] < MaxFills
      /\ checks' = Append(new, c) /\ table' = [table EXCEPT ![t] = Len(checks) + 1]
      /\ UNCHANGED <<leaving, mismatches, closedOwn>>
  BY DEF Fill, StartCheck
<1>2. /\ new \in Seq(CheckRec) /\ Len(new) = Len(checks)
      /\ \A i \in 1..Len(checks) :
           /\ new[i].ticket = checks[i].ticket
           /\ new[i].at \in Live => i # table[t]
           /\ i # table[t] => new[i] = checks[i]
  BY CancelIs
<1>3. c \in CheckRec /\ c.ticket = t /\ c.at \in Live
  BY DEF CheckRec, Live, Volume
<1> HIDE DEF c, new
<1>4. Len(checks) \in Nat /\ MaxFills \in Nat /\ \A i \in 1..Len(checks) : checks[i] \in CheckRec
  BY CheckTypes
<1>5. /\ checks' \in Seq(CheckRec) /\ Len(checks') = Len(checks) + 1
      /\ \A i \in 1..Len(checks) : checks'[i] = new[i]
      /\ checks'[Len(checks) + 1] = c
  BY <1>1, <1>2, <1>3
<1>6. held' \in [Tickets -> 0..Volume]
  BY DEF Fill, CheckInv
<1>7. /\ filled' \in [Tickets -> 0..MaxFills] /\ filled'[t] = filled[t] + 1
      /\ \A u \in Tickets : u # t => filled'[u] = filled[u]
      /\ \A u \in Tickets : filled[u] \in Nat /\ filled'[u] \in Nat /\ filled'[u] >= filled[u]
  BY <1>1, <1>4 DEF CheckInv
<1>8. \A i \in 1..Len(checks) : checks[i].ticket \in Tickets /\ checks'[i].ticket = checks[i].ticket
  BY <1>2, <1>4, <1>5 DEF CheckRec
<1>9. TableInv'
  <2>1. table' \in [Tickets -> 0..Len(checks')]
    BY <1>1, <1>4, <1>5 DEF CheckInv, TableInv
  <2>2. ASSUME NEW u \in Tickets, table'[u] # 0
        PROVE  checks'[table'[u]].ticket = u /\ checks'[table'[u]].at \in Live
    <3>1. CASE u = t
      BY <1>1, <1>3, <1>5, <3>1 DEF CheckInv, TableInv
    <3>2. CASE u # t
      <4>1. /\ table'[u] = table[u] /\ table[u] \in 1..Len(checks)
            /\ checks[table[u]].ticket = u /\ checks[table[u]].at \in Live
        BY <1>1, <1>4, <2>2, <3>2 DEF CheckInv, TableInv
      <4>2. table[u] # table[t]
        BY <3>2, <4>1 DEF CheckInv, TableInv
      <4> QED BY <1>2, <1>5, <4>1, <4>2
    <3> QED BY <3>1, <3>2
  <2> QED BY <1>5, <2>1, <2>2 DEF TableInv
<1>10. ASSUME NEW u \in Tickets, held'[u] > 0 \/ leaving'[u] # "no" \/ u \in closedOwn'
       PROVE  filled'[u] >= 1
  <2>1. CASE u = t
    BY <1>7, <2>1
  <2>2. CASE u # t
    <3>1. held'[u] = held[u]
      BY <2>2 DEF Fill, CheckInv
    <3> QED BY <1>1, <1>7, <1>10, <2>2, <3>1 DEF CheckInv
  <2> QED BY <2>1, <2>2
<1>11. \A i \in 1..Len(checks') : filled'[checks'[i].ticket] >= 1
  <2> TAKE i \in 1..Len(checks')
  <2>1. CASE i = Len(checks) + 1
    BY <1>3, <1>5, <1>7, <2>1
  <2>2. CASE i # Len(checks) + 1
    <3>1. i \in 1..Len(checks)
      BY <1>4, <1>5, <2>2
    <3>2. filled[checks[i].ticket] >= 1
      BY <3>1 DEF CheckInv
    <3> QED BY <1>7, <1>8, <3>1, <3>2
  <2> QED BY <2>1, <2>2
(* The ticket has a check already: it was filled before.                   *)
<1>12. ASSUME NEW i \in 1..Len(checks), checks[i].ticket = t
       PROVE  filled'[t] > 1
  <2>1. filled[t] >= 1
    BY <1>12 DEF CheckInv
  <2> QED BY <1>7, <2>1
<1>13. ASSUME NEW i \in 1..Len(checks'), NEW j \in 1..Len(checks'), i # j,
              checks'[i].ticket = checks'[j].ticket
       PROVE  filled'[checks'[i].ticket] > 1
  <2>1. CASE i = Len(checks) + 1
    <3>1. j \in 1..Len(checks) /\ checks'[i].ticket = t
      BY <1>3, <1>4, <1>5, <1>13, <2>1
    <3> QED BY <1>8, <1>12, <1>13, <3>1
  <2>2. CASE j = Len(checks) + 1
    <3>1. i \in 1..Len(checks) /\ checks'[j].ticket = t
      BY <1>3, <1>4, <1>5, <1>13, <2>2
    <3> QED BY <1>8, <1>12, <1>13, <3>1
  <2>3. CASE i # Len(checks) + 1 /\ j # Len(checks) + 1
    <3>1. i \in 1..Len(checks) /\ j \in 1..Len(checks)
      BY <1>4, <1>5, <2>3
    <3>2. filled[checks[i].ticket] > 1
      BY <1>8, <1>13, <3>1 DEF CheckInv
    <3> QED BY <1>7, <1>8, <3>1, <3>2
  <2> QED BY <2>1, <2>2, <2>3
<1>14. ASSUME NEW i \in 1..Len(checks'), checks'[i].at \in Live
       PROVE  table'[checks'[i].ticket] = i \/ filled'[checks'[i].ticket] > 1
  <2>1. CASE i = Len(checks) + 1
    <3>1. checks'[i].ticket = t
      BY <1>3, <1>5, <2>1
    <3> QED BY <1>1, <2>1, <3>1 DEF CheckInv, TableInv
  <2>2. CASE i # Len(checks) + 1
    <3>1. i \in 1..Len(checks)
      BY <1>4, <1>5, <2>2
    <3>2. CASE checks[i].ticket = t
      BY <1>8, <1>12, <3>1, <3>2
    <3>3. CASE checks[i].ticket # t
      <4>1. i # table[t]
        BY <1>2, <1>5, <1>14, <3>1
      <4>2. checks[i].at \in Live
        BY <1>2, <1>5, <1>14, <3>1, <4>1
      <4>3. table[checks[i].ticket] = i \/ filled[checks[i].ticket] > 1
        BY <3>1, <4>2 DEF CheckInv
      <4>4. table'[checks[i].ticket] = table[checks[i].ticket]
        BY <1>1, <1>8, <3>1, <3>3 DEF CheckInv, TableInv
      <4> QED BY <1>7, <1>8, <3>1, <3>3, <4>3, <4>4
    <3> QED BY <3>2, <3>3
  <2> QED BY <2>1, <2>2
<1>15. ASSUME NEW i \in 1..Len(checks'), checks'[i].at \in Live, checks'[i].ticket \in closedOwn'
       PROVE  filled'[checks'[i].ticket] > 1
  <2>1. CASE i = Len(checks) + 1
    <3>1. checks'[i].ticket = t /\ t \in closedOwn
      BY <1>1, <1>3, <1>5, <1>15, <2>1
    <3>2. filled[t] >= 1
      BY <3>1 DEF CheckInv
    <3> QED BY <1>7, <3>1, <3>2
  <2>2. CASE i # Len(checks) + 1
    <3>1. i \in 1..Len(checks)
      BY <1>4, <1>5, <2>2
    <3>2. CASE checks[i].ticket = t
      BY <1>8, <1>12, <3>1, <3>2
    <3>3. CASE checks[i].ticket # t
      <4>1. i # table[t]
        BY <1>2, <1>5, <1>15, <3>1
      <4>2. checks[i].at \in Live /\ checks[i].ticket \in closedOwn
        BY <1>1, <1>2, <1>5, <1>8, <1>15, <3>1, <4>1
      <4>3. filled[checks[i].ticket] > 1
        BY <3>1, <4>2 DEF CheckInv
      <4> QED BY <1>7, <1>8, <3>1, <3>3, <4>3
    <3> QED BY <3>2, <3>3
  <2> QED BY <2>1, <2>2
<1>16. AlarmInv'
  <2> SUFFICES ASSUME NEW m \in mismatches PROVE m.ticket \in Tickets /\ (m.late => filled'[m.ticket] > 1)
    BY <1>1 DEF AlarmInv
  <2>1. m.ticket \in Tickets /\ (m.late => filled[m.ticket] > 1)
    BY DEF AlarmInv
  <2> QED BY <1>7, <2>1
<1> QED BY <1>1, <1>6, <1>7, <1>9, <1>10, <1>11, <1>13, <1>14, <1>15, <1>16 DEF CheckInv

(* A check that is over leaves the table, with whatever entry its ticket   *)
(* has.                                                                    *)
LEMMA CheckEnds ==
  ASSUME CheckInv, NEW i \in 1..Len(checks), NEW r \in CheckRec, r.at \notin Live,
         r.ticket = checks[i].ticket, checks' = [checks EXCEPT ![i] = r],
         table' = Forgotten(i), UNCHANGED <<held, leaving, filled, closedOwn>>
  PROVE  CheckInv'
<1>1. Len(checks) \in Nat /\ \A j \in 1..Len(checks) : checks[j] \in CheckRec
  BY CheckTypes
<1>2. /\ checks' \in Seq(CheckRec) /\ Len(checks') = Len(checks) /\ checks'[i] = r
      /\ \A j \in 1..Len(checks) : j # i => checks'[j] = checks[j]
  BY DEF CheckInv, TableInv
<1>3. \A j \in 1..Len(checks) : checks'[j].ticket = checks[j].ticket /\ checks[j].ticket \in Tickets
  BY <1>1, <1>2 DEF CheckRec
<1>4. /\ table' \in [Tickets -> 0..Len(checks)] /\ table'[checks[i].ticket] = 0
      /\ \A t \in Tickets : t # checks[i].ticket => table'[t] = table[t]
  BY <1>1, <1>3 DEF CheckInv, TableInv, Forgotten
<1>5. TableInv'
  <2>1. ASSUME NEW t \in Tickets, table'[t] # 0
        PROVE  checks'[table'[t]].ticket = t /\ checks'[table'[t]].at \in Live
    <3>1. t # checks[i].ticket /\ table'[t] = table[t] /\ table[t] \in 1..Len(checks)
      BY <1>1, <1>4, <2>1 DEF CheckInv, TableInv
    <3>2. checks[table[t]].ticket = t /\ checks[table[t]].at \in Live
      BY <2>1, <3>1 DEF CheckInv, TableInv
    <3> QED BY <1>2, <3>1, <3>2
  <2> QED BY <1>2, <1>4, <2>1 DEF TableInv
<1>6. ASSUME NEW j \in 1..Len(checks'), checks'[j].at \in Live
      PROVE  table'[checks'[j].ticket] = j \/ filled'[checks'[j].ticket] > 1
  <2>1. j \in 1..Len(checks) /\ j # i /\ checks[j].at \in Live
    BY <1>2, <1>6
  <2>2. CASE checks[j].ticket = checks[i].ticket
    BY <1>3, <2>1, <2>2 DEF CheckInv
  <2>3. CASE checks[j].ticket # checks[i].ticket
    <3>1. table[checks[j].ticket] = j \/ filled[checks[j].ticket] > 1
      BY <2>1 DEF CheckInv
    <3> QED BY <1>3, <1>4, <2>1, <2>3, <3>1
  <2> QED BY <2>2, <2>3
<1>7. ASSUME NEW j \in 1..Len(checks'), checks'[j].at \in Live, checks'[j].ticket \in closedOwn'
      PROVE  filled'[checks'[j].ticket] > 1
  BY <1>2, <1>3, <1>7 DEF CheckInv
<1>8. \A j, k \in 1..Len(checks') :
        j # k /\ checks'[j].ticket = checks'[k].ticket => filled'[checks'[j].ticket] > 1
  BY <1>2, <1>3 DEF CheckInv
<1>9. \A j \in 1..Len(checks') : filled'[checks'[j].ticket] >= 1
  BY <1>2, <1>3 DEF CheckInv
<1> QED BY <1>5, <1>6, <1>7, <1>8, <1>9 DEF CheckInv

LEMMA VerifyChecks ==
  ASSUME CheckInv, AlarmInv, NEW i \in DOMAIN checks, Verify(i)
  PROVE  CheckInv' /\ AlarmInv'
<1>1. i \in 1..Len(checks) /\ checks[i] \in CheckRec
  BY CheckTypes
<1>2. CASE Answer(i)
  <2> DEFINE r == [checks[i] EXCEPT !.at = "answered", !.volume = held[checks[i].ticket]]
  <2>1. checks' = [checks EXCEPT ![i] = r]
    BY <1>1, <1>2 DEF Answer, CheckRec
  <2>2. r \in CheckRec /\ r.ticket = checks[i].ticket /\ r.at \in Live /\ checks[i].at \in Live
    BY <1>1, <1>2 DEF Answer, CheckRec, CheckInv, Live
  <2> HIDE DEF r
  <2>3. /\ checks' \in Seq(CheckRec) /\ Len(checks') = Len(checks) /\ checks'[i] = r
        /\ \A j \in 1..Len(checks) : j # i => checks'[j] = checks[j]
    BY <1>1, <2>1, <2>2 DEF CheckInv, TableInv
  <2>4. \A j \in 1..Len(checks) :
          checks'[j].ticket = checks[j].ticket /\ (checks'[j].at \in Live <=> checks[j].at \in Live)
    BY <2>2, <2>3
  <2>5. UNCHANGED <<held, leaving, filled, table, mismatches, closedOwn>>
    BY <1>2 DEF Answer
  <2>6. TableInv'
    <3>1. ASSUME NEW t \in Tickets, table[t] # 0
          PROVE  checks'[table[t]].ticket = t /\ checks'[table[t]].at \in Live
      <4>1. table[t] \in 1..Len(checks)
        BY <3>1, CheckTypes DEF CheckInv, TableInv
      <4> QED BY <2>4, <3>1, <4>1 DEF CheckInv, TableInv
    <3> QED BY <2>3, <2>5, <3>1 DEF CheckInv, TableInv
  <2> QED BY <2>3, <2>4, <2>5, <2>6 DEF CheckInv, AlarmInv
<1>3. CASE Unreachable(i)
  <2> DEFINE r == [checks[i] EXCEPT !.at = "unreachable"]
  <2>1. checks' = [checks EXCEPT ![i] = r]
    BY <1>1, <1>3 DEF Unreachable, CheckRec
  <2>2. r \in CheckRec /\ r.ticket = checks[i].ticket /\ r.at \notin Live
    BY <1>1 DEF CheckRec, Live
  <2> HIDE DEF r
  <2>3. table' = Forgotten(i) /\ UNCHANGED <<held, leaving, filled, mismatches, closedOwn>>
    BY <1>3 DEF Unreachable
  <2> QED BY <1>1, <2>1, <2>2, <2>3, CheckEnds DEF AlarmInv
<1>4. CASE Compare(i) \/ CancelledEnds(i)
  <2> DEFINE r == [checks[i] EXCEPT !.at = "ended", !.volume = 0]
  <2>1. checks' = [checks EXCEPT ![i] = r]
    BY <1>1, <1>4 DEF Compare, CancelledEnds, CheckRec
  <2>2. r \in CheckRec /\ r.ticket = checks[i].ticket /\ r.at \notin Live
    BY <1>1, Emptied
  <2> HIDE DEF r
  <2>3. table' = Forgotten(i) /\ UNCHANGED <<held, leaving, filled, closedOwn>>
    BY <1>4 DEF Compare, CancelledEnds
  <2>4. CheckInv'
    BY <1>1, <2>1, <2>2, <2>3, CheckEnds
  <2>5. AlarmInv'
    <3>1. CASE CancelledEnds(i)
      BY <3>1 DEF CancelledEnds, AlarmInv
    <3>2. CASE Compare(i)
      <4>1. ASSUME NEW m \in mismatches', m \notin mismatches
            PROVE  m.ticket = checks[i].ticket /\ (m.late => checks[i].ticket \in closedOwn)
        <5>1. mismatches' = mismatches \cup
                {[ticket |-> checks[i].ticket, type |-> k, late |-> checks[i].ticket \in closedOwn] :
                   k \in IF checks[i].volume = 0 THEN {"position_missing"}
                         ELSE IF checks[i].volume # Volume THEN {"volume_drift"} ELSE {}}
          BY <3>2 DEF Compare
        <5>2. \E k : m = [ticket |-> checks[i].ticket, type |-> k,
                          late |-> checks[i].ticket \in closedOwn]
          BY <4>1, <5>1
        <5>3. m.ticket = checks[i].ticket
          BY <5>2
        <5>4. m.late = (checks[i].ticket \in closedOwn)
          BY <5>2
        <5> QED BY <5>3, <5>4
      <4>2. checks[i].ticket \in Tickets /\ checks[i].at \in Live
        BY <1>1, <3>2 DEF Compare, CheckRec, Live
      <4>3. checks[i].ticket \in closedOwn => filled[checks[i].ticket] > 1
        BY <1>1, <4>2 DEF CheckInv
      <4> QED BY <2>3, <4>1, <4>2, <4>3 DEF AlarmInv
    <3> QED BY <1>4, <3>1, <3>2
  <2> QED BY <2>4, <2>5
<1> QED BY <1>2, <1>3, <1>4 DEF Verify

(* _on_closed(): a check that goes on has been filled twice.               *)
LEMMA CloseChecks ==
  ASSUME CheckInv, AlarmInv, NEW t \in Tickets, leaving[t] = "full",
         CloseCancels(t, "own"), closedOwn' = closedOwn \cup {t},
         leaving' = [leaving EXCEPT ![t] = "no"], UNCHANGED <<held, filled, mismatches>>
  PROVE  CheckInv' /\ AlarmInv'
<1>1. checks' = CancelCheck(checks, table[t]) /\ table' = [table EXCEPT ![t] = 0]
  BY DEF CloseCancels, Own
<1>2. /\ checks' \in Seq(CheckRec) /\ Len(checks') = Len(checks)
      /\ \A i \in 1..Len(checks) :
           /\ checks'[i].ticket = checks[i].ticket
           /\ checks'[i].at \in Live => i # table[t]
           /\ i # table[t] => checks'[i] = checks[i]
  BY <1>1, CancelIs
<1>3. \A i \in 1..Len(checks) : checks[i].ticket \in Tickets
  BY CheckTypes DEF CheckRec
<1>4. Len(checks) \in Nat
  BY CheckTypes
<1>5. leaving' \in [Tickets -> {"no", "part", "full"}]
  BY DEF CheckInv
<1>6. TableInv'
  <2>1. ASSUME NEW u \in Tickets, table'[u] # 0
        PROVE  checks'[table'[u]].ticket = u /\ checks'[table'[u]].at \in Live
    <3>1. u # t /\ table'[u] = table[u] /\ table[u] \in 1..Len(checks)
      BY <1>1, <1>4, <2>1 DEF CheckInv, TableInv
    <3>2. checks[table[u]].ticket = u /\ checks[table[u]].at \in Live /\ table[u] # table[t]
      BY <3>1, <2>1 DEF CheckInv, TableInv
    <3> QED BY <1>2, <3>1, <3>2
  <2>2. table' \in [Tickets -> 0..Len(checks')]
    BY <1>1, <1>2, <1>4 DEF CheckInv, TableInv
  <2> QED BY <1>2, <2>1, <2>2 DEF TableInv
<1>7. \A u \in Tickets : held'[u] > 0 \/ leaving'[u] # "no" \/ u \in closedOwn' => filled'[u] >= 1
  BY DEF CheckInv
<1>8. ASSUME NEW i \in 1..Len(checks'), checks'[i].at \in Live
      PROVE  /\ i \in 1..Len(checks) /\ checks[i].at \in Live
             /\ checks[i].ticket = t => filled[t] > 1
  <2>1. i \in 1..Len(checks) /\ i # table[t]
    BY <1>2, <1>8
  <2>2. checks[i].at \in Live
    BY <1>2, <1>8, <2>1
  <2> QED BY <2>1, <2>2 DEF CheckInv
<1>9. ASSUME NEW i \in 1..Len(checks'), checks'[i].at \in Live
      PROVE  table'[checks'[i].ticket] = i \/ filled'[checks'[i].ticket] > 1
  <2>1. i \in 1..Len(checks) /\ checks[i].at \in Live /\ (checks[i].ticket = t => filled[t] > 1)
    BY <1>8, <1>9
  <2>2. checks'[i].ticket = checks[i].ticket
    BY <1>2, <2>1
  <2>3. checks[i].ticket # t => table'[checks[i].ticket] = table[checks[i].ticket]
    BY <1>1, <1>3, <2>1 DEF CheckInv, TableInv
  <2> QED BY <2>1, <2>2, <2>3 DEF CheckInv
<1>10. ASSUME NEW i \in 1..Len(checks'), checks'[i].at \in Live, checks'[i].ticket \in closedOwn'
       PROVE  filled'[checks'[i].ticket] > 1
  <2>1. i \in 1..Len(checks) /\ checks[i].at \in Live /\ (checks[i].ticket = t => filled[t] > 1)
    BY <1>8, <1>10
  <2>2. checks'[i].ticket = checks[i].ticket
    BY <1>2, <2>1
  <2> QED BY <1>10, <2>1, <2>2 DEF CheckInv
<1>11. \A i, j \in 1..Len(checks') :
         i # j /\ checks'[i].ticket = checks'[j].ticket => filled'[checks'[i].ticket] > 1
  BY <1>2 DEF CheckInv
<1>12. \A i \in 1..Len(checks') : filled'[checks'[i].ticket] >= 1
  BY <1>2 DEF CheckInv
<1>13. AlarmInv'
  BY DEF AlarmInv
<1> QED BY <1>5, <1>6, <1>7, <1>9, <1>10, <1>11, <1>12, <1>13 DEF CheckInv

(* The broker's own changes of a position leave the checks alone.          *)
LEMMA BrokerChecks ==
  ASSUME CheckInv, AlarmInv, held' \in [Tickets -> 0..Volume],
         leaving' \in [Tickets -> {"no", "part", "full"}],
         UNCHANGED <<filled, table, checks, mismatches, closedOwn>>,
         \A t \in Tickets : held'[t] > 0 => held[t] > 0,
         \A t \in Tickets : leaving'[t] # "no" => leaving[t] # "no" \/ held[t] > 0
  PROVE  CheckInv' /\ AlarmInv'
BY DEF CheckInv, AlarmInv, TableInv

-----------------------------------------------------------------------------
(* The breaker and the drift monitor.                                      *)

(* The streak is the run of losses; what should pause the strategy has     *)
(* tripped the breaker, and a breaker that tripped paused the runner there *)
(* was: one that trades was resumed since, or is newer.                    *)
WatchInv ==
  /\ trades \in Seq(Pnls) /\ Len(trades) <= rows
  /\ rows \in 0..MaxTrades /\ released \in 0..MaxFreed
  /\ baseline \in BOOLEAN /\ alerted \in BOOLEAN /\ drifted \in BOOLEAN
  /\ tripped \in BOOLEAN /\ registered \in BOOLEAN /\ paused \in BOOLEAN /\ freed \in BOOLEAN
  /\ streak \in 0..rows /\ streak = lossRun
  /\ lossRun >= MaxLosses \/ drifted => tripped
  /\ tripped /\ registered /\ ~freed => paused

LEMMA Logged ==
  ASSUME WatchInv, NEW pnl \in Pnls, rows < MaxTrades, rows' = rows + 1,
         trades' \in {Append(trades, pnl), trades}
  PROVE  /\ trades' \in Seq(Pnls) /\ Len(trades') <= rows' /\ rows' \in 0..MaxTrades
         /\ rows \in Nat
<1>1. MaxTrades \in Nat /\ rows \in Nat /\ Len(trades) \in Nat
  BY ObserversAssumption DEF WatchInv
<1>2. Append(trades, pnl) \in Seq(Pnls) /\ Len(Append(trades, pnl)) = Len(trades) + 1
  BY DEF WatchInv
<1> QED BY <1>1, <1>2 DEF WatchInv

LEMMA PublishWatches ==
  ASSUME WatchInv, NEW t, NEW account, NEW pnl \in Pnls, PublishClose(t, pnl, account)
  PROVE  WatchInv'
<1>1. /\ trades' \in Seq(Pnls) /\ Len(trades') <= rows' /\ rows' \in 0..MaxTrades
      /\ rows \in Nat /\ rows' = rows + 1
  BY Logged DEF PublishClose
<1>2. /\ released' \in 0..MaxFreed /\ baseline' \in BOOLEAN
      /\ registered' \in BOOLEAN /\ freed' \in BOOLEAN
  BY DEF PublishClose, WatchInv
<1> PICK judged \in BOOLEAN :
      /\ alerted' = IF judged THEN AlertedNext(trades') ELSE alerted
      /\ drifted' = (drifted \/ (judged /\ Alerts(trades')))
      /\ tripped' = (tripped \/ Trips(judged /\ Alerts(trades'), pnl))
      /\ paused' = (paused \/ Pauses(judged /\ Alerts(trades'), pnl))
  BY DEF PublishClose
<1> DEFINE a == judged /\ Alerts(trades')
           b == Trips(a, pnl)
<1>3. alerted' \in BOOLEAN
  BY DEF WatchInv, AlertedNext, Degraded
<1>4. pnl \in Int /\ MaxLosses \in Nat
  BY ObserversAssumption
<1>5. streak' \in 0..rows' /\ streak' = lossRun' /\ lossRun' = StreakNext(pnl)
  BY <1>1, <1>4 DEF PublishClose, WatchInv, StreakNext
<1>6. b \in BOOLEAN /\ a \in BOOLEAN
  BY DEF Trips, Alerts
<1>7. b <=> ~tripped /\ (lossRun' >= MaxLosses \/ a)
  BY <1>5 DEF Trips
<1>8. /\ drifted' = (drifted \/ a) /\ tripped' = (tripped \/ b)
      /\ paused' = (paused \/ (b /\ registered))
  BY DEF Pauses
<1> HIDE DEF a, b
<1>9. /\ drifted => tripped
      /\ tripped /\ registered /\ ~freed => paused
      /\ registered' = registered /\ freed' = freed
  BY DEF WatchInv, PublishClose
<1>10. lossRun' >= MaxLosses \/ drifted' => tripped'
  BY <1>7, <1>8, <1>9, Zenon
<1>11. tripped' /\ registered' /\ ~freed' => paused'
  BY <1>8, <1>9, Zenon
<1>12. tripped' \in BOOLEAN /\ paused' \in BOOLEAN /\ drifted' \in BOOLEAN
  BY <1>8, Zenon
<1> QED BY <1>1, <1>2, <1>3, <1>5, <1>10, <1>11, <1>12 DEF WatchInv

LEMMA PartlyWatches ==
  ASSUME WatchInv, NEW t, PartlyClosed(t)
  PROVE  WatchInv'
<1>1. /\ trades' \in Seq(Pnls) /\ Len(trades') <= rows' /\ rows' \in 0..MaxTrades
      /\ rows \in Nat /\ rows' = rows + 1
  BY Logged DEF PartlyClosed
<1>2. UNCHANGED <<baseline, alerted, streak, tripped, lossRun, drifted,
                  registered, paused, freed, released>>
  BY DEF PartlyClosed, runnerVars
<1>3. streak' \in 0..rows'
  BY <1>1, <1>2 DEF WatchInv
<1> QED BY <1>1, <1>2, <1>3 DEF WatchInv

LEMMA ResumeWatches ==
  ASSUME WatchInv, Resume
  PROVE  WatchInv'
<1>1. released' \in 0..MaxFreed
  BY ObserversAssumption DEF Resume, WatchInv
<1>2. /\ paused' = FALSE /\ freed' = (freed \/ tripped)
      /\ UNCHANGED <<trades, baseline, alerted, streak, tripped, lossRun, drifted, rows, registered>>
  BY DEF Resume
<1>3. tripped' /\ registered' /\ ~freed' => paused'
  BY <1>2, Zenon
<1>4. paused' \in BOOLEAN /\ freed' \in BOOLEAN
  BY <1>2, Zenon
<1> QED BY <1>1, <1>2, <1>3, <1>4 DEF WatchInv

LEMMA RemovedWatches ==
  ASSUME WatchInv, Removed
  PROVE  WatchInv'
<1>1. released' \in 0..MaxFreed
  BY ObserversAssumption DEF Removed, WatchInv
<1>2. /\ registered' = FALSE /\ paused' = FALSE
      /\ UNCHANGED <<trades, baseline, alerted, streak, tripped, lossRun, drifted, rows, freed>>
  BY DEF Removed
<1> QED BY <1>1, <1>2 DEF WatchInv

LEMMA AddedWatches ==
  ASSUME WatchInv, Added
  PROVE  WatchInv'
<1>1. /\ registered' = TRUE /\ freed' = tripped
      /\ UNCHANGED <<trades, baseline, alerted, streak, tripped, lossRun, drifted, rows,
                     paused, released>>
  BY DEF Added
<1>2. tripped' /\ registered' /\ ~freed' => paused'
  BY <1>1, Zenon
<1> QED BY <1>1, <1>2 DEF WatchInv

LEMMA BacktestWatches ==
  ASSUME WatchInv, BacktestFinishes
  PROVE  WatchInv'
BY DEF WatchInv, BacktestFinishes, runnerVars

LEMMA WatchesStutter ==
  ASSUME WatchInv, UNCHANGED watchVars
  PROVE  WatchInv'
BY DEF WatchInv, watchVars, runnerVars
-----------------------------------------------------------------------------
(* The reports.                                                            *)
IInv == NoticeInv /\ CheckInv /\ AlarmInv /\ WatchInv

LEMMA Reports ==
  ASSUME IInv
  PROVE  ReportsSound
<1>1. NoticeTypeOK /\ NoStorm
  BY NoticeTypes DEF IInv, NoticeInv
<1>2. TypeOK
  <2>1. \A i \in DOMAIN checks : checks[i].at \in Live \cup {"cancelled", "unreachable", "ended"}
    BY CheckTypes DEF IInv, CheckRec
  <2>2. streak \in 0..MaxTrades
    BY ObserversAssumption DEF IInv, WatchInv
  <2> QED BY <1>1, <2>1, <2>2 DEF IInv, CheckInv, TableInv, WatchInv, TypeOK
<1>3. AlarmsAreReal
  BY DEF IInv, AlarmInv, AlarmsAreReal
<1>4. LosersArePaused
  BY DEF IInv, WatchInv, LosersArePaused
<1> QED BY <1>1, <1>2, <1>3, <1>4 DEF ReportsSound

LEMMA Initially ==
  ASSUME Init
  PROVE  IInv
<1>1. NoticeInv
  BY NoticeInitially DEF Init
<1>2. CheckInv /\ AlarmInv
  BY ObserversAssumption DEF Init, CheckInv, TableInv, AlarmInv, Volume
<1>3. WatchInv
  <2>1. rows = 0 /\ released = 0 /\ streak = 0 /\ lossRun = 0 /\ trades = <<>>
    BY DEF Init
  <2>2. /\ alerted = FALSE /\ tripped = FALSE /\ paused = FALSE /\ drifted = FALSE
        /\ baseline = FALSE /\ registered = TRUE /\ freed = FALSE
    BY DEF Init
  <2>3. ~(lossRun >= MaxLosses)
    BY <2>1, ObserversAssumption
  <2>4. lossRun >= MaxLosses \/ drifted => tripped
    BY <2>2, <2>3, Zenon
  <2>5. tripped /\ registered /\ ~freed => paused
    BY <2>2, Zenon
  <2>6. /\ trades \in Seq(Pnls) /\ Len(trades) <= rows
        /\ rows \in 0..MaxTrades /\ released \in 0..MaxFreed /\ streak \in 0..rows
    BY <2>1, ObserversAssumption
  <2> QED BY <2>1, <2>2, <2>4, <2>5, <2>6 DEF WatchInv
<1> QED BY <1>1, <1>2, <1>3 DEF IInv

LEMMA NoticeStays ==
  ASSUME IInv, [Next]_vars
  PROVE  NoticeInv'
<1>1. NoticeInv
  BY DEF IInv
<1>2. ASSUME NEW t \in Tickets, Fill(t) PROVE NoticeInv'
  BY <1>1, <1>2, Announced DEF Fill
<1>3. ASSUME NEW t \in Tickets, Deal(t) \/ PartlyClosed(t) \/ StopHit(t) PROVE NoticeInv'
  BY <1>1, <1>3, NoticesStutter DEF Deal, PartlyClosed, StopHit
<1>4. ASSUME NEW t \in Tickets, Closed(t) \/ ForeignClosed(t) PROVE NoticeInv'
  <2>1. PICK pnl \in Pnls, account \in {"own", "other"} : PublishClose(t, pnl, account)
    BY <1>4 DEF Closed, ForeignClosed
  <2>2. \E evts : Announce(evts)
    BY <2>1 DEF PublishClose
  <2>3. UNCHANGED <<now, recent, sending, sends>>
    BY <2>1 DEF PublishClose
  <2> QED BY <1>1, <2>2, <2>3, Announced
<1>5. ASSUME NEW i \in DOMAIN checks, Verify(i) PROVE NoticeInv'
  BY <1>1, <1>5, NoticesStutter DEF Verify, Answer, Unreachable, Compare, CancelledEnds
<1>6. CASE BacktestFinishes
  BY <1>1, <1>6, NoticesStutter DEF BacktestFinishes
<1>7. CASE Resume \/ Removed \/ Added
  BY <1>1, <1>7, Announced DEF Resume, Removed, Added
<1>8. CASE Notices
  BY <1>1, <1>8, NoticesKeep DEF Notices
<1>9. CASE UNCHANGED vars
  BY <1>1, <1>9, NoticesStutter DEF vars, noticeVars
<1> QED BY <1>2, <1>3, <1>4, <1>5, <1>6, <1>7, <1>8, <1>9 DEF Next

LEMMA ChecksStay ==
  ASSUME IInv, [Next]_vars
  PROVE  CheckInv' /\ AlarmInv'
<1>1. CheckInv /\ AlarmInv
  BY DEF IInv
<1>2. ASSUME NEW t \in Tickets, Fill(t) PROVE CheckInv' /\ AlarmInv'
  BY <1>1, <1>2, FillChecks
<1>3. ASSUME NEW t \in Tickets, Deal(t) PROVE CheckInv' /\ AlarmInv'
  <2>1. PICK v \in 1..held[t] :
          /\ held' = [held EXCEPT ![t] = @ - v]
          /\ leaving' = [leaving EXCEPT ![t] = IF v = held[t] THEN "full" ELSE "part"]
    BY <1>3 DEF Deal
  <2>2. held[t] \in 0..Volume /\ held[t] > 0 /\ Volume \in Nat
    BY <1>1, <1>3 DEF Deal, CheckInv, Volume
  <2>3. held' \in [Tickets -> 0..Volume]
    BY <1>1, <2>1, <2>2 DEF CheckInv
  <2>4. leaving' \in [Tickets -> {"no", "part", "full"}]
    BY <1>1, <2>1 DEF CheckInv
  <2>5. \A u \in Tickets : held'[u] > 0 => held[u] > 0
    BY <1>1, <2>1, <2>2 DEF CheckInv
  <2>6. \A u \in Tickets : leaving'[u] # "no" => leaving[u] # "no" \/ held[u] > 0
    BY <1>1, <2>1, <2>2 DEF CheckInv
  <2>7. UNCHANGED <<filled, table, checks, mismatches, closedOwn>>
    BY <1>3 DEF Deal
  <2> QED BY <1>1, <2>3, <2>4, <2>5, <2>6, <2>7, BrokerChecks
<1>4. ASSUME NEW t \in Tickets, Closed(t) PROVE CheckInv' /\ AlarmInv'
  BY <1>1, <1>4, CloseChecks DEF Closed, PublishClose
<1>5. ASSUME NEW t \in Tickets, PartlyClosed(t) PROVE CheckInv' /\ AlarmInv'
  <2>1. /\ leaving' = [leaving EXCEPT ![t] = "no"]
        /\ UNCHANGED <<held, filled, table, checks, mismatches, closedOwn>>
    BY <1>5 DEF PartlyClosed
  <2>2. leaving' \in [Tickets -> {"no", "part", "full"}] /\ held' \in [Tickets -> 0..Volume]
    BY <1>1, <2>1 DEF CheckInv
  <2>3. \A u \in Tickets : leaving'[u] # "no" => leaving[u] # "no"
    BY <1>1, <2>1 DEF CheckInv
  <2> QED BY <1>1, <2>1, <2>2, <2>3, BrokerChecks
<1>6. ASSUME NEW t \in Tickets, ForeignClosed(t) PROVE CheckInv' /\ AlarmInv'
  <2>1. UNCHANGED <<held, leaving, filled, table, checks, mismatches, closedOwn>>
    BY <1>6 DEF ForeignClosed, PublishClose, CloseCancels, Own
  <2> QED BY <1>1, <2>1 DEF CheckInv, TableInv, AlarmInv
<1>7. ASSUME NEW t \in Tickets, StopHit(t) PROVE CheckInv' /\ AlarmInv'
  <2>1. held' = [held EXCEPT ![t] = 0] /\ UNCHANGED <<leaving, filled, table, checks, mismatches, closedOwn>>
    BY <1>7 DEF StopHit
  <2>2. held' \in [Tickets -> 0..Volume] /\ leaving' \in [Tickets -> {"no", "part", "full"}]
    BY <1>1, <2>1 DEF CheckInv, Volume
  <2>3. \A u \in Tickets : held'[u] > 0 => held[u] > 0
    BY <1>1, <2>1 DEF CheckInv
  <2> QED BY <1>1, <2>1, <2>2, <2>3, BrokerChecks
<1>8. ASSUME NEW i \in DOMAIN checks, Verify(i) PROVE CheckInv' /\ AlarmInv'
  BY <1>1, <1>8, VerifyChecks
<1>9. CASE UNCHANGED reconVars
  BY <1>1, <1>9 DEF reconVars, CheckInv, TableInv, AlarmInv
<1> QED BY <1>2, <1>3, <1>4, <1>5, <1>6, <1>7, <1>8, <1>9
        DEF Next, BacktestFinishes, Resume, Removed, Added, Notices, vars, reconVars

LEMMA WatchersStay ==
  ASSUME IInv, [Next]_vars
  PROVE  WatchInv'
<1>1. WatchInv
  BY DEF IInv
<1>2. ASSUME NEW t \in Tickets, Closed(t) \/ ForeignClosed(t) PROVE WatchInv'
  <2>1. PICK pnl \in Pnls, account \in {"own", "other"} : PublishClose(t, pnl, account)
    BY <1>2 DEF Closed, ForeignClosed
  <2> QED BY <1>1, <2>1, PublishWatches
<1>3. ASSUME NEW t \in Tickets, PartlyClosed(t) PROVE WatchInv'
  BY <1>1, <1>3, PartlyWatches
<1>4. ASSUME NEW t \in Tickets, Fill(t) \/ Deal(t) \/ StopHit(t) PROVE WatchInv'
  BY <1>1, <1>4, WatchesStutter DEF Fill, Deal, StopHit
<1>5. ASSUME NEW i \in DOMAIN checks, Verify(i) PROVE WatchInv'
  BY <1>1, <1>5, WatchesStutter DEF Verify, Answer, Unreachable, Compare, CancelledEnds
<1>6. CASE BacktestFinishes
  BY <1>1, <1>6, BacktestWatches
<1>7. CASE Resume \/ Removed \/ Added
  BY <1>1, <1>7, ResumeWatches, RemovedWatches, AddedWatches
<1>8. CASE Notices \/ UNCHANGED vars
  BY <1>1, <1>8, WatchesStutter DEF Notices, vars, watchVars
<1> QED BY <1>2, <1>3, <1>4, <1>5, <1>6, <1>7, <1>8 DEF Next

(* What the watchers report and do is justified: no alarm about a ticket   *)
(* whose close was handled (Reconciler._on_closed()), a loser or drifter   *)
(* is paused (CircuitBreaker._pause()) until it is resumed or its runner   *)
(* replaced, and no message goes out twice in DEDUPE_WINDOW                *)
(* (_is_duplicate()).                                                      *)
THEOREM Justified == Spec => []ReportsSound
<1>1. Init => IInv
  BY Initially
<1>2. IInv /\ [Next]_vars => IInv'
  BY NoticeStays, ChecksStay, WatchersStay DEF IInv
<1>3. IInv => ReportsSound
  BY Reports
<1> QED BY <1>1, <1>2, <1>3, PTL DEF Spec
=============================================================================
