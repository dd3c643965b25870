--------------------------- MODULE SimBrokerProofs ---------------------------
(***************************************************************************)
(* Proofs about SimBroker, for every market, strategy and length of the    *)
(* replay: its book implements TicketLife, the money adds up, no stop is   *)
(* passed over, limits are honoured and the book is flat at the end.       *)
(*                                                                         *)
(* The money is a matter of sums over the open positions and over the      *)
(* trade records, and of counting nights.  Both need induction: the first  *)
(* section derives it from the order of the numbers being well-founded,    *)
(* and shows that a fold over a set is a sum whose terms may be taken out. *)
(***************************************************************************)
EXTENDS SimBroker, FiniteSetTheorems, WellFoundedInduction, TLAPS

-----------------------------------------------------------------------------
(* Numbers and sums.                                                       *)

(* A set of numbers that holds each number whose predecessors it holds     *)
(* holds them all.                                                         *)
LEMMA Induct ==
  ASSUME NEW P, \A n \in Nat : (\A m \in 0..(n - 1) : m \in P) => n \in P
  PROVE  \A n \in Nat : n \in P
<1> SUFFICES ASSUME Nat \ P # {} PROVE FALSE
  OBVIOUS
<1> DEFINE T == Nat \ P
           R == OpToRel(<, Nat)
<1>1. IsWellFoundedOn(R, Nat)
  BY NatLessThanWellFounded
<1>2. PICK n \in T : \A m \in T : <<m, n>> \notin R
  <2> HIDE DEF R
  <2> QED BY <1>1, WFMin
<1>3. ASSUME NEW m \in 0..(n - 1) PROVE <<m, n>> \in R
  BY <1>2 DEF OpToRel
<1> HIDE DEF R
<1>4. \A m \in 0..(n - 1) : m \in P
  <2> SUFFICES ASSUME NEW m \in 0..(n - 1) PROVE m \in P
    OBVIOUS
  <2>1. m \in Nat /\ <<m, n>> \in R
    BY <1>3
  <2> QED BY <1>2, <2>1
<1> QED BY <1>2, <1>4

(* What a fold over the parts of S computes: the sum of f.                 *)
AnyOf(s) == CHOOSE x \in s : TRUE
IsFold(g, f, S) ==
  g = [s \in SUBSET S |-> IF s = {} THEN 0 ELSE f[AnyOf(s)] + g[s \ {AnyOf(s)}]]
Total(f, S) == (CHOOSE g : IsFold(g, f, S))[S]

LEMMA AnyIn ==
  ASSUME NEW s, s # {}
  PROVE  AnyOf(s) \in s
BY DEF AnyOf

(* A set without one of its members has one member less.                   *)
LEMMA Smaller ==
  ASSUME NEW s, IsFiniteSet(s), NEW x \in s
  PROVE  /\ IsFiniteSet(s \ {x})
         /\ Cardinality(s) \in Nat /\ Cardinality(s \ {x}) \in Nat
         /\ Cardinality(s \ {x}) = Cardinality(s) - 1
BY FS_RemoveElement, FS_CardinalityType

(* Two folds agree where what they add up agrees.                          *)
LEMMA FoldsAgree ==
  ASSUME NEW S, NEW R, NEW f, NEW e, NEW g, NEW h, IsFold(g, f, S), IsFold(h, e, R),
         NEW U, IsFiniteSet(U), U \subseteq S, U \subseteq R, \A x \in U : f[x] = e[x]
  PROVE  g[U] = h[U]
<1> DEFINE P == {n \in Nat : \A s \in SUBSET U : Cardinality(s) = n => g[s] = h[s]}
<1>1. ASSUME NEW n \in Nat, \A m \in 0..(n - 1) : m \in P
      PROVE  n \in P
  <2> SUFFICES ASSUME NEW s \in SUBSET U, Cardinality(s) = n PROVE g[s] = h[s]
    OBVIOUS
  <2>1. /\ g[s] = IF s = {} THEN 0 ELSE f[AnyOf(s)] + g[s \ {AnyOf(s)}]
        /\ h[s] = IF s = {} THEN 0 ELSE e[AnyOf(s)] + h[s \ {AnyOf(s)}]
    BY DEF IsFold
  <2>2. CASE s # {}
    <3> DEFINE r == s \ {AnyOf(s)}
    <3>1. AnyOf(s) \in s
      BY <2>2, AnyIn
    <3>2. Cardinality(r) = n - 1 /\ n - 1 \in Nat
      BY <3>1, Smaller, FS_Subset
    <3>3. g[r] = h[r]
      BY <1>1, <3>2
    <3> QED BY <2>1, <2>2, <3>1, <3>3
  <2> QED BY <2>1, <2>2
<1>2. \A n \in Nat : n \in P
  <2> HIDE DEF P
  <2> QED BY <1>1, Induct
<1> QED BY <1>2, FS_CardinalityType

(* The sum exists.                                                         *)
LEMMA FoldsExist ==
  ASSUME NEW S, IsFiniteSet(S), NEW f, \A x \in S : f[x] \in Int
  PROVE  \E g \in [SUBSET S -> Int] : IsFold(g, f, S)
<1> DEFINE Upto(n) == {s \in SUBSET S : Cardinality(s) <= n}
           Good(g, n) == \A s \in Upto(n) :
             /\ g[s] \in Int
             /\ g[s] = IF s = {} THEN 0 ELSE f[AnyOf(s)] + g[s \ {AnyOf(s)}]
           P == {n \in Nat : \E g : Good(g, n)}
<1>0. ASSUME NEW s \in SUBSET S
      PROVE  IsFiniteSet(s) /\ Cardinality(s) \in Nat /\ Cardinality(s) <= Cardinality(S)
  BY FS_Subset, FS_CardinalityType
<1>1. ASSUME NEW n \in Nat, \A m \in 0..(n - 1) : m \in P
      PROVE  n \in P
  <2>1. CASE n = 0
    <3>1. ASSUME NEW s \in Upto(0) PROVE s = {}
      BY <1>0, FS_EmptySet
    <3>2. Good([s \in SUBSET S |-> 0], 0)
      BY <3>1
    <3> QED BY <2>1, <3>2
  <2>2. CASE n # 0
    <3>1. PICK g : Good(g, n - 1)
      <4>1. n - 1 \in 0..(n - 1)
        BY <2>2
      <4>2. n - 1 \in P
        BY <1>1, <4>1
      <4> QED BY <4>2
    <3> DEFINE h == [s \in SUBSET S |-> IF s = {} THEN 0 ELSE f[AnyOf(s)] + g[s \ {AnyOf(s)}]]
    <3>2. ASSUME NEW s \in Upto(n), s # {}
          PROVE  s \ {AnyOf(s)} \in Upto(n - 1) /\ f[AnyOf(s)] \in Int
      BY <3>2, <1>0, AnyIn, Smaller
    <3>3. ASSUME NEW s \in Upto(n - 1) PROVE h[s] = g[s]
      BY <3>1
    <3>4. ASSUME NEW s \in Upto(n)
          PROVE  h[s] \in Int /\ h[s] = IF s = {} THEN 0 ELSE f[AnyOf(s)] + h[s \ {AnyOf(s)}]
      <4>1. /\ s \in SUBSET S /\ h[s] = IF s = {} THEN 0 ELSE f[AnyOf(s)] + g[s \ {AnyOf(s)}]
        OBVIOUS
      <4> HIDE DEF h
      <4>2. CASE s = {}
        BY <4>1, <4>2
      <4>3. CASE s # {}
        <5> DEFINE r == s \ {AnyOf(s)}
        <5>1. r \in Upto(n - 1) /\ f[AnyOf(s)] \in Int
          BY <3>2, <4>3
        <5>2. g[r] \in Int /\ h[r] = g[r]
          BY <3>1, <3>3, <5>1
        <5> QED BY <4>1, <4>3, <5>1, <5>2
      <4> QED BY <4>2, <4>3
    <3> HIDE DEF h
    <3> QED BY <3>4
  <2> QED BY <2>1, <2>2
<1>2. \A n \in Nat : n \in P
  <2> HIDE DEF P
  <2> QED BY <1>1, Induct
<1>3. PICK g : Good(g, Cardinality(S))
  BY <1>2, FS_CardinalityType
<1>4. \A s \in SUBSET S : s \in Upto(Cardinality(S))
  BY <1>0
<1> DEFINE h == [s \in SUBSET S |-> g[s]]
<1>5. h \in [SUBSET S -> Int] /\ IsFold(h, f, S)
  BY <1>3, <1>4 DEF IsFold
<1> QED BY <1>5

(* What the fold of a finite set computes.                                 *)
LEMMA SumFolds ==
  ASSUME NEW S, IsFiniteSet(S), NEW f, \A x \in S : f[x] \in Int
  PROVE  \E g \in [SUBSET S -> Int] : IsFold(g, f, S) /\ Total(f, S) = g[S]
<1>1. PICK h \in [SUBSET S -> Int] : IsFold(h, f, S)
  BY FoldsExist
<1> DEFINE g == CHOOSE g : IsFold(g, f, S)
<1>2. IsFold(g, f, S)
  BY <1>1
<1>3. g[S] = h[S]
  BY <1>1, <1>2, FoldsAgree
<1> QED BY <1>1, <1>3 DEF Total

(* Equal terms have equal sums.                                            *)
LEMMA SumAgree ==
  ASSUME NEW S, IsFiniteSet(S), NEW f, NEW e,
         \A x \in S : f[x] \in Int /\ f[x] = e[x]
  PROVE  Total(f, S) = Total(e, S)
<1>1. PICK g : IsFold(g, f, S) /\ Total(f, S) = g[S]
  BY SumFolds
<1>2. PICK h : IsFold(h, e, S) /\ Total(e, S) = h[S]
  BY SumFolds
<1> QED BY <1>1, <1>2, FoldsAgree

(* The sums of no terms, and of integers.                                  *)
LEMMA SumEmpty ==
  ASSUME NEW f
  PROVE  Total(f, {}) = 0
<1>1. PICK g \in [SUBSET {} -> Int] : IsFold(g, f, {}) /\ Total(f, {}) = g[{}]
  BY SumFolds, FS_EmptySet
<1>2. {} \in SUBSET {}
  OBVIOUS
<1>3. g[{}] = 0
  BY ONLY <1>1, <1>2 DEF IsFold
<1> QED BY <1>1, <1>3

LEMMA SumAny ==
  ASSUME NEW S, IsFiniteSet(S), S # {}, NEW f, \A x \in S : f[x] \in Int
  PROVE  Total(f, S) \in Int /\ Total(f, S) = f[AnyOf(S)] + Total(f, S \ {AnyOf(S)})
<1>1. PICK g \in [SUBSET S -> Int] : IsFold(g, f, S) /\ Total(f, S) = g[S]
  BY SumFolds
<1> DEFINE R == S \ {AnyOf(S)}
<1>2. IsFiniteSet(R)
  BY FS_Subset
<1>3. PICK h : IsFold(h, f, R) /\ Total(f, R) = h[R]
  BY <1>2, SumFolds
<1>4. g[R] = h[R]
  BY <1>1, <1>2, <1>3, FoldsAgree
<1>5. g[S] = f[AnyOf(S)] + g[R] /\ g[S] \in Int
  BY <1>1 DEF IsFold
<1> QED BY <1>1, <1>3, <1>4, <1>5

LEMMA SumInt ==
  ASSUME NEW S, IsFiniteSet(S), NEW f, \A x \in S : f[x] \in Int
  PROVE  Total(f, S) \in Int
<1>1. PICK g \in [SUBSET S -> Int] : IsFold(g, f, S) /\ Total(f, S) = g[S]
  BY SumFolds
<1> QED BY <1>1

(* A term can be taken out of a sum.                                       *)
LEMMA SumWithout ==
  ASSUME NEW S, IsFiniteSet(S), NEW f, \A x \in S : f[x] \in Int, NEW x \in S
  PROVE  Total(f, S) = f[x] + Total(f, S \ {x})
<1> DEFINE P == {n \in Nat : \A s \in SUBSET S : Cardinality(s) = n =>
                               \A y \in s : Total(f, s) = f[y] + Total(f, s \ {y})}
<1>0. ASSUME NEW s \in SUBSET S
      PROVE  IsFiniteSet(s) /\ Total(f, s) \in Int /\ Cardinality(s) \in Nat
  BY FS_Subset, SumInt, FS_CardinalityType
<1>1. ASSUME NEW n \in Nat, \A m \in 0..(n - 1) : m \in P
      PROVE  n \in P
  <2> SUFFICES ASSUME NEW s \in SUBSET S, Cardinality(s) = n, NEW y \in s
               PROVE  Total(f, s) = f[y] + Total(f, s \ {y})
    OBVIOUS
  <2> DEFINE p == AnyOf(s)
  <2>1. p \in s /\ Total(f, s) = f[p] + Total(f, s \ {p})
    BY <1>0, SumAny, AnyIn
  <2> HIDE DEF p
  <2>2. CASE y # p
    <3>1. /\ Cardinality(s \ {p}) = n - 1 /\ Cardinality(s \ {y}) = n - 1 /\ n - 1 \in Nat
      BY <1>0, <2>1, Smaller
    <3>2. Total(f, s \ {p}) = f[y] + Total(f, (s \ {p}) \ {y})
      BY <1>1, <2>2, <3>1
    <3>3. Total(f, s \ {y}) = f[p] + Total(f, (s \ {y}) \ {p})
      BY <1>1, <2>1, <2>2, <3>1
    <3>4. (s \ {p}) \ {y} = (s \ {y}) \ {p}
      OBVIOUS
    <3>5. f[p] \in Int /\ f[y] \in Int /\ Total(f, (s \ {y}) \ {p}) \in Int
      BY <1>0, <2>1
    <3> DEFINE c == Total(f, (s \ {y}) \ {p})
    <3>6. /\ Total(f, s) = f[p] + Total(f, s \ {p}) /\ Total(f, s \ {p}) = f[y] + c
          /\ Total(f, s \ {y}) = f[p] + c
          /\ f[p] \in Int /\ f[y] \in Int /\ c \in Int
      BY <2>1, <3>2, <3>3, <3>4, <3>5
    <3> HIDE DEF P, c
    <3> QED BY <3>6
  <2> QED BY <2>1, <2>2
<1>2. \A n \in Nat : n \in P
  <2> HIDE DEF P
  <2> QED BY <1>1, Induct
<1> QED BY <1>0, <1>2

(* Two sums that differ in one term.                                       *)
LEMMA TotalsDiffer ==
  ASSUME NEW S, IsFiniteSet(S), NEW R, IsFiniteSet(R), NEW x, S \ {x} = R \ {x},
         NEW f, \A y \in S : f[y] \in Int, NEW e, \A y \in R : e[y] \in Int,
         \A y \in S \ {x} : f[y] = e[y]
  PROVE  \E rest \in Int :
           /\ x \in S => Total(f, S) = f[x] + rest
           /\ x \notin S => Total(f, S) = rest
           /\ x \in R => Total(e, R) = e[x] + rest
           /\ x \notin R => Total(e, R) = rest
<1> DEFINE rest == Total(f, S \ {x})
<1>1. IsFiniteSet(S \ {x})
  BY FS_Subset
<1>2. rest \in Int
  BY <1>1, SumInt
<1>3. rest = Total(e, R \ {x})
  BY <1>1, SumAgree
<1>4. /\ x \in S => Total(f, S) = f[x] + rest
      /\ x \notin S => Total(f, S) = rest
  <2>1. CASE x \in S
    BY <2>1, SumWithout
  <2>2. CASE x \notin S
    <3>1. S \ {x} = S
      BY <2>2
    <3> QED BY <2>2, <3>1
  <2> QED BY <2>1, <2>2
<1>5. /\ x \in R => Total(e, R) = e[x] + rest
      /\ x \notin R => Total(e, R) = rest
  <2>1. CASE x \in R
    BY <1>3, <2>1, SumWithout
  <2>2. CASE x \notin R
    <3>1. R \ {x} = R
      BY <2>2
    <3> QED BY <1>3, <2>2, <3>1
  <2> QED BY <2>1, <2>2
<1> QED BY <1>2, <1>4, <1>5, Zenon

(* One more term at the end of a sequence.                                 *)
LEMMA TotalAppended ==
  ASSUME NEW n \in Nat, NEW f, NEW e, \A i \in 1..n : f[i] \in Int /\ f[i] = e[i],
         e[n + 1] \in Int
  PROVE  Total(e, 1..(n + 1)) = Total(f, 1..n) + e[n + 1] /\ Total(f, 1..n) \in Int
<1>1. IsFiniteSet(1..n) /\ IsFiniteSet(1..(n + 1))
  BY FS_Interval
<1>2. n + 1 \notin 1..n /\ n + 1 \in 1..(n + 1) /\ (1..n) \ {n + 1} = (1..(n + 1)) \ {n + 1}
  OBVIOUS
<1>3. \A i \in 1..(n + 1) : e[i] \in Int
  <2>1. \A i \in 1..(n + 1) : i = n + 1 \/ i \in 1..n
    OBVIOUS
  <2> QED BY <2>1
<1>4. PICK rest \in Int : Total(f, 1..n) = rest /\ Total(e, 1..(n + 1)) = e[n + 1] + rest
  <2> DEFINE S == 1..n
             R == 1..(n + 1)
             x == n + 1
  <2>1. /\ IsFiniteSet(S) /\ IsFiniteSet(R) /\ S \ {x} = R \ {x} /\ x \notin S /\ x \in R
        /\ \A y \in S : f[y] \in Int /\ f[y] = e[y]
        /\ \A y \in R : e[y] \in Int
    BY <1>1, <1>2, <1>3
  <2> HIDE DEF S, R, x
  <2>2. \E rest \in Int : Total(f, S) = rest /\ Total(e, R) = e[x] + rest
    BY <2>1, TotalsDiffer
  <2> QED BY <2>2 DEF S, R, x
<1> QED BY <1>4

-----------------------------------------------------------------------------
(* The inductive invariant.                                                *)

(* A position, as far as its price and time are not concerned.             *)
PositionOK(p) ==
  /\ {"symbol", "side", "volume", "sl", "tp"} \subseteq DOMAIN p
  /\ p.symbol \in Symbols
  /\ p.side \in Sides
  /\ p.volume \in Nat \ {0}
  /\ p.sl \in OptLevels
  /\ p.tp \in OptLevels

(* A ticket is handed out once, and is waiting or open but never both.     *)
BookInv ==
  /\ nextTicket \in Nat \ {0}
  /\ DOMAIN positions \subseteq Tickets
  /\ DOMAIN pending \subseteq Tickets
  /\ \A t \in DOMAIN positions : t < nextTicket /\ PositionOK(positions[t])
  /\ \A t \in DOMAIN pending : t < nextTicket /\ pending[t] \in Order
  /\ DOMAIN positions \cap DOMAIN pending = {}

(* What the loops of the replay have still to deal with is there.          *)
LoopInv ==
  /\ phase \in {"sleeping", "stops", "fills", "closing", "ending", "done"}
  /\ phase \in {"stops", "closing"} => todo \subseteq DOMAIN positions
  /\ phase = "fills" => todo \subseteq DOMAIN pending

Sided == [buy : Int, sell : Int]
Shown == [symbol : Symbols, low : Sided, high : Sided]

(* What the price stops out is closed or still to be closed.               *)
StopInv ==
  phase = "stops" =>
    /\ now \in Shown
    /\ \A t \in DOMAIN positions \ todo : ~Breached(positions[t], now)

IInv == BookInv /\ LoopInv /\ StopInv

-----------------------------------------------------------------------------
(* What opening and closing do to the book.                                *)

(* A new position has the symbol, side, volume, stop and target asked for. *)
LEMMA Opened ==
  ASSUME NEW t \in Tickets, NEW o, NEW price, OpenPosition(t, o, price),
         o.symbol \in Symbols, o.side \in Sides, o.volume \in Nat \ {0},
         o.sl \in OptLevels, o.tp \in OptLevels
  PROVE  /\ DOMAIN positions' = DOMAIN positions \cup {t}
         /\ PositionOK(positions'[t])
         /\ positions'[t].volume = o.volume
         /\ \A u \in DOMAIN positions \ {t} : positions'[u] = positions[u]
<1> DEFINE p == [symbol |-> o.symbol, side |-> o.side, volume |-> o.volume,
                 price |-> price, time |-> simTime, sl |-> o.sl, tp |-> o.tp]
<1>1. positions' = With(positions, t, p)
  BY DEF OpenPosition
<1>2. PositionOK(p) /\ p.volume = o.volume
  BY DEF PositionOK
<1> HIDE DEF p
<1> QED BY <1>1, <1>2 DEF With

(* Closing takes the position away or leaves a smaller one.                *)
LEMMA ClosedPosition ==
  ASSUME BookInv, NEW t \in DOMAIN positions,
         NEW volume \in (Nat \ {0}) \cup {None}, ClosePosition(t, volume)
  PROVE  /\ nextTicket' = nextTicket /\ pending' = pending
         /\ \/ /\ DOMAIN positions' = DOMAIN positions \ {t}
               /\ \A u \in DOMAIN positions \ {t} : positions'[u] = positions[u]
            \/ /\ volume # None
               /\ DOMAIN positions' = DOMAIN positions
               /\ \A u \in DOMAIN positions \ {t} : positions'[u] = positions[u]
               /\ PositionOK(positions'[t])
               /\ positions'[t].volume \in 1..(positions[t].volume - 1)
<1>1. nextTicket' = nextTicket /\ pending' = pending
  BY DEF ClosePosition
<1>2. PositionOK(positions[t])
  BY DEF BookInv
<1>3. CASE volume = None \/ volume >= positions[t].volume
  <2>1. positions' = Without(positions, t)
    BY <1>3 DEF ClosePosition
  <2> QED BY <1>1, <2>1 DEF Without
<1>4. CASE ~(volume = None \/ volume >= positions[t].volume)
  <2>1. positions' = [positions EXCEPT ![t].volume = positions[t].volume - volume]
    BY <1>4 DEF ClosePosition
  <2>2. positions[t].volume - volume \in 1..(positions[t].volume - 1)
    BY <1>2, <1>4 DEF PositionOK
  <2>3. positions'[t] = [positions[t] EXCEPT !.volume = positions[t].volume - volume]
    BY <2>1
  <2>4. /\ DOMAIN positions'[t] = DOMAIN positions[t]
        /\ positions'[t].volume = positions[t].volume - volume
        /\ positions'[t].symbol = positions[t].symbol
        /\ positions'[t].side = positions[t].side
        /\ positions'[t].sl = positions[t].sl
        /\ positions'[t].tp = positions[t].tp
    BY <2>3, <1>2 DEF PositionOK
  <2>5. PositionOK(positions'[t])
    BY <2>2, <2>4, <1>2 DEF PositionOK
  <2> QED BY <1>1, <1>4, <2>1, <2>2, <2>4, <2>5
<1> QED BY <1>3, <1>4

-----------------------------------------------------------------------------
(* The invariant is kept.                                                  *)

(* The book does not depend on anything else.                              *)
LEMMA BookKept ==
  ASSUME BookInv, UNCHANGED <<nextTicket, positions, pending>>
  PROVE  BookInv'
BY DEF BookInv

LEMMA PlaceMarketKeeps ==
  ASSUME IInv, NEW r \in Requests, PlaceMarket(r)
  PROVE  IInv'
<1>1. /\ r.symbol \in Symbols /\ r.side \in Sides /\ r.volume \in Nat \ {0}
      /\ r.sl \in OptLevels /\ r.tp \in OptLevels
  BY SimAssumption
<1>2. nextTicket \in Tickets /\ nextTicket' = nextTicket + 1 /\ pending' = pending
  BY SimAssumption DEF PlaceMarket, IInv, BookInv, Tickets
<1>3. /\ DOMAIN positions' = DOMAIN positions \cup {nextTicket}
      /\ PositionOK(positions'[nextTicket])
      /\ \A u \in DOMAIN positions \ {nextTicket} : positions'[u] = positions[u]
  <2>1. OpenPosition(nextTicket, r, Slipped(r.side, bid[r.symbol], ask[r.symbol]))
    BY DEF PlaceMarket
  <2> QED BY <1>1, <1>2, <2>1, Opened
<1>4. BookInv'
  BY <1>2, <1>3 DEF IInv, BookInv, Tickets, PositionOK
<1>5. phase' = phase /\ phase \in {"sleeping", "ending"}
  BY DEF PlaceMarket, Operable, CountOp
<1> QED BY <1>4, <1>5 DEF IInv, LoopInv, StopInv

LEMMA PlacePendingKeeps ==
  ASSUME IInv, NEW r \in Requests, PlacePending(r)
  PROVE  IInv'
<1>1. r \in Order
  BY SimAssumption DEF PlacePending, Order, OptLevels
<1>2. /\ nextTicket \in Tickets /\ nextTicket' = nextTicket + 1 /\ positions' = positions
      /\ DOMAIN pending' = DOMAIN pending \cup {nextTicket}
      /\ \A u \in DOMAIN pending' : pending'[u] = IF u = nextTicket THEN r ELSE pending[u]
  BY SimAssumption DEF PlacePending, IInv, BookInv, Tickets, With
<1>3. BookInv'
  BY <1>1, <1>2 DEF IInv, BookInv, Tickets, PositionOK
<1>4. phase' = phase /\ phase \in {"sleeping", "ending"}
  BY DEF PlacePending, Operable, CountOp
<1> QED BY <1>3, <1>4 DEF IInv, LoopInv, StopInv

(* A change of a pending order leaves an order, of a positive volume.      *)
LEMMA ModifiedPending ==
  ASSUME BookInv, NEW t \in Tickets, NEW c \in Changes, ModifyPending(t, c)
  PROVE  /\ UNCHANGED <<nextTicket, positions>>
         /\ DOMAIN pending' = DOMAIN pending /\ t \in DOMAIN pending
         /\ \A u \in DOMAIN pending \ {t} : pending'[u] = pending[u]
         /\ pending'[t] \in Order
<1>1. t \in DOMAIN pending /\ pending[t] \in Order
  BY DEF ModifyPending, BookInv
<1>2. /\ Chosen(c.sl, pending[t].sl) \in OptLevels
      /\ Chosen(c.tp, pending[t].tp) \in OptLevels
      /\ Chosen(c.price, pending[t].price) \in Int
      /\ Chosen(c.volume, pending[t].volume) \in Nat \ {0}
  BY <1>1, SimAssumption DEF ModifyPending, Chosen, Order, OptLevels
<1> DEFINE o == [pending[t] EXCEPT !.sl = Chosen(c.sl, @), !.tp = Chosen(c.tp, @),
                                   !.price = Chosen(c.price, @), !.volume = Chosen(c.volume, @)]
<1>3. o \in Order
  BY <1>1, <1>2 DEF Order
<1>4. pending' = [pending EXCEPT ![t] = o]
  BY DEF ModifyPending
<1> HIDE DEF o
<1> QED BY <1>1, <1>3, <1>4 DEF ModifyPending

LEMMA ModifiedPosition ==
  ASSUME BookInv, NEW t \in Tickets, NEW c \in Changes, ModifyPosition(t, c)
  PROVE  /\ UNCHANGED <<nextTicket, pending>>
         /\ DOMAIN positions' = DOMAIN positions /\ t \in DOMAIN positions
         /\ \A u \in DOMAIN positions \ {t} : positions'[u] = positions[u]
         /\ PositionOK(positions'[t])
         /\ positions'[t].volume = positions[t].volume
<1>1. t \in DOMAIN positions /\ PositionOK(positions[t])
  BY DEF ModifyPosition, BookInv
<1>2. /\ Chosen(c.sl, positions[t].sl) \in OptLevels
      /\ Chosen(c.tp, positions[t].tp) \in OptLevels
  BY <1>1, SimAssumption DEF Chosen, PositionOK, OptLevels
<1> DEFINE p == [positions[t] EXCEPT !.sl = Chosen(c.sl, @), !.tp = Chosen(c.tp, @)]
<1>3. PositionOK(p) /\ p.volume = positions[t].volume
  BY <1>1, <1>2 DEF PositionOK
<1>4. positions' = [positions EXCEPT ![t] = p]
  BY DEF ModifyPosition
<1> HIDE DEF p
<1> QED BY <1>1, <1>3, <1>4 DEF ModifyPosition

LEMMA ModifyKeeps ==
  ASSUME IInv, NEW t \in Tickets, NEW c \in Changes,
         ModifyPending(t, c) \/ ModifyPosition(t, c)
  PROVE  IInv'
<1>1. BookInv'
  <2>1. CASE ModifyPending(t, c)
    BY <2>1, ModifiedPending DEF IInv, BookInv
  <2>2. CASE ModifyPosition(t, c)
    BY <2>2, ModifiedPosition DEF IInv, BookInv
  <2> QED BY <2>1, <2>2
<1>2. phase' = phase /\ phase \in {"sleeping", "ending"}
  BY DEF ModifyPending, ModifyPosition, Operable, CountOp
<1> QED BY <1>1, <1>2 DEF IInv, LoopInv, StopInv

LEMMA CancelKeeps ==
  ASSUME IInv, NEW t \in Tickets, Cancel(t)
  PROVE  IInv'
<1>1. BookInv'
  BY DEF Cancel, Without, IInv, BookInv
<1>2. phase' = phase /\ phase \in {"sleeping", "ending"}
  BY DEF Cancel, Operable, CountOp
<1> QED BY <1>1, <1>2 DEF IInv, LoopInv, StopInv

(* Every close, asked for or not, leaves a book.                           *)
LEMMA ClosingKeepsBook ==
  ASSUME BookInv, NEW t \in DOMAIN positions,
         NEW volume \in (Nat \ {0}) \cup {None}, ClosePosition(t, volume)
  PROVE  BookInv'
BY ClosedPosition DEF BookInv

LEMMA CloseKeeps ==
  ASSUME IInv, NEW t \in Tickets, NEW v \in Volumes, Close(t, v)
  PROVE  IInv'
<1>1. v \in (Nat \ {0}) \cup {None} /\ t \in DOMAIN positions /\ ClosePosition(t, v)
  BY SimAssumption DEF Close
<1>3. BookInv'
  BY <1>1, ClosingKeepsBook DEF IInv
<1>2. phase' = phase /\ phase \in {"sleeping", "ending"}
  BY DEF Close, Operable, CountOp
<1> QED BY <1>3, <1>2 DEF IInv, LoopInv, StopInv

(* One turn of the two loops that close positions.                         *)
LEMMA LoopClosed ==
  ASSUME IInv, NEW t \in Tickets, StopOut(t) \/ CloseRemaining(t)
  PROVE  /\ t \in DOMAIN positions /\ ClosePosition(t, None)
         /\ UNCHANGED <<nextTicket, pending>>
         /\ DOMAIN positions' = DOMAIN positions \ {t}
         /\ \A u \in DOMAIN positions \ {t} : positions'[u] = positions[u]
<1>1. t \in DOMAIN positions /\ ClosePosition(t, None)
  BY DEF StopOut, CloseRemaining, IInv, LoopInv
<1> QED BY <1>1, ClosedPosition DEF IInv

LEMMA LoopCloseKeeps ==
  ASSUME IInv, NEW t \in Tickets, StopOut(t) \/ CloseRemaining(t)
  PROVE  IInv'
<1>1. BookInv'
  BY LoopClosed, ClosingKeepsBook DEF IInv
<1>2. /\ phase' = phase /\ phase \in {"stops", "closing"}
      /\ todo' = todo \ {t} /\ now' = now
  BY DEF StopOut, CloseRemaining
<1>3. LoopInv'
  BY <1>2, LoopClosed DEF IInv, LoopInv
<1>4. StopInv'
  BY <1>2, LoopClosed DEF IInv, StopInv, Breached
<1> QED BY <1>1, <1>3, <1>4 DEF IInv

(* A pending order fills: its ticket is open with the same volume.         *)
LEMMA FilledPending ==
  ASSUME IInv, NEW t \in Tickets, FillPending(t)
  PROVE  /\ t \in DOMAIN pending
         /\ DOMAIN positions' = DOMAIN positions \cup {t}
         /\ PositionOK(positions'[t])
         /\ positions'[t].volume = pending[t].volume
         /\ \A u \in DOMAIN positions \ {t} : positions'[u] = positions[u]
         /\ DOMAIN pending' = DOMAIN pending \ {t}
         /\ \A u \in DOMAIN pending' : pending'[u] = pending[u]
         /\ nextTicket' = nextTicket
<1>1. t \in DOMAIN pending /\ pending[t] \in Order
  BY DEF FillPending, IInv, LoopInv, BookInv
<1>2. OpenPosition(t, pending[t], FillPrice(pending[t]))
  BY DEF FillPending
<1>3. /\ pending[t].symbol \in Symbols /\ pending[t].side \in Sides
      /\ pending[t].volume \in Nat \ {0}
      /\ pending[t].sl \in OptLevels /\ pending[t].tp \in OptLevels
  BY <1>1 DEF Order
<1>4. /\ DOMAIN positions' = DOMAIN positions \cup {t}
      /\ PositionOK(positions'[t])
      /\ positions'[t].volume = pending[t].volume
      /\ \A u \in DOMAIN positions \ {t} : positions'[u] = positions[u]
  BY <1>2, <1>3, Opened
<1>5. /\ DOMAIN pending' = DOMAIN pending \ {t}
      /\ \A u \in DOMAIN pending' : pending'[u] = pending[u]
      /\ nextTicket' = nextTicket
  BY DEF FillPending, Without
<1> QED BY <1>1, <1>4, <1>5

LEMMA FillKeeps ==
  ASSUME IInv, NEW t \in Tickets, FillPending(t)
  PROVE  IInv'
<1>1. BookInv'
  <2>1. t < nextTicket /\ t \notin DOMAIN positions
    BY FilledPending DEF IInv, BookInv
  <2>2. DOMAIN positions' \subseteq Tickets /\ DOMAIN pending' \subseteq Tickets
    BY FilledPending DEF IInv, BookInv
  <2>3. ASSUME NEW u \in DOMAIN positions'
        PROVE  u < nextTicket' /\ PositionOK(positions'[u])
    <3>1. CASE u = t
      BY <2>1, <3>1, FilledPending
    <3>2. CASE u # t
      <4>1. u \in DOMAIN positions /\ positions'[u] = positions[u] /\ nextTicket' = nextTicket
        BY <3>2, FilledPending
      <4> QED BY <4>1 DEF IInv, BookInv
    <3> QED BY <3>1, <3>2
  <2>4. ASSUME NEW u \in DOMAIN pending'
        PROVE  u < nextTicket' /\ pending'[u] \in Order
    <3>1. u \in DOMAIN pending /\ pending'[u] = pending[u] /\ nextTicket' = nextTicket
      BY FilledPending
    <3> QED BY <3>1 DEF IInv, BookInv
  <2>5. DOMAIN positions' \cap DOMAIN pending' = {} /\ nextTicket' \in Nat \ {0}
    BY FilledPending DEF IInv, BookInv
  <2> QED BY <2>2, <2>3, <2>4, <2>5 DEF BookInv, PositionOK
<1>2. phase' = "fills" /\ phase = "fills" /\ todo' = todo \ {t}
  BY DEF FillPending
<1> QED BY <1>1, <1>2, FilledPending DEF IInv, LoopInv, StopInv

(* The next bar or tick is read, and what it stops out.                    *)
LEMMA ReplayKeeps ==
  ASSUME IInv, NEW s \in Symbols, NEW e \in Shown, NEW b, NEW a, Replay(s, e, b, a)
  PROVE  IInv'
<1>1. /\ UNCHANGED <<nextTicket, positions, pending>>
      /\ phase' = "stops" /\ now' = e
      /\ todo' = {t \in DOMAIN positions : Breached(positions[t], e)}
  BY DEF Replay
<1>2. \A t \in DOMAIN positions' \ todo' : ~Breached(positions[t], e)
  BY <1>1
<1>3. StopInv'
  BY <1>1, <1>2 DEF StopInv, Breached
<1> QED BY <1>1, <1>3, BookKept DEF IInv, LoopInv

LEMMA ReplaysKeep ==
  ASSUME IInv, NEW s \in Symbols,
         \/ \E q \in Quotes : ReplayTick(s, q)
         \/ \E r \in Bars : ReplayBar(s, r)
  PROVE  IInv'
<1>1. ASSUME NEW q \in Quotes, ReplayTick(s, q) PROVE IInv'
  <2>1. TickShown(s, q) \in Shown
    BY SimAssumption DEF TickShown, Shown, Sided
  <2> QED BY <1>1, <2>1, ReplayKeeps DEF ReplayTick
<1>2. ASSUME NEW r \in Bars, ReplayBar(s, r) PROVE IInv'
  <2>1. BarShown(s, r) \in Shown
    BY SimAssumption DEF BarShown, Shown, Sided
  <2> QED BY <1>2, <2>1, ReplayKeeps DEF ReplayBar
<1> QED BY <1>1, <1>2

(* The steps between the loops.                                            *)
LEMMA PhasesKeep ==
  ASSUME IInv, CheckPending \/ PublishEvent \/ EndReplay \/ StopRunner \/ Report
  PROVE  IInv'
<1>1. UNCHANGED <<nextTicket, positions, pending>>
  BY DEF CheckPending, PublishEvent, EndReplay, StopRunner, Report
<1>2. LoopInv' /\ StopInv'
  BY <1>1 DEF CheckPending, PublishEvent, EndReplay, StopRunner, Report, LoopInv, StopInv
<1> QED BY <1>1, <1>2, BookKept DEF IInv

LEMMA StutterKeeps ==
  ASSUME IInv, UNCHANGED vars
  PROVE  IInv'
<1>1. BookInv'
  BY BookKept DEF IInv, vars
<1> QED BY <1>1 DEF vars, IInv, LoopInv, StopInv, Breached

(* The book is consistent, and the loops know what is left to do: in every *)
(* reachable state (replay_broker.py:103-640, file_backtester.py:95-180).  *)
THEOREM Inductive == Spec => []IInv
<1>1. Init => IInv
  BY SimAssumption DEF Init, IInv, BookInv, LoopInv, StopInv
<1>2. ASSUME IInv, Next PROVE IInv'
  <2>1. CASE Operate
    <3>1. ASSUME NEW r \in Requests, PlaceMarket(r) \/ PlacePending(r) PROVE IInv'
      BY <1>2, <3>1, PlaceMarketKeeps, PlacePendingKeeps
    <3>2. ASSUME NEW t \in Tickets, NEW c \in Changes,
                 ModifyPending(t, c) \/ ModifyPosition(t, c) PROVE IInv'
      BY <1>2, <3>2, ModifyKeeps
    <3>3. ASSUME NEW t \in Tickets, NEW v \in Volumes, Close(t, v) PROVE IInv'
      BY <1>2, <3>3, CloseKeeps
    <3>4. ASSUME NEW t \in Tickets, Cancel(t) PROVE IInv'
      BY <1>2, <3>4, CancelKeeps
    <3> QED BY <2>1, <3>1, <3>2, <3>3, <3>4 DEF Operate
  <2>2. CASE Drive
    <3>1. ASSUME NEW s \in Symbols, NEW q \in Quotes, ReplayTick(s, q) PROVE IInv'
      BY <1>2, <3>1, ReplaysKeep
    <3>2. ASSUME NEW s \in Symbols, NEW r \in Bars, ReplayBar(s, r) PROVE IInv'
      BY <1>2, <3>2, ReplaysKeep
    <3>3. ASSUME NEW t \in Tickets, StopOut(t) \/ CloseRemaining(t) PROVE IInv'
      BY <1>2, <3>3, LoopCloseKeeps
    <3>4. ASSUME NEW t \in Tickets, FillPending(t) PROVE IInv'
      BY <1>2, <3>4, FillKeeps
    <3>5. ASSUME CheckPending \/ PublishEvent \/ EndReplay \/ StopRunner \/ Report PROVE IInv'
      BY <1>2, <3>5, PhasesKeep
    <3> QED BY <2>2, <3>1, <3>2, <3>3, <3>4, <3>5 DEF Drive
  <2>3. CASE Done
    BY <1>2, <2>3, StutterKeeps DEF Done
  <2> QED BY <1>2, <2>1, <2>2, <2>3 DEF Next
<1> QED BY <1>1, <1>2, StutterKeeps, PTL DEF Spec

(* No position survives a price it should have been closed at, whatever    *)
(* the market does and the strategy asks for (check_sl_tp(),               *)
(* check_sl_tp_tick(), replay_broker.py).                                  *)
THEOREM NoStopPassed == Spec => []StopsHonoured
<1>1. IInv => StopsHonoured
  <2> SUFFICES ASSUME IInv, phase = "stops", todo = {},
                      NEW t \in DOMAIN positions, positions[t].symbol = now.symbol
               PROVE  LET p == positions[t] IN
                        /\ p.sl # None => IF p.side = "buy" THEN now.low.buy > p.sl
                                                            ELSE now.high.sell < p.sl
                        /\ p.tp # None => IF p.side = "buy" THEN now.high.buy < p.tp
                                                            ELSE now.low.sell > p.tp
    BY DEF StopsHonoured
  <2>1. ~Breached(positions[t], now) /\ now \in Shown /\ PositionOK(positions[t])
    BY DEF IInv, StopInv, BookInv
  <2> DEFINE p == positions[t]
  <2>2. /\ now.low.buy \in Int /\ now.low.sell \in Int
        /\ now.high.buy \in Int /\ now.high.sell \in Int
    BY <2>1 DEF Shown, Sided
  <2>3. /\ p.side \in Sides /\ p.sl \in Int \cup {None} /\ p.tp \in Int \cup {None}
    BY <2>1 DEF PositionOK, OptLevels
  <2>4. CASE p.side = "buy"
    BY <2>1, <2>2, <2>3, <2>4 DEF Breached
  <2>5. CASE p.side = "sell"
    BY <2>1, <2>2, <2>3, <2>5 DEF Breached
  <2> QED BY <2>3, <2>4, <2>5 DEF Sides
<1> QED BY <1>1, Inductive, PTL

-----------------------------------------------------------------------------
(* The refinement.                                                         *)

(* Ticket u is left as it is.                                              *)
Untouched(u) == StateOf(u)' = StateOf(u) /\ VolumeOf(u)' = VolumeOf(u)

(* A step that touches one ticket is a step of that ticket's life.         *)
LEMMA OneTicket ==
  ASSUME NEW t \in Tickets, \A u \in Tickets \ {t} : Untouched(u)
  PROVE  /\ Life!Become(t, StateOf(t)')
         /\ states[t] = StateOf(t) /\ volumes[t] = VolumeOf(t) /\ volumes'[t] = VolumeOf(t)'
<1>1. /\ states' = [u \in Tickets |-> StateOf(u)'] /\ states = [u \in Tickets |-> StateOf(u)]
      /\ volumes' = [u \in Tickets |-> VolumeOf(u)'] /\ volumes = [u \in Tickets |-> VolumeOf(u)]
  BY DEF states, volumes
<1> QED BY <1>1 DEF Untouched, Life!Become

LEMMA NoTicket ==
  ASSUME \A u \in Tickets : Untouched(u)
  PROVE  UNCHANGED Life!vars
BY DEF Untouched, states, volumes, Life!vars

LEMMA BookUnchanged ==
  ASSUME UNCHANGED <<nextTicket, positions, pending>>
  PROVE  UNCHANGED Life!vars
BY NoTicket DEF Untouched, StateOf, VolumeOf

LEMMA PlaceMarketOpens ==
  ASSUME BookInv, NEW r \in Requests, PlaceMarket(r)
  PROVE  Life!Next
<1>0. PICK t \in Tickets : t = nextTicket
  BY SimAssumption DEF PlaceMarket, BookInv, Tickets
<1>1. /\ r.symbol \in Symbols /\ r.side \in Sides /\ r.volume \in Nat \ {0}
      /\ r.sl \in OptLevels /\ r.tp \in OptLevels
  BY SimAssumption
<1>2. nextTicket' = t + 1 /\ pending' = pending
  BY <1>0 DEF PlaceMarket
<1>3. /\ DOMAIN positions' = DOMAIN positions \cup {t}
      /\ positions'[t].volume = r.volume
      /\ \A u \in DOMAIN positions \ {t} : positions'[u] = positions[u]
  <2>1. OpenPosition(t, r, Slipped(r.side, bid[r.symbol], ask[r.symbol]))
    BY <1>0 DEF PlaceMarket
  <2> QED BY <1>1, <1>2, <2>1, Opened
<1>4. t \notin DOMAIN positions /\ t \notin DOMAIN pending
  BY <1>0 DEF BookInv
<1>5. \A u \in Tickets \ {t} : Untouched(u)
  BY <1>0, <1>2, <1>3, SimAssumption DEF Untouched, StateOf, VolumeOf, BookInv, Tickets
<1>6. StateOf(t) = "new" /\ StateOf(t)' = "open" /\ VolumeOf(t)' = r.volume
  BY <1>0, <1>2, <1>3, <1>4 DEF StateOf, VolumeOf, BookInv
<1>7. Life!Open(t)
  BY <1>1, <1>5, <1>6, OneTicket DEF Life!Open
<1> QED BY <1>7 DEF Life!Next, Life!Tickets, Tickets

LEMMA PlacePendingSubmits ==
  ASSUME BookInv, NEW r \in Requests, PlacePending(r)
  PROVE  Life!Next
<1>0. PICK t \in Tickets : t = nextTicket
  BY SimAssumption DEF PlacePending, BookInv, Tickets
<1>1. r.volume \in Nat \ {0}
  BY SimAssumption
<1>2. nextTicket' = t + 1 /\ positions' = positions
  BY <1>0 DEF PlacePending
<1>3. /\ DOMAIN pending' = DOMAIN pending \cup {t}
      /\ pending'[t] = r
      /\ \A u \in DOMAIN pending \ {t} : pending'[u] = pending[u]
  BY <1>0 DEF PlacePending, With
<1>4. t \notin DOMAIN positions /\ t \notin DOMAIN pending
  BY <1>0 DEF BookInv
<1>5. \A u \in Tickets \ {t} : Untouched(u)
  BY <1>0, <1>2, <1>3, SimAssumption DEF Untouched, StateOf, VolumeOf, BookInv, Tickets
<1>6. StateOf(t) = "new" /\ StateOf(t)' = "pending" /\ VolumeOf(t)' = r.volume
  BY <1>0, <1>2, <1>3, <1>4 DEF StateOf, VolumeOf, BookInv
<1>7. Life!Submit(t)
  BY <1>1, <1>5, <1>6, OneTicket DEF Life!Submit
<1> QED BY <1>7 DEF Life!Next, Life!Tickets, Tickets

LEMMA ModifyPendingResizes ==
  ASSUME BookInv, NEW t \in Tickets, NEW c \in Changes, ModifyPending(t, c)
  PROVE  Life!Next
<1>1. \A u \in Tickets \ {t} : Untouched(u)
  BY ModifiedPending DEF Untouched, StateOf, VolumeOf
<1>2. pending'[t].volume \in Nat \ {0}
  BY ModifiedPending DEF Order
<1>3. StateOf(t) = "pending" /\ StateOf(t)' = "pending" /\ VolumeOf(t)' \in Nat \ {0}
  BY <1>2, ModifiedPending DEF StateOf, VolumeOf
<1>4. Life!Resize(t)
  BY <1>1, <1>3, OneTicket DEF Life!Resize
<1> QED BY <1>4 DEF Life!Next, Life!Tickets, Tickets

LEMMA ModifyPositionStutters ==
  ASSUME BookInv, NEW t \in Tickets, NEW c \in Changes, ModifyPosition(t, c)
  PROVE  UNCHANGED Life!vars
BY ModifiedPosition, NoTicket DEF Untouched, StateOf, VolumeOf

(* A close is a step of the ticket it closes, in part or in whole.         *)
LEMMA ClosingReduces ==
  ASSUME BookInv, NEW t \in DOMAIN positions,
         NEW volume \in (Nat \ {0}) \cup {None}, ClosePosition(t, volume)
  PROVE  Life!Next
<1>1. /\ t \in Tickets /\ t \notin DOMAIN pending /\ t < nextTicket
      /\ nextTicket' = nextTicket /\ pending' = pending
  BY ClosedPosition DEF BookInv
<1>2. \A u \in Tickets \ {t} : Untouched(u)
  BY <1>1, ClosedPosition DEF Untouched, StateOf, VolumeOf
<1>3. StateOf(t) = "open" /\ VolumeOf(t) = positions[t].volume
  BY <1>1 DEF StateOf, VolumeOf
<1>4. CASE DOMAIN positions' = DOMAIN positions \ {t}
  <2>1. StateOf(t)' = "gone" /\ VolumeOf(t)' = 0
    BY <1>1, <1>4 DEF StateOf, VolumeOf
  <2>2. Life!Retire(t)
    BY <1>1, <1>2, <1>3, <2>1, OneTicket DEF Life!Retire
  <2> QED BY <1>1, <2>2 DEF Life!Next, Life!Tickets, Tickets
<1>5. CASE /\ DOMAIN positions' = DOMAIN positions
           /\ positions'[t].volume \in 1..(positions[t].volume - 1)
  <2>1. StateOf(t)' = "open" /\ VolumeOf(t)' = positions'[t].volume
    BY <1>1, <1>5 DEF StateOf, VolumeOf
  <2>2. Life!Reduce(t)
    BY <1>1, <1>2, <1>3, <1>5, <2>1, OneTicket DEF Life!Reduce
  <2> QED BY <1>1, <2>2 DEF Life!Next, Life!Tickets, Tickets
<1> QED BY <1>4, <1>5, ClosedPosition

LEMMA CancelRetires ==
  ASSUME BookInv, NEW t \in Tickets, Cancel(t)
  PROVE  Life!Next
<1>1. /\ t \in DOMAIN pending /\ t \notin DOMAIN positions /\ t < nextTicket
      /\ nextTicket' = nextTicket /\ positions' = positions
      /\ DOMAIN pending' = DOMAIN pending \ {t}
      /\ \A u \in DOMAIN pending' : pending'[u] = pending[u]
  BY DEF Cancel, Without, BookInv
<1>2. \A u \in Tickets \ {t} : Untouched(u)
  BY <1>1 DEF Untouched, StateOf, VolumeOf
<1>3. StateOf(t) = "pending" /\ StateOf(t)' = "gone" /\ VolumeOf(t)' = 0
  BY <1>1 DEF StateOf, VolumeOf
<1>4. Life!Retire(t)
  BY <1>2, <1>3, OneTicket DEF Life!Retire
<1> QED BY <1>4 DEF Life!Next, Life!Tickets, Tickets

LEMMA FillFills ==
  ASSUME IInv, NEW t \in Tickets, FillPending(t)
  PROVE  Life!Next
<1>1. t \in DOMAIN pending /\ t \notin DOMAIN positions
  BY FilledPending DEF IInv, BookInv
<1>2. \A u \in Tickets \ {t} : Untouched(u)
  BY <1>1, FilledPending DEF Untouched, StateOf, VolumeOf
<1>3. /\ StateOf(t) = "pending" /\ VolumeOf(t) = pending[t].volume
      /\ StateOf(t)' = "open" /\ VolumeOf(t)' = pending[t].volume
  BY <1>1, FilledPending DEF StateOf, VolumeOf
<1>4. Life!Fill(t)
  BY <1>2, <1>3, OneTicket DEF Life!Fill
<1> QED BY <1>4 DEF Life!Next, Life!Tickets, Tickets

LEMMA RefinesStep ==
  ASSUME IInv, [Next]_vars
  PROVE  [Life!Next]_Life!vars
<1>1. CASE Operate
  <2>1. ASSUME NEW r \in Requests, PlaceMarket(r) \/ PlacePending(r)
        PROVE  Life!Next
    BY <2>1, PlaceMarketOpens, PlacePendingSubmits DEF IInv
  <2>2. ASSUME NEW t \in Tickets, NEW c \in Changes, ModifyPending(t, c)
        PROVE  Life!Next
    BY <2>2, ModifyPendingResizes DEF IInv
  <2>3. ASSUME NEW t \in Tickets, NEW c \in Changes, ModifyPosition(t, c)
        PROVE  UNCHANGED Life!vars
    BY <2>3, ModifyPositionStutters DEF IInv
  <2>4. ASSUME NEW t \in Tickets, NEW v \in Volumes, Close(t, v)
        PROVE  Life!Next
    <3>1. v \in (Nat \ {0}) \cup {None} /\ t \in DOMAIN positions /\ ClosePosition(t, v)
      BY <2>4, SimAssumption DEF Close
    <3> QED BY <3>1, ClosingReduces DEF IInv
  <2>5. ASSUME NEW t \in Tickets, Cancel(t)
        PROVE  Life!Next
    BY <2>5, CancelRetires DEF IInv
  <2> QED BY <1>1, <2>1, <2>2, <2>3, <2>4, <2>5 DEF Operate
<1>2. CASE Drive
  <2>1. ASSUME NEW t \in Tickets, StopOut(t) \/ CloseRemaining(t)
        PROVE  Life!Next
    BY <2>1, LoopClosed, ClosingReduces DEF IInv
  <2>2. ASSUME NEW t \in Tickets, FillPending(t)
        PROVE  Life!Next
    BY <2>2, FillFills
  <2>3. ASSUME \/ \E s \in Symbols, q \in Quotes : ReplayTick(s, q)
               \/ \E s \in Symbols, r \in Bars : ReplayBar(s, r)
               \/ CheckPending \/ PublishEvent \/ EndReplay \/ StopRunner \/ Report
        PROVE  UNCHANGED Life!vars
    <3>1. UNCHANGED <<nextTicket, positions, pending>>
      BY <2>3 DEF ReplayTick, ReplayBar, Replay, CheckPending, PublishEvent, EndReplay,
                  StopRunner, Report
    <3> QED BY <3>1, BookUnchanged
  <2> QED BY <1>2, <2>1, <2>2, <2>3 DEF Drive
<1>3. CASE Done \/ UNCHANGED vars
  BY <1>3, BookUnchanged DEF Done, vars
<1> QED BY <1>1, <1>2, <1>3 DEF Next

(* The simulated broker keeps the promise of TicketLife: a ticket is       *)
(* handed out once, its volume only shrinks while it is open, and no       *)
(* cancelled or closed ticket comes back (place_order(), modify_order(),   *)
(* close_position(), cancel_order(), _promote_pending()).                  *)
THEOREM Refinement == Spec => ImplementsLife
<1>1. Init => Life!Init
  BY SimAssumption DEF Init, Life!Init, Life!Tickets, states, volumes, StateOf, VolumeOf, Tickets
<1>2. IInv /\ [Next]_vars => [Life!Next]_Life!vars
  BY RefinesStep
<1> QED BY <1>1, <1>2, Inductive, PTL DEF Spec, ImplementsLife, Life!Spec

-----------------------------------------------------------------------------
(* The nights that swaps are charged for.                                  *)

(* Quotient and remainder.                                                 *)
LEMMA DivisionIs ==
  ASSUME NEW a \in Int, NEW h \in Nat \ {0}, NEW q \in Int, NEW r \in 0..(h - 1), a = q * h + r
  PROVE  a \div h = q /\ a % h = r
OBVIOUS

LEMMA Division ==
  ASSUME NEW a \in Int, NEW h \in Nat \ {0}
  PROVE  \E q \in Int, r \in 0..(h - 1) : a = q * h + r
<1> DEFINE q == a \div h
           r == a - h * q
<1>1. q \in Int /\ a >= h * q /\ a < h * q + h /\ h * q \in Int
  OBVIOUS
<1> HIDE DEF q
<1>2. r \in 0..(h - 1) /\ a = q * h + r
  BY <1>1
<1> QED BY <1>1, <1>2

(* The rollover hours in (from, to].                                       *)
Hours(from, to) == {t \in (from + 1)..to : t % HoursPerDay = RolloverHour}

(* Another hour is counted when it is a rollover hour.                     *)
LEMMA HourAdded ==
  ASSUME NEW from \in Int, NEW to \in Int, from <= to, IsFiniteSet(Hours(from, to))
  PROVE  /\ IsFiniteSet(Hours(from, to + 1))
         /\ (to + 1) % HoursPerDay = RolloverHour =>
              Cardinality(Hours(from, to + 1)) = Cardinality(Hours(from, to)) + 1
         /\ (to + 1) % HoursPerDay # RolloverHour =>
              Cardinality(Hours(from, to + 1)) = Cardinality(Hours(from, to))
<1>1. CASE (to + 1) % HoursPerDay = RolloverHour
  <2>1. Hours(from, to + 1) = Hours(from, to) \cup {to + 1} /\ to + 1 \notin Hours(from, to)
    BY <1>1 DEF Hours
  <2> QED BY <1>1, <2>1, FS_AddElement
<1>2. CASE (to + 1) % HoursPerDay # RolloverHour
  <2>1. Hours(from, to + 1) = Hours(from, to)
    BY <1>2 DEF Hours
  <2> QED BY <1>2, <2>1
<1> QED BY <1>1, <1>2

(* One more hour: another rollover when it is a rollover hour.             *)
LEMMA RolloverAdded ==
  ASSUME NEW from \in Int, NEW to \in Int, from <= to
  PROVE  /\ Rollovers(from, to) \in Int
         /\ (to + 1) % HoursPerDay = RolloverHour =>
              Rollovers(from, to + 1) = Rollovers(from, to) + 1
         /\ (to + 1) % HoursPerDay # RolloverHour =>
              Rollovers(from, to + 1) = Rollovers(from, to)
<1> DEFINE h == HoursPerDay
           today == (from \div h) * h + RolloverHour
           first == IF today <= from THEN today + h ELSE today
<1>1. h \in Nat \ {0} /\ RolloverHour \in 0..(h - 1)
  BY SimAssumption
<1>2. PICK d \in Int, r \in 0..(h - 1) : from = d * h + r
  BY <1>1, Division
<1>3. today = d * h + RolloverHour /\ from \div h = d
  BY <1>1, <1>2, DivisionIs
<1> DEFINE e == IF today <= from THEN d + 1 ELSE d
<1>4. e \in Int /\ first = e * h + RolloverHour /\ from < first /\ first <= from + h
  <2> HIDE DEF h
  <2> QED BY <1>1, <1>2, <1>3
<1>5. \A u : Rollovers(from, u) = IF u <= from \/ first > u THEN 0 ELSE (u - first) \div h + 1
  BY Zenon DEF Rollovers
<1> HIDE DEF h, today, first, e
<1>7. to - first \in Int /\ first \in Int
  BY <1>1, <1>4
<1>6. PICK q \in Int, s \in 0..(h - 1) : to - first = q * h + s
  BY <1>1, <1>7, Division
<1>8. (to - first) \div h = q
  BY <1>1, <1>6, <1>7, DivisionIs
<1>9. first > to <=> q < 0
  BY <1>1, <1>6, <1>7
<1>10. q >= -1
  BY <1>1, <1>4, <1>6, <1>7
<1>11. Rollovers(from, to) = q + 1
  BY <1>4, <1>5, <1>7, <1>8, <1>9, <1>10
<1>12. CASE s = h - 1
  <2>1. to + 1 - first = (q + 1) * h + 0 /\ 0 \in 0..(h - 1)
    BY <1>1, <1>6, <1>7, <1>12
  <2>2. (to + 1 - first) \div h = q + 1
    BY <1>1, <1>7, <2>1, DivisionIs
  <2>3. to + 1 = (q + 1 + e) * h + RolloverHour /\ q + 1 + e \in Int
    BY <1>1, <1>4, <1>7, <2>1
  <2>4. (to + 1) % h = RolloverHour
    BY <1>1, <2>3, DivisionIs
  <2>5. ~(first > to + 1)
    BY <1>1, <1>7, <1>10, <2>1
  <2>6. Rollovers(from, to + 1) = q + 2
    BY <1>5, <1>7, <2>2, <2>5
  <2> QED BY <1>11, <2>4, <2>6 DEF h
<1>13. CASE s # h - 1
  <2>1. to + 1 - first = q * h + (s + 1) /\ s + 1 \in 1..(h - 1)
    BY <1>1, <1>6, <1>7, <1>13
  <2>2. (to + 1 - first) \div h = q
    BY <1>1, <1>7, <2>1, DivisionIs
  <2>3. (to + 1) % h # RolloverHour
    <3>1. CASE s + 1 + RolloverHour < h
      <4>1. to + 1 = (q + e) * h + (s + 1 + RolloverHour) /\ q + e \in Int
            /\ s + 1 + RolloverHour \in 0..(h - 1)
        BY <1>1, <1>4, <1>7, <2>1, <3>1
      <4>2. (to + 1) % h = s + 1 + RolloverHour
        BY <1>1, <4>1, DivisionIs
      <4> QED BY <1>1, <2>1, <4>2
    <3>2. CASE ~(s + 1 + RolloverHour < h)
      <4>1. to + 1 = (q + e + 1) * h + (s + 1 + RolloverHour - h) /\ q + e + 1 \in Int
            /\ s + 1 + RolloverHour - h \in 0..(h - 1)
        BY <1>1, <1>4, <1>7, <2>1, <3>2
      <4>2. (to + 1) % h = s + 1 + RolloverHour - h
        BY <1>1, <4>1, DivisionIs
      <4> QED BY <1>1, <2>1, <4>2
    <3> QED BY <3>1, <3>2
  <2>4. first > to + 1 <=> q < 0
    BY <1>1, <1>7, <2>1
  <2>5. Rollovers(from, to + 1) = q + 1
    BY <1>4, <1>5, <1>7, <1>10, <2>2, <2>4
  <2> QED BY <1>11, <2>3, <2>5 DEF h
<1> QED BY <1>11, <1>12, <1>13

(* The closed form of _rollover_count() counts the rollover hours.         *)
LEMMA RolloversCount ==
  ASSUME NEW from \in Int, NEW to \in Int, from <= to
  PROVE  Rollovers(from, to) = Cardinality(Hours(from, to))
<1> DEFINE P == {n \in Nat : /\ IsFiniteSet(Hours(from, from + n))
                             /\ Rollovers(from, from + n) = Cardinality(Hours(from, from + n))}
<1>1. ASSUME NEW n \in Nat, \A m \in 0..(n - 1) : m \in P
      PROVE  n \in P
  <2>1. CASE n = 0
    <3>1. Hours(from, from + 0) = {}
      BY DEF Hours
    <3>2. Rollovers(from, from + 0) = 0
      BY DEF Rollovers
    <3> QED BY <2>1, <3>1, <3>2, FS_EmptySet
  <2>2. CASE n # 0
    <3> DEFINE prev == from + (n - 1)
    <3>1. n - 1 \in 0..(n - 1) /\ prev \in Int /\ from <= prev /\ prev + 1 = from + n
      BY <2>2
    <3>2. /\ IsFiniteSet(Hours(from, prev))
          /\ Rollovers(from, prev) = Cardinality(Hours(from, prev))
      BY <1>1, <3>1
    <3> HIDE DEF prev
    <3>3. /\ IsFiniteSet(Hours(from, prev + 1))
          /\ Rollovers(from, prev + 1) = Cardinality(Hours(from, prev + 1))
      <4>1. /\ IsFiniteSet(Hours(from, prev + 1))
            /\ (prev + 1) % HoursPerDay = RolloverHour =>
                 Cardinality(Hours(from, prev + 1)) = Cardinality(Hours(from, prev)) + 1
            /\ (prev + 1) % HoursPerDay # RolloverHour =>
                 Cardinality(Hours(from, prev + 1)) = Cardinality(Hours(from, prev))
        BY <3>1, <3>2, HourAdded, Zenon
      <4>2. /\ (prev + 1) % HoursPerDay = RolloverHour =>
                 Rollovers(from, prev + 1) = Rollovers(from, prev) + 1
            /\ (prev + 1) % HoursPerDay # RolloverHour =>
                 Rollovers(from, prev + 1) = Rollovers(from, prev)
        BY <3>1, RolloverAdded, Zenon
      <4> QED BY <3>2, <4>1, <4>2, Zenon
    <3>4. /\ IsFiniteSet(Hours(from, from + n))
          /\ Rollovers(from, from + n) = Cardinality(Hours(from, from + n))
      BY <3>1, <3>3, Zenon
    <3> QED BY <3>4, Zenon
  <2> QED BY <2>1, <2>2
<1>2. \A n \in Nat : n \in P
  <2> HIDE DEF P
  <2> QED BY <1>1, Induct
<1>3. to - from \in Nat /\ from + (to - from) = to
  OBVIOUS
<1>4. to - from \in P
  BY <1>2, <1>3
<1> QED BY <1>3, <1>4

-----------------------------------------------------------------------------
(* Types.  The symbols of the book have a price.                           *)
Priced ==
  /\ \A t \in DOMAIN positions : bid[positions[t].symbol] # None
  /\ \A t \in DOMAIN pending : bid[pending[t].symbol] # None

TypeInv == TypeOK /\ Priced

(* A sequence of integers has a largest and a smallest one.                *)
LEMMA Extremes ==
  ASSUME NEW s \in Seq(Int), Len(s) > 0
  PROVE  RangeOf(s) \in Int
<1> DEFINE P == {n \in Nat : n + 1 \in DOMAIN s =>
                   \E i \in 1..(n + 1), j \in 1..(n + 1) : \A k \in 1..(n + 1) :
                     s[k] <= s[i] /\ s[j] <= s[k]}
<1>0. /\ Len(s) \in Nat /\ DOMAIN s = 1..Len(s)
      /\ \A k \in DOMAIN s : s[k] \in Int
  OBVIOUS
<1>1. ASSUME NEW n \in Nat, \A m \in 0..(n - 1) : m \in P
      PROVE  n \in P
  <2> SUFFICES ASSUME n + 1 \in DOMAIN s
               PROVE  \E i \in 1..(n + 1), j \in 1..(n + 1) : \A k \in 1..(n + 1) :
                        s[k] <= s[i] /\ s[j] <= s[k]
    OBVIOUS
  <2>1. CASE n = 0
    <3>1. s[1] \in Int
      BY <1>0, <2>1
    <3>2. \A k \in 1..(n + 1) : s[k] <= s[1] /\ s[1] <= s[k]
      BY <2>1, <3>1
    <3>3. 1 \in 1..(n + 1)
      BY <2>1
    <3> WITNESS 1 \in 1..(n + 1), 1 \in 1..(n + 1)
    <3> QED BY <3>2
  <2>2. CASE n # 0
    <3>0. n - 1 \in 0..(n - 1)
      BY <2>2
    <3>1. n - 1 \in P
      BY <1>1, <3>0, Zenon
    <3>2. PICK i \in 1..n, j \in 1..n : \A k \in 1..n : s[k] <= s[i] /\ s[j] <= s[k]
      <4>1. (n - 1) + 1 = n /\ n \in DOMAIN s
        BY <1>0, <2>2
      <4>2. \E i \in 1..((n - 1) + 1), j \in 1..((n - 1) + 1) : \A k \in 1..((n - 1) + 1) :
              s[k] <= s[i] /\ s[j] <= s[k]
        BY <3>1, <4>1, Zenon
      <4> QED BY <4>1, <4>2, Zenon
    <3> DEFINE x == IF s[i] <= s[n + 1] THEN n + 1 ELSE i
               y == IF s[n + 1] <= s[j] THEN n + 1 ELSE j
    <3>3. \A k \in 1..(n + 1) : s[k] \in Int /\ (k = n + 1 \/ k \in 1..n)
      BY <1>0
    <3>4. x \in 1..(n + 1) /\ y \in 1..(n + 1)
      OBVIOUS
    <3>a. /\ s[i] \in Int /\ s[j] \in Int /\ s[n + 1] \in Int
          /\ i \in 1..(n + 1) /\ j \in 1..(n + 1) /\ n + 1 \in 1..(n + 1)
      BY <3>3
    <3>b. /\ s[x] \in Int /\ s[i] <= s[x] /\ s[n + 1] <= s[x]
      <4>1. CASE s[i] <= s[n + 1]
        BY <3>a, <4>1
      <4>2. CASE ~(s[i] <= s[n + 1])
        BY <3>a, <4>2
      <4> QED BY <4>1, <4>2
    <3>c. /\ s[y] \in Int /\ s[y] <= s[j] /\ s[y] <= s[n + 1]
      <4>1. CASE s[n + 1] <= s[j]
        BY <3>a, <4>1
      <4>2. CASE ~(s[n + 1] <= s[j])
        BY <3>a, <4>2
      <4> QED BY <4>1, <4>2
    <3>5. ASSUME NEW k \in 1..(n + 1) PROVE s[k] <= s[x] /\ s[y] <= s[k]
      <4> HIDE DEF x, y
      <4>1. CASE k = n + 1
        BY <3>b, <3>c, <4>1
      <4>2. CASE k \in 1..n
        <5>1. s[k] <= s[i] /\ s[j] <= s[k] /\ s[k] \in Int
          BY <3>2, <3>3, <4>2
        <5>2. \A a, b, c \in Int : a <= b /\ b <= c => a <= c
          OBVIOUS
        <5> QED BY <3>a, <3>b, <3>c, <5>1, <5>2, Zenon
      <4>3. k = n + 1 \/ k \in 1..n
        BY <3>3, Zenon
      <4> QED BY <4>1, <4>2, <4>3
    <3> HIDE DEF x, y
    <3> QED BY <3>4, <3>5
  <2> QED BY <2>1, <2>2
<1>2. Len(s) - 1 \in P
  <2> HIDE DEF P
  <2>1. \A n \in Nat : n \in P
    BY <1>1, Induct
  <2> QED BY <1>0, <2>1
<1>3. PICK i \in DOMAIN s, j \in DOMAIN s : \A k \in DOMAIN s : s[k] <= s[i] /\ s[j] <= s[k]
  <2>1. (Len(s) - 1) + 1 = Len(s) /\ Len(s) \in DOMAIN s
    BY <1>0
  <2>2. \E i \in 1..((Len(s) - 1) + 1), j \in 1..((Len(s) - 1) + 1) :
          \A k \in 1..((Len(s) - 1) + 1) : s[k] <= s[i] /\ s[j] <= s[k]
    BY <1>2, <2>1, Zenon
  <2> QED BY <1>0, <2>1, <2>2, Zenon
<1> DEFINE values == ToSet(s)
<1>4. /\ values = {s[k] : k \in DOMAIN s}
      /\ s[i] \in values /\ s[j] \in values
      /\ \A v \in values : v \in Int /\ v <= s[i] /\ s[j] <= v
  <2>1. values = {s[k] : k \in DOMAIN s}
    BY DEF ToSet
  <2> HIDE DEF values
  <2> QED BY <1>0, <1>3, <2>1
<1>5. (CHOOSE x \in values : \A y \in values : y <= x) \in values
  <2> HIDE DEF values
  <2> QED BY <1>4
<1>6. (CHOOSE x \in values : \A y \in values : x <= y) \in values
  <2> HIDE DEF values
  <2> QED BY <1>4
<1>7. RangeOf(s) = (CHOOSE x \in values : \A y \in values : y <= x)
                    - (CHOOSE x \in values : \A y \in values : x <= y)
  BY Zenon DEF RangeOf
<1> HIDE DEF values
<1>8. (CHOOSE x \in values : \A y \in values : y <= x) \in Int
  BY <1>4, <1>5, Zenon
<1>9. (CHOOSE x \in values : \A y \in values : x <= y) \in Int
  BY <1>4, <1>6, Zenon
<1> QED BY <1>7, <1>8, <1>9

(* A fill has a price, and its bid is remembered.                          *)
LEMMA SlippedTypes ==
  ASSUME TypeOK, NEW side \in Sides, NEW b \in Int, NEW a \in Int
  PROVE  Slipped(side, b, a) \in Int /\ Remember(b) \in Seq(Int)
<1>1. Sign(side) \in Int /\ Mid(b, a) \in Int /\ Slippage \in Int /\ Factor \in Int /\ Point \in Int
  BY SimAssumption DEF Sign, Mid
<1>2. bids \in Seq(Int)
  BY DEF TypeOK
<1>3. Remember(b) \in Seq(Int)
  <2>1. Append(bids, b) \in Seq(Int) /\ Append(bids, b) # <<>>
    BY <1>2
  <2> QED BY <1>2, <2>1 DEF Remember
<1> DEFINE recent == IF Len(Remember(b)) > 1 THEN RangeOf(Remember(b)) ELSE a - b
<1>4. recent \in Int
  BY <1>3, Extremes
<1> HIDE DEF recent
<1>5. (IF recent > Point THEN recent ELSE Point) \in Int
  BY <1>1, <1>4
<1>6. Mid(b, a) + Sign(side) * Factor * (IF recent > Point THEN recent ELSE Point) \in Int
  BY <1>1, <1>5
<1>7. Mid(b, a) + Sign(side) * Slippage \in Int
  BY <1>1
<1>8. model \in {"fixed", "spread", "volatility"}
  BY SimAssumption DEF TypeOK
<1>9. CASE model = "volatility"
  <2>1. Slipped(side, b, a) =
          Mid(b, a) + Sign(side) * Factor * (IF recent > Point THEN recent ELSE Point)
    BY <1>9 DEF Slipped, recent
  <2> QED BY <1>3, <1>6, <2>1
<1>10. CASE model # "volatility"
  BY <1>3, <1>7, <1>8, <1>10 DEF Slipped
<1> QED BY <1>9, <1>10

(* The book as far as its types go.                                        *)
BookTypes ==
  /\ DOMAIN positions \subseteq Tickets
  /\ \A t \in DOMAIN positions : positions[t] \in Position
  /\ DOMAIN pending \subseteq Tickets
  /\ \A t \in DOMAIN pending : pending[t] \in Order
  /\ Priced

MoneyTypes ==
  /\ bids \in Seq(Int)
  /\ balance \in Int /\ realised \in Int /\ openCost \in Int
  /\ trades \in Seq(TradeRecord)
  /\ filled \in [Tickets -> Nat]

LoopTypes ==
  /\ model \in Models
  /\ granularity \in {"tick", "bar"}
  /\ phase \in {"sleeping", "stops", "fills", "closing", "ending", "done"}
  /\ todo \subseteq Tickets
  /\ simTime \in Nat
  /\ bid \in [Symbols -> OptLevels]
  /\ ask \in [Symbols -> OptLevels]
  /\ \A s \in Symbols : bid[s] = None <=> ask[s] = None
  /\ nextTicket \in Nat \ {0}
  /\ ops \in Nat

LEMMA TypeParts ==
  TypeInv <=> BookTypes /\ MoneyTypes /\ LoopTypes
BY DEF TypeInv, TypeOK, BookTypes, MoneyTypes, LoopTypes

LEMMA Quoted ==
  ASSUME TypeInv, NEW s \in Symbols, bid[s] # None
  PROVE  bid[s] \in Int /\ ask[s] \in Int
BY DEF TypeInv, TypeOK, OptLevels

LEMMA FeeInt ==
  ASSUME NEW qty \in Nat
  PROVE  Fee(qty) \in Int
<1>1. Commission \in Int
  BY SimAssumption
<1> QED BY <1>1 DEF Fee

(* What opening a position does to the types.                              *)
LEMMA OpenedTypes ==
  ASSUME TypeInv, NEW t \in Tickets, NEW o, NEW price \in Int, OpenPosition(t, o, price),
         o.symbol \in Symbols, o.side \in Sides, o.volume \in Nat \ {0},
         o.sl \in OptLevels, o.tp \in OptLevels, bid[o.symbol] # None
  PROVE  /\ DOMAIN positions' \subseteq Tickets
         /\ \A u \in DOMAIN positions' :
              positions'[u] \in Position /\ bid[positions'[u].symbol] # None
         /\ balance' \in Int /\ openCost' \in Int /\ UNCHANGED <<trades, realised>>
         /\ filled' \in [Tickets -> Nat]
<1> DEFINE p == [symbol |-> o.symbol, side |-> o.side, volume |-> o.volume,
                 price |-> price, time |-> simTime, sl |-> o.sl, tp |-> o.tp]
<1>1. positions' = With(positions, t, p)
  BY DEF OpenPosition
<1>2. p \in Position /\ p.symbol = o.symbol
  BY DEF Position, TypeInv, TypeOK
<1> HIDE DEF p
<1>3. /\ DOMAIN positions' = DOMAIN positions \cup {t}
      /\ \A u \in DOMAIN positions' : positions'[u] = IF u = t THEN p ELSE positions[u]
  BY <1>1 DEF With
<1>4. Fee(o.volume) \in Int
  BY FeeInt
<1>5. balance' \in Int /\ openCost' \in Int
  BY <1>4 DEF OpenPosition, TypeInv, TypeOK
<1>6. filled' \in [Tickets -> Nat]
  BY DEF OpenPosition, TypeInv, TypeOK
<1> QED BY <1>2, <1>3, <1>5, <1>6 DEF TypeInv, TypeOK, Priced, OpenPosition

(* What is closed, and for how much.                                       *)
QtyOf(t, volume) ==
  IF volume = None \/ volume >= positions[t].volume THEN positions[t].volume ELSE volume
PriceOf(t) ==
  LET p == positions[t] IN Slipped(Opposite(p.side), bid[p.symbol], ask[p.symbol])
GainOf(t, qty) == Gross(positions[t], qty, PriceOf(t)) + Swap(positions[t], qty)
RecordOf(t, qty) ==
  [ticket |-> t, volume |-> qty, opened |-> positions[t].time, closed |-> simTime,
   pnl |-> GainOf(t, qty) - 2 * Fee(qty)]

LEMMA ClosingTypes ==
  ASSUME TypeInv, NEW t \in DOMAIN positions, NEW volume \in (Nat \ {0}) \cup {None}
  PROVE  /\ QtyOf(t, volume) \in 1..positions[t].volume
         /\ positions[t].volume \in Nat \ {0}
         /\ Remember(bid[positions[t].symbol]) \in Seq(Int)
         /\ \A qty \in Nat : /\ Gross(positions[t], qty, PriceOf(t)) \in Int
                             /\ Swap(positions[t], qty) \in Int
                             /\ GainOf(t, qty) \in Int
<1> DEFINE p == positions[t]
<1>1. p \in Position /\ bid[p.symbol] # None
  BY DEF TypeInv, TypeOK, Priced
<1>2. /\ p.symbol \in Symbols /\ p.side \in Sides /\ p.volume \in Nat \ {0}
      /\ p.price \in Int /\ p.time \in Nat
  BY <1>1 DEF Position
<1>3. bid[p.symbol] \in Int /\ ask[p.symbol] \in Int
  BY <1>1, <1>2, Quoted
<1>4. Opposite(p.side) \in Sides
  BY <1>2 DEF Opposite, Sides
<1>5. PriceOf(t) \in Int /\ Remember(bid[p.symbol]) \in Seq(Int)
  <2> HIDE DEF p
  <2>1. TypeOK
    BY DEF TypeInv
  <2>2. Slipped(Opposite(p.side), bid[p.symbol], ask[p.symbol]) \in Int
        /\ Remember(bid[p.symbol]) \in Seq(Int)
    BY <1>3, <1>4, <2>1, SlippedTypes
  <2> QED BY <2>2 DEF PriceOf, p
<1>6. QtyOf(t, volume) \in 1..p.volume
  BY <1>2 DEF QtyOf
<1>7. ASSUME NEW qty \in Nat
      PROVE  /\ Gross(positions[t], qty, PriceOf(t)) \in Int
             /\ Swap(positions[t], qty) \in Int
             /\ GainOf(t, qty) \in Int
  <2>1. Sign(p.side) \in Int /\ ContractSize \in Int /\ SwapLong \in Int /\ SwapShort \in Int
    BY SimAssumption DEF Sign
  <2>2. simTime \in Nat
    BY DEF TypeInv, TypeOK
  <2>3. Rollovers(p.time, simTime) \in Int
    <3>1. CASE p.time <= simTime
      BY <1>2, <2>2, <3>1, RolloverAdded
    <3>2. CASE ~(p.time <= simTime)
      <4>1. Rollovers(p.time, simTime) = 0
        BY <1>2, <2>2, <3>2 DEF Rollovers
      <4> QED BY <4>1
    <3> QED BY <3>1, <3>2
  <2> HIDE DEF p
  <2>4. Gross(p, qty, PriceOf(t)) \in Int
    BY <1>2, <1>5, <2>1 DEF Gross
  <2> DEFINE rate == IF p.side = "buy" THEN SwapLong ELSE SwapShort
  <2>5. rate \in Int
    BY <2>1
  <2> HIDE DEF rate
  <2>6. Rollovers(p.time, simTime) * rate * qty \in Int
    BY <2>3, <2>5
  <2>7. Swap(p, qty) \in Int
    BY <2>6 DEF Swap, rate
  <2> QED BY <2>4, <2>7 DEF GainOf, p
<1> QED BY <1>2, <1>5, <1>6, <1>7

(* The quantity that is closed, and what it does to the book and the money. *)
LEMMA Closing ==
  ASSUME TypeInv, NEW t \in DOMAIN positions, NEW volume \in (Nat \ {0}) \cup {None},
         ClosePosition(t, volume)
  PROVE  \E qty \in 1..positions[t].volume :
           /\ balance' = balance + GainOf(t, qty) - Fee(qty)
           /\ realised' = realised + (GainOf(t, qty) - 2 * Fee(qty))
           /\ openCost' = openCost - Fee(qty)
           /\ trades' = Append(trades, RecordOf(t, qty))
           /\ \A u \in DOMAIN positions \ {t} : positions'[u] = positions[u]
           /\ \/ qty = positions[t].volume /\ DOMAIN positions' = DOMAIN positions \ {t}
              \/ /\ qty < positions[t].volume /\ DOMAIN positions' = DOMAIN positions
                 /\ positions'[t] = [positions[t] EXCEPT !.volume = positions[t].volume - qty]
           /\ bids' = Remember(bid[positions[t].symbol])
           /\ UNCHANGED <<nextTicket, pending, filled>>
<1> DEFINE qty == QtyOf(t, volume)
           g == Gross(positions[t], qty, PriceOf(t))
           w == Swap(positions[t], qty)
<1>1. qty \in 1..positions[t].volume /\ positions[t].volume \in Nat \ {0}
  BY ClosingTypes
<1>2. /\ balance' = balance + g - Fee(qty) + w
      /\ realised' = realised + (g - 2 * Fee(qty) + w)
      /\ openCost' = openCost - Fee(qty)
      /\ trades' = Append(trades, [ticket |-> t, volume |-> qty, opened |-> positions[t].time,
                                   closed |-> simTime, pnl |-> g - 2 * Fee(qty) + w])
      /\ bids' = Remember(bid[positions[t].symbol])
      /\ UNCHANGED <<nextTicket, pending, filled>>
  BY Zenon DEF ClosePosition, QtyOf, PriceOf
<1>3. positions' = IF volume = None \/ volume >= positions[t].volume THEN Without(positions, t)
                   ELSE [positions EXCEPT ![t].volume = positions[t].volume - qty]
  BY Zenon DEF ClosePosition, QtyOf
<1>4. /\ \A u \in DOMAIN positions \ {t} : positions'[u] = positions[u]
      /\ \/ qty = positions[t].volume /\ DOMAIN positions' = DOMAIN positions \ {t}
         \/ /\ qty < positions[t].volume /\ DOMAIN positions' = DOMAIN positions
            /\ positions'[t] = [positions[t] EXCEPT !.volume = positions[t].volume - qty]
  <2>1. CASE volume = None \/ volume >= positions[t].volume
    BY <1>3, <2>1 DEF Without, QtyOf
  <2>2. CASE ~(volume = None \/ volume >= positions[t].volume)
    <3>1. qty < positions[t].volume
      BY <1>1, <2>2 DEF QtyOf
    <3> HIDE DEF qty
    <3>2. positions' = [positions EXCEPT ![t].volume = positions[t].volume - qty]
      BY <1>3, <2>2
    <3> QED BY <3>1, <3>2
  <2> QED BY <2>1, <2>2
<1>5. GainOf(t, qty) = g + w
  BY DEF GainOf
<1>6. qty \in Nat
  BY <1>1
<1> HIDE DEF qty
<1>7. g \in Int /\ w \in Int /\ Fee(qty) \in Int /\ balance \in Int /\ realised \in Int
  BY <1>6, ClosingTypes, FeeInt DEF TypeInv, TypeOK
<1> HIDE DEF g, w
<1>8. /\ balance + g - Fee(qty) + w = balance + GainOf(t, qty) - Fee(qty)
      /\ g - 2 * Fee(qty) + w = GainOf(t, qty) - 2 * Fee(qty)
  BY <1>5, <1>7
<1>9. /\ balance' = balance + GainOf(t, qty) - Fee(qty)
      /\ realised' = realised + (GainOf(t, qty) - 2 * Fee(qty))
      /\ trades' = Append(trades, RecordOf(t, qty))
  BY <1>2, <1>8, Zenon DEF RecordOf
<1> QED BY <1>1, <1>2, <1>4, <1>9, Zenon

(* Closing keeps the types.                                                *)
LEMMA ClosedTypes ==
  ASSUME TypeInv, NEW t \in DOMAIN positions, NEW volume \in (Nat \ {0}) \cup {None},
         ClosePosition(t, volume), bid' = bid
  PROVE  BookTypes' /\ MoneyTypes'
<1>1. PICK qty \in 1..positions[t].volume :
        /\ balance' = balance + GainOf(t, qty) - Fee(qty)
        /\ realised' = realised + (GainOf(t, qty) - 2 * Fee(qty))
        /\ openCost' = openCost - Fee(qty)
        /\ trades' = Append(trades, RecordOf(t, qty))
        /\ \A u \in DOMAIN positions \ {t} : positions'[u] = positions[u]
        /\ \/ qty = positions[t].volume /\ DOMAIN positions' = DOMAIN positions \ {t}
           \/ /\ qty < positions[t].volume /\ DOMAIN positions' = DOMAIN positions
              /\ positions'[t] = [positions[t] EXCEPT !.volume = positions[t].volume - qty]
        /\ bids' = Remember(bid[positions[t].symbol])
        /\ UNCHANGED <<nextTicket, pending, filled>>
  BY Closing
<1>2. /\ positions[t].volume \in Nat \ {0} /\ qty \in Nat \ {0}
      /\ bids' \in Seq(Int) /\ GainOf(t, qty) \in Int
  <2>1. /\ positions[t].volume \in Nat \ {0}
        /\ Remember(bid[positions[t].symbol]) \in Seq(Int)
        /\ \A q \in Nat : GainOf(t, q) \in Int
    BY ClosingTypes
  <2>2. qty \in Nat \ {0}
    BY <2>1
  <2> QED BY <1>1, <2>1, <2>2
<1>3. Fee(qty) \in Int
  BY <1>2, FeeInt
<1>4. RecordOf(t, qty) \in TradeRecord
  <2>1. t \in Tickets /\ positions[t].time \in Nat /\ simTime \in Nat
    BY DEF TypeInv, TypeOK, Position
  <2>2. GainOf(t, qty) - 2 * Fee(qty) \in Int
    BY <1>2, <1>3
  <2> QED BY <1>2, <2>1, <2>2 DEF RecordOf, TradeRecord
<1>5. MoneyTypes'
  <2>1. trades' \in Seq(TradeRecord)
    BY <1>1, <1>4 DEF TypeInv, TypeOK
  <2>2. balance' \in Int /\ realised' \in Int /\ openCost' \in Int
    <3>1. balance \in Int /\ realised \in Int /\ openCost \in Int
      BY DEF TypeInv, TypeOK
    <3>2. /\ balance' = balance + GainOf(t, qty) - Fee(qty)
          /\ realised' = realised + (GainOf(t, qty) - 2 * Fee(qty))
          /\ openCost' = openCost - Fee(qty)
      BY <1>1
    <3>3. GainOf(t, qty) \in Int
      BY <1>2
    <3> QED BY ONLY <1>3, <3>1, <3>2, <3>3
  <2> QED BY <1>1, <1>2, <2>1, <2>2 DEF MoneyTypes, TypeInv, TypeOK
<1>6. \A u \in DOMAIN positions' : positions'[u] \in Position /\ bid[positions'[u].symbol] # None
  <2> SUFFICES ASSUME NEW u \in DOMAIN positions'
               PROVE  positions'[u] \in Position /\ bid[positions'[u].symbol] # None
    OBVIOUS
  <2>1. u \in DOMAIN positions /\ positions[u] \in Position /\ bid[positions[u].symbol] # None
    BY <1>1 DEF TypeInv, TypeOK, Priced
  <2>2. CASE u # t
    BY <1>1, <2>1, <2>2
  <2>3. CASE u = t
    <3>1. /\ positions'[t] = [positions[t] EXCEPT !.volume = positions[t].volume - qty]
          /\ positions[t].volume - qty \in Nat \ {0}
      BY <1>1, <1>2, <2>3
    <3> QED BY <2>1, <2>3, <3>1 DEF Position
  <2> QED BY <2>2, <2>3
<1>7. BookTypes'
  BY <1>1, <1>6 DEF BookTypes, Priced, TypeInv, TypeOK
<1> QED BY <1>5, <1>7

(* The types are kept by every operation, ...                              *)
LEMMA OperateTypes ==
  ASSUME TypeInv, Operable, CountOp
  PROVE  LoopTypes' <=> nextTicket' \in Nat \ {0}
BY DEF TypeInv, TypeOK, LoopTypes, Operable, CountOp, config, market

LEMMA PlaceMarketTypes ==
  ASSUME TypeInv, IInv, NEW r \in Requests, PlaceMarket(r)
  PROVE  TypeInv'
<1>1. /\ r.symbol \in Symbols /\ r.side \in Sides /\ r.volume \in Nat \ {0}
      /\ r.sl \in OptLevels /\ r.tp \in OptLevels
  BY SimAssumption
<1>2. /\ nextTicket \in Tickets /\ nextTicket' = nextTicket + 1 /\ pending' = pending
      /\ bid[r.symbol] # None /\ bid' = bid
  BY SimAssumption DEF PlaceMarket, IInv, BookInv, Tickets, CountOp, market
<1>3. bid[r.symbol] \in Int /\ ask[r.symbol] \in Int /\ TypeOK
  BY <1>1, <1>2, Quoted DEF TypeInv
<1> DEFINE price == Slipped(r.side, bid[r.symbol], ask[r.symbol])
<1>4. price \in Int /\ bids' \in Seq(Int)
  <2>1. bids' = Remember(bid[r.symbol])
    BY DEF PlaceMarket
  <2> QED BY <1>1, <1>3, <2>1, SlippedTypes
<1>5. OpenPosition(nextTicket, r, price)
  BY DEF PlaceMarket
<1> HIDE DEF price
<1>6. /\ DOMAIN positions' \subseteq Tickets
      /\ \A u \in DOMAIN positions' :
           positions'[u] \in Position /\ bid[positions'[u].symbol] # None
      /\ balance' \in Int /\ openCost' \in Int /\ UNCHANGED <<trades, realised>>
      /\ filled' \in [Tickets -> Nat]
  BY <1>1, <1>2, <1>4, <1>5, OpenedTypes
<1>7. BookTypes' /\ MoneyTypes'
  BY <1>2, <1>4, <1>6 DEF BookTypes, MoneyTypes, Priced, TypeInv, TypeOK
<1>8. LoopTypes'
  BY <1>2, OperateTypes DEF PlaceMarket, TypeInv, TypeOK
<1> QED BY <1>7, <1>8, TypeParts DEF TypeInv, BookTypes, MoneyTypes, LoopTypes, TypeOK

LEMMA FillTypes ==
  ASSUME TypeInv, IInv, NEW t \in Tickets, FillPending(t)
  PROVE  TypeInv'
<1> DEFINE o == pending[t]
<1>1. /\ t \in DOMAIN pending /\ o \in Order /\ bid[o.symbol] # None
      /\ bid' = bid /\ ask' = ask
  BY DEF FillPending, IInv, LoopInv, BookInv, TypeInv, Priced, market
<1>2. /\ o.symbol \in Symbols /\ o.side \in Sides /\ o.volume \in Nat \ {0}
      /\ o.sl \in OptLevels /\ o.tp \in OptLevels /\ o.price \in Int
  BY <1>1 DEF Order
<1>3. bid[o.symbol] \in Int /\ ask[o.symbol] \in Int /\ TypeOK /\ bids \in Seq(Int)
  BY <1>1, <1>2, Quoted DEF TypeInv, TypeOK
<1>4. /\ OpenPosition(t, o, FillPrice(o))
      /\ bids' = IF o.type = "stop" THEN Remember(TriggerBid(o)) ELSE bids
      /\ pending' = Without(pending, t) /\ nextTicket' = nextTicket
  BY DEF FillPending
<1> HIDE DEF o
<1>5. TriggerBid(o) \in Int /\ TriggerAsk(o) \in Int
  BY <1>2, <1>3 DEF TriggerBid, TriggerAsk
<1>6. FillPrice(o) \in Int /\ bids' \in Seq(Int)
  BY <1>2, <1>3, <1>4, <1>5, SlippedTypes DEF FillPrice
<1>7. /\ DOMAIN positions' \subseteq Tickets
      /\ \A u \in DOMAIN positions' :
           positions'[u] \in Position /\ bid[positions'[u].symbol] # None
      /\ balance' \in Int /\ openCost' \in Int /\ UNCHANGED <<trades, realised>>
      /\ filled' \in [Tickets -> Nat]
  BY <1>1, <1>2, <1>4, <1>6, OpenedTypes
<1>8. DOMAIN pending' \subseteq DOMAIN pending /\ \A u \in DOMAIN pending' : pending'[u] = pending[u]
  BY <1>4 DEF Without
<1>9. BookTypes' /\ MoneyTypes'
  BY <1>1, <1>6, <1>7, <1>8 DEF BookTypes, MoneyTypes, Priced, TypeInv, TypeOK
<1>10. LoopTypes'
  BY <1>4 DEF FillPending, LoopTypes, TypeInv, TypeOK, config, market
<1> QED BY <1>9, <1>10, TypeParts DEF TypeInv, BookTypes, MoneyTypes, LoopTypes, TypeOK

LEMMA CloseTypes ==
  ASSUME TypeInv, IInv, NEW t \in Tickets,
         (\E v \in Volumes : Close(t, v)) \/ StopOut(t) \/ CloseRemaining(t)
  PROVE  TypeInv'
<1>1. /\ t \in DOMAIN positions /\ bid' = bid
      /\ \E volume \in (Nat \ {0}) \cup {None} : ClosePosition(t, volume)
  BY SimAssumption DEF Close, CountOp, StopOut, CloseRemaining, IInv, LoopInv, market
<1>2. BookTypes' /\ MoneyTypes' /\ nextTicket' = nextTicket
  BY <1>1, ClosedTypes DEF ClosePosition
<1>3. LoopTypes'
  <2>1. CASE \E v \in Volumes : Close(t, v)
    BY <1>2, <2>1, OperateTypes DEF Close, TypeInv, TypeOK
  <2>2. CASE StopOut(t) \/ CloseRemaining(t)
    BY <1>2, <2>2 DEF StopOut, CloseRemaining, LoopTypes, TypeInv, TypeOK, config, market
  <2> QED BY <2>1, <2>2
<1> QED BY <1>2, <1>3, TypeParts DEF TypeInv, BookTypes, MoneyTypes, LoopTypes, TypeOK

LEMMA PlacePendingTypes ==
  ASSUME TypeInv, IInv, NEW r \in Requests, PlacePending(r)
  PROVE  TypeInv'
<1>1. r \in Order
  BY SimAssumption DEF PlacePending, Order, OptLevels
<1>2. /\ nextTicket \in Tickets /\ nextTicket' = nextTicket + 1 /\ bid[r.symbol] # None
      /\ pending' = With(pending, nextTicket, r) /\ bid' = bid /\ positions' = positions
  BY SimAssumption DEF PlacePending, IInv, BookInv, Tickets, CountOp, market
<1>3. /\ DOMAIN pending' = DOMAIN pending \cup {nextTicket}
      /\ \A u \in DOMAIN pending' :
           pending'[u] = IF u = nextTicket THEN r ELSE pending[u]
  BY <1>2 DEF With
<1>4. BookTypes'
  BY <1>1, <1>2, <1>3 DEF BookTypes, Priced, TypeInv, TypeOK
<1>5. MoneyTypes'
  BY DEF PlacePending, MoneyTypes, money, TypeInv, TypeOK
<1>6. LoopTypes'
  BY <1>2, OperateTypes DEF PlacePending, TypeInv, TypeOK
<1> QED BY <1>4, <1>5, <1>6, TypeParts DEF TypeInv, BookTypes, MoneyTypes, LoopTypes, TypeOK

LEMMA ModifyPendingTypes ==
  ASSUME TypeInv, IInv, NEW t \in Tickets, NEW c \in Changes, ModifyPending(t, c)
  PROVE  TypeInv'
<1>1. /\ UNCHANGED <<nextTicket, positions>>
      /\ DOMAIN pending' = DOMAIN pending /\ t \in DOMAIN pending
      /\ \A u \in DOMAIN pending \ {t} : pending'[u] = pending[u]
      /\ pending'[t] \in Order
  BY ModifiedPending DEF IInv
<1>2. pending'[t].symbol = pending[t].symbol
  <2>1. pending[t] \in Order
    BY <1>1 DEF TypeInv, TypeOK
  <2> QED BY <1>1, <2>1 DEF ModifyPending, Order
<1>3. bid' = bid
  BY DEF ModifyPending, CountOp, market
<1>4. BookTypes'
  BY <1>1, <1>2, <1>3 DEF BookTypes, Priced, TypeInv, TypeOK
<1>5. MoneyTypes'
  BY DEF ModifyPending, MoneyTypes, money, TypeInv, TypeOK
<1>6. LoopTypes'
  BY <1>1, OperateTypes DEF ModifyPending, TypeInv, TypeOK
<1> QED BY <1>4, <1>5, <1>6, TypeParts DEF TypeInv, BookTypes, MoneyTypes, LoopTypes, TypeOK

LEMMA ModifyPositionTypes ==
  ASSUME TypeInv, IInv, NEW t \in Tickets, NEW c \in Changes, ModifyPosition(t, c)
  PROVE  TypeInv'
<1>1. t \in DOMAIN positions /\ positions[t] \in Position
  BY DEF ModifyPosition, TypeInv, TypeOK
<1>2. /\ Chosen(c.sl, positions[t].sl) \in OptLevels
      /\ Chosen(c.tp, positions[t].tp) \in OptLevels
  BY <1>1, SimAssumption DEF Chosen, Position, OptLevels
<1> DEFINE p == [positions[t] EXCEPT !.sl = Chosen(c.sl, @), !.tp = Chosen(c.tp, @)]
<1>3. p \in Position /\ p.symbol = positions[t].symbol
  BY <1>1, <1>2 DEF Position
<1>4. positions' = [positions EXCEPT ![t] = p]
  BY DEF ModifyPosition
<1> HIDE DEF p
<1>5. /\ UNCHANGED <<nextTicket, pending, bid>>
      /\ DOMAIN positions' = DOMAIN positions
      /\ \A u \in DOMAIN positions' : positions'[u] = IF u = t THEN p ELSE positions[u]
  BY <1>4 DEF ModifyPosition, CountOp, market
<1>6. BookTypes'
  BY <1>1, <1>3, <1>5 DEF BookTypes, Priced, TypeInv, TypeOK
<1>7. MoneyTypes'
  BY DEF ModifyPosition, MoneyTypes, money, TypeInv, TypeOK
<1>8. LoopTypes'
  BY <1>5, OperateTypes DEF ModifyPosition, TypeInv, TypeOK
<1> QED BY <1>6, <1>7, <1>8, TypeParts DEF TypeInv, BookTypes, MoneyTypes, LoopTypes, TypeOK

LEMMA CancelTypes ==
  ASSUME TypeInv, IInv, NEW t \in Tickets, Cancel(t)
  PROVE  TypeInv'
<1>1. BookTypes'
  BY DEF Cancel, Without, CountOp, market, BookTypes, Priced, TypeInv, TypeOK
<1>2. MoneyTypes'
  BY DEF Cancel, MoneyTypes, money, TypeInv, TypeOK
<1>3. LoopTypes'
  BY OperateTypes DEF Cancel, TypeInv, TypeOK
<1> QED BY <1>1, <1>2, <1>3, TypeParts DEF TypeInv, BookTypes, MoneyTypes, LoopTypes, TypeOK

(* ... and by every step of the replay.                                    *)
LEMMA ReplayTypes ==
  ASSUME TypeInv, IInv, NEW s \in Symbols, NEW e, NEW b \in Int, NEW a \in Int, Replay(s, e, b, a)
  PROVE  TypeInv'
<1>1. None \notin Int
  BY SimAssumption
<1>2. \A u \in Symbols : /\ bid'[u] = IF u = s THEN b ELSE bid[u]
                         /\ ask'[u] = IF u = s THEN a ELSE ask[u]
  BY DEF Replay, TypeInv, TypeOK
<1>3. /\ bid' \in [Symbols -> OptLevels] /\ ask' \in [Symbols -> OptLevels]
      /\ \A u \in Symbols : bid'[u] = None <=> ask'[u] = None
      /\ \A u \in Symbols : bid[u] # None => bid'[u] # None
  <2>1. bid' \in [Symbols -> OptLevels] /\ ask' \in [Symbols -> OptLevels]
    BY DEF Replay, TypeInv, TypeOK, OptLevels
  <2> QED BY <1>1, <1>2, <2>1 DEF TypeInv, TypeOK
<1>4. simTime' \in Nat
  BY DEF Replay, TypeInv, TypeOK
<1>5. todo' \subseteq Tickets
  BY DEF Replay, TypeInv, TypeOK
<1>6. BookTypes'
  BY <1>3 DEF Replay, BookTypes, Priced, TypeInv, TypeOK, Position, Order
<1>7. MoneyTypes'
  BY DEF Replay, MoneyTypes, money, TypeInv, TypeOK
<1>8. LoopTypes'
  BY <1>3, <1>4, <1>5 DEF Replay, LoopTypes, TypeInv, TypeOK, config
<1> QED BY <1>6, <1>7, <1>8, TypeParts DEF TypeInv, BookTypes, MoneyTypes, LoopTypes, TypeOK

LEMMA PhaseTypes ==
  ASSUME TypeInv, IInv, CheckPending \/ PublishEvent \/ EndReplay \/ StopRunner \/ Report
  PROVE  TypeInv'
<1>1. /\ UNCHANGED <<positions, pending, nextTicket, filled, ops>> /\ UNCHANGED config
      /\ UNCHANGED market /\ UNCHANGED money
  BY DEF CheckPending, PublishEvent, EndReplay, StopRunner, Report
<1>2. /\ phase' \in {"sleeping", "stops", "fills", "closing", "ending", "done"}
      /\ todo' \subseteq Tickets
  BY DEF CheckPending, PublishEvent, EndReplay, StopRunner, Report, TypeInv, TypeOK
<1>3. BookTypes' /\ MoneyTypes'
  BY <1>1 DEF BookTypes, MoneyTypes, Priced, TypeInv, TypeOK, money, market
<1>4. LoopTypes'
  BY <1>1, <1>2 DEF LoopTypes, TypeInv, TypeOK, config, market
<1> QED BY <1>3, <1>4, TypeParts DEF TypeInv, BookTypes, MoneyTypes, LoopTypes, TypeOK

LEMMA StutterTypes ==
  ASSUME TypeInv, UNCHANGED vars
  PROVE  TypeInv'
BY DEF TypeInv, TypeOK, Priced, vars

(* Every price, volume and amount of the simulated broker is what its type *)
(* says, and whatever is on the book has been quoted: place_order() turns  *)
(* a symbol without a price away.                                          *)
THEOREM Typed == Spec => []TypeInv
<1>1. Init => TypeInv
  BY SimAssumption DEF Init, TypeInv, TypeOK, Priced, OptLevels
<1>2. ASSUME TypeInv, IInv, Next PROVE TypeInv'
  <2>1. CASE Operate
    <3>1. ASSUME NEW r \in Requests, PlaceMarket(r) \/ PlacePending(r) PROVE TypeInv'
      BY <1>2, <3>1, PlaceMarketTypes, PlacePendingTypes
    <3>2. ASSUME NEW t \in Tickets, NEW c \in Changes,
                 ModifyPending(t, c) \/ ModifyPosition(t, c) PROVE TypeInv'
      BY <1>2, <3>2, ModifyPendingTypes, ModifyPositionTypes
    <3>3. ASSUME NEW t \in Tickets, NEW v \in Volumes, Close(t, v) PROVE TypeInv'
      BY <1>2, <3>3, CloseTypes
    <3>4. ASSUME NEW t \in Tickets, Cancel(t) PROVE TypeInv'
      BY <1>2, <3>4, CancelTypes
    <3> QED BY <2>1, <3>1, <3>2, <3>3, <3>4 DEF Operate
  <2>2. CASE Drive
    <3>1. ASSUME NEW s \in Symbols, NEW q \in Quotes, ReplayTick(s, q) PROVE TypeInv'
      <4>1. q.bid \in Int /\ q.ask \in Int
        BY SimAssumption
      <4> QED BY <1>2, <3>1, <4>1, ReplayTypes DEF ReplayTick
    <3>2. ASSUME NEW s \in Symbols, NEW r \in Bars, ReplayBar(s, r) PROVE TypeInv'
      <4>1. r.close \in Int
        BY SimAssumption
      <4> QED BY <1>2, <3>2, <4>1, ReplayTypes DEF ReplayBar
    <3>3. ASSUME NEW t \in Tickets, StopOut(t) \/ CloseRemaining(t) PROVE TypeInv'
      BY <1>2, <3>3, CloseTypes
    <3>4. ASSUME NEW t \in Tickets, FillPending(t) PROVE TypeInv'
      BY <1>2, <3>4, FillTypes
    <3>5. ASSUME CheckPending \/ PublishEvent \/ EndReplay \/ StopRunner \/ Report
          PROVE  TypeInv'
      BY <1>2, <3>5, PhaseTypes
    <3> QED BY <2>2, <3>1, <3>2, <3>3, <3>4, <3>5 DEF Drive
  <2>3. CASE Done
    BY <1>2, <2>3, StutterTypes DEF Done
  <2> QED BY <1>2, <2>1, <2>2, <2>3 DEF Next
<1> QED BY <1>1, <1>2, StutterTypes, Inductive, PTL DEF Spec

-----------------------------------------------------------------------------
(* The books.                                                              *)
Costs == [t \in DOMAIN positions |-> Fee(positions[t].volume)]
Results == [i \in DOMAIN trades |-> trades[i].pnl]
Part(r, t) == IF r.ticket = t THEN r.volume ELSE 0
Parts(t) == [i \in DOMAIN trades |-> Part(trades[i], t)]
OpenVolume(t) == IF t \in DOMAIN positions THEN positions[t].volume ELSE 0

Realised == realised = Total(Results, DOMAIN trades)
OpenCost == openCost = Total(Costs, DOMAIN positions)
Filled == \A t \in Tickets :
  /\ filled[t] = OpenVolume(t) + Total(Parts(t), DOMAIN trades)
  /\ t >= nextTicket \/ t \in DOMAIN pending => filled[t] = 0

Books == Ledger /\ Realised /\ OpenCost /\ Filled

(* They are what the properties say.                                       *)
LEMMA BooksAre ==
  Books => Ledger /\ BooksAgree /\ VolumeConserved
<1>1. Total(Results, DOMAIN trades) = FoldSeq(LAMBDA r, sum : r.pnl + sum, 0, trades)
  BY ZenonT(60) DEF Results, FoldSeq, FoldFunction, FoldFunctionOnSet, MapThenFoldSet, Total, IsFold,
                    AnyOf
<1>2. Total(Costs, DOMAIN positions)
        = MapThenSumSet(LAMBDA t : Fee(positions[t].volume), DOMAIN positions)
  BY DEF Costs, MapThenSumSet, MapThenFoldSet, Total, IsFold, AnyOf
<1>3. ASSUME NEW t \in Tickets
      PROVE  Total(Parts(t), DOMAIN trades) =
               FoldSeq(LAMBDA r, sum : (IF r.ticket = t THEN r.volume ELSE 0) + sum, 0, trades)
  BY ZenonT(60) DEF Parts, Part, FoldSeq, FoldFunction, FoldFunctionOnSet, MapThenFoldSet, Total, IsFold,
                    AnyOf
<1>4. Realised /\ OpenCost => BooksAgree
  <2> SUFFICES ASSUME Realised, OpenCost PROVE BooksAgree
    OBVIOUS
  <2>1. realised = FoldSeq(LAMBDA r, sum : r.pnl + sum, 0, trades)
    BY <1>1, Zenon DEF Realised
  <2>2. openCost = MapThenSumSet(LAMBDA t : Fee(positions[t].volume), DOMAIN positions)
    BY <1>2, Zenon DEF OpenCost
  <2> QED BY <2>1, <2>2 DEF BooksAgree
<1>5. Filled => VolumeConserved
  <2> SUFFICES ASSUME Filled, NEW t \in Tickets
               PROVE  filled[t] = (IF t \in DOMAIN positions THEN positions[t].volume ELSE 0)
                        + FoldSeq(LAMBDA r, sum : (IF r.ticket = t THEN r.volume ELSE 0) + sum, 0, trades)
    BY DEF VolumeConserved
  <2>1. filled[t] = OpenVolume(t) + Total(Parts(t), DOMAIN trades)
    BY DEF Filled
  <2> QED BY <1>3, <2>1, Zenon DEF OpenVolume
<1> QED BY <1>4, <1>5 DEF Books

LEMMA TicketsFinite ==
  ASSUME DOMAIN positions \subseteq Tickets
  PROVE  IsFiniteSet(DOMAIN positions)
<1>1. IsFiniteSet(Tickets)
  BY SimAssumption, FS_Interval DEF Tickets
<1> QED BY <1>1, FS_Subset

(* The terms of the sums.                                                  *)
LEMMA TermTypes ==
  ASSUME TypeInv
  PROVE  /\ \A t \in DOMAIN positions : Costs[t] = Fee(positions[t].volume) /\ Costs[t] \in Int
         /\ DOMAIN trades = 1..Len(trades) /\ Len(trades) \in Nat
         /\ \A i \in DOMAIN trades :
              /\ trades[i] \in TradeRecord
              /\ Results[i] = trades[i].pnl /\ Results[i] \in Int
              /\ \A t \in Tickets : Parts(t)[i] = Part(trades[i], t) /\ Parts(t)[i] \in Int
<1>1. DOMAIN trades = 1..Len(trades) /\ Len(trades) \in Nat
      /\ \A i \in DOMAIN trades : trades[i] \in TradeRecord
  BY DEF TypeInv, TypeOK
<1>2. ASSUME NEW t \in DOMAIN positions
      PROVE  Costs[t] = Fee(positions[t].volume) /\ Costs[t] \in Int
  <2>1. positions[t].volume \in Nat
    BY DEF TypeInv, TypeOK, Position
  <2>2. Fee(positions[t].volume) \in Int
    BY <2>1, FeeInt
  <2> QED BY <2>2 DEF Costs
<1>3. ASSUME NEW i \in DOMAIN trades
      PROVE  /\ Results[i] = trades[i].pnl /\ Results[i] \in Int
             /\ \A t \in Tickets : Parts(t)[i] = Part(trades[i], t) /\ Parts(t)[i] \in Int
  <2>1. trades[i].pnl \in Int /\ trades[i].volume \in Int
    BY <1>1 DEF TradeRecord
  <2> QED BY <2>1 DEF Results, Parts, Part
<1> QED BY <1>1, <1>2, <1>3

(* Nothing of what the books are made of changes.                          *)
LEMMA BooksKept ==
  ASSUME Books, UNCHANGED <<balance, trades, realised, openCost, filled>>,
         DOMAIN positions' = DOMAIN positions,
         \A t \in DOMAIN positions : positions'[t].volume = positions[t].volume,
         \A t \in Tickets : t >= nextTicket' \/ t \in DOMAIN pending' =>
                              t >= nextTicket \/ t \in DOMAIN pending
  PROVE  Books'
<1>1. Costs' = Costs
  BY DEF Costs, Fee
<1>2. Results' = Results
  BY DEF Results
<1>3. \A t \in Tickets : Parts(t)' = Parts(t) /\ OpenVolume(t)' = OpenVolume(t)
  BY DEF Parts, Part, OpenVolume
<1>4. Ledger' /\ Realised' /\ OpenCost'
  BY <1>1, <1>2 DEF Books, Ledger, Realised, OpenCost
<1>5. Filled'
  BY <1>3 DEF Books, Filled
<1> QED BY <1>4, <1>5 DEF Books

(* A position appears.                                                     *)
LEMMA OpenedBooks ==
  ASSUME Books, TypeInv, TypeInv', NEW t \in Tickets \ DOMAIN positions, NEW o, NEW price,
         OpenPosition(t, o, price), o.volume \in Nat \ {0},
         t >= nextTicket \/ t \in DOMAIN pending,
         \A u \in Tickets : u >= nextTicket' \/ u \in DOMAIN pending' =>
                              u # t /\ (u >= nextTicket \/ u \in DOMAIN pending)
  PROVE  Books'
<1>1. /\ DOMAIN positions' = DOMAIN positions \cup {t}
      /\ positions'[t].volume = o.volume
      /\ \A u \in DOMAIN positions : positions'[u] = positions[u]
  BY DEF OpenPosition, With
<1>2. /\ filled' = [filled EXCEPT ![t] = o.volume]
      /\ balance' = balance - Fee(o.volume) /\ openCost' = openCost + Fee(o.volume)
      /\ trades' = trades /\ realised' = realised
  BY DEF OpenPosition
<1>3. /\ balance \in Int /\ openCost \in Int /\ realised \in Int /\ filled \in [Tickets -> Nat]
      /\ Fee(o.volume) \in Int /\ InitialBalance \in Int
  BY SimAssumption, FeeInt DEF TypeInv, TypeOK
<1>4. OpenCost'
  <2> DEFINE S == DOMAIN positions
             R == DOMAIN positions'
             f == Costs
             e == Costs'
  <2>1. IsFiniteSet(S) /\ IsFiniteSet(R)
    <3>1. S \subseteq Tickets /\ R \subseteq Tickets
      BY DEF TypeInv, TypeOK
    <3>2. IsFiniteSet(Tickets)
      BY SimAssumption, FS_Interval DEF Tickets
    <3> QED BY <3>1, <3>2, FS_Subset
  <2>2. /\ \A u \in S : f[u] = Fee(positions[u].volume) /\ f[u] \in Int
    BY TermTypes
  <2>3. \A u \in R : e[u] = Fee(positions'[u].volume)
    BY DEF Costs, Fee
  <2>4. e[t] = Fee(o.volume) /\ \A u \in S : e[u] = f[u]
    BY <1>1, <2>2, <2>3
  <2>5. \A u \in R : e[u] \in Int
    BY <1>1, <1>3, <2>2, <2>4
  <2>6. S \ {t} = R \ {t} /\ t \notin S /\ t \in R
    BY <1>1
  <2>7. openCost = Total(f, S)
    BY DEF Books, OpenCost
  <2> HIDE DEF S, R, f, e
  <2>8. \E rest \in Int : Total(f, S) = rest /\ Total(e, R) = e[t] + rest
    BY <2>1, <2>2, <2>4, <2>5, <2>6, TotalsDiffer
  <2>9. openCost' = Total(e, R)
    BY <1>2, <1>3, <2>4, <2>7, <2>8
  <2> QED BY <2>9 DEF OpenCost, R, e
<1>5. Ledger'
  BY <1>2, <1>3 DEF Books, Ledger
<1>6. Realised'
  <2>1. Results' = Results
    BY <1>2 DEF Results
  <2> QED BY <1>2, <2>1 DEF Books, Realised
<1>7. Filled'
  <2> SUFFICES ASSUME NEW u \in Tickets
               PROVE  /\ filled'[u] = OpenVolume(u)' + Total(Parts(u)', DOMAIN trades')
                      /\ u >= nextTicket' \/ u \in DOMAIN pending' => filled'[u] = 0
    BY DEF Filled
  <2>1. Parts(u)' = Parts(u)
    BY <1>2 DEF Parts, Part
  <2>2. /\ filled[u] = OpenVolume(u) + Total(Parts(u), DOMAIN trades)
        /\ u >= nextTicket \/ u \in DOMAIN pending => filled[u] = 0
    BY DEF Books, Filled
  <2>3. CASE u = t
    <3>1. filled[u] = 0 /\ OpenVolume(u) = 0 /\ OpenVolume(u)' = o.volume /\ filled'[u] = o.volume
      BY <1>1, <1>2, <1>3, <2>2, <2>3 DEF OpenVolume
    <3>2. Total(Parts(u), DOMAIN trades) \in Int
      <4>1. /\ DOMAIN trades = 1..Len(trades) /\ Len(trades) \in Nat
            /\ \A i \in DOMAIN trades : Parts(u)[i] \in Int
        BY TermTypes
      <4>2. IsFiniteSet(DOMAIN trades)
        BY <4>1, FS_Interval
      <4> QED BY <4>1, <4>2, SumInt
    <3> HIDE DEF OpenVolume
    <3>3. Total(Parts(u), DOMAIN trades) = 0
      BY <2>2, <3>1, <3>2
    <3> QED BY <1>2, <2>1, <2>3, <3>1, <3>3
  <2>4. CASE u # t
    <3>1. filled'[u] = filled[u] /\ OpenVolume(u)' = OpenVolume(u)
      BY <1>1, <1>2, <1>3, <2>4 DEF OpenVolume
    <3> QED BY <1>2, <2>1, <2>2, <3>1
  <2> QED BY <2>3, <2>4
<1> QED BY <1>4, <1>5, <1>6, <1>7 DEF Books

(* A position is closed, or part of it.                                    *)
LEMMA ClosedBooks ==
  ASSUME Books, TypeInv, TypeInv', NEW t \in DOMAIN positions,
         NEW volume \in (Nat \ {0}) \cup {None}, ClosePosition(t, volume)
  PROVE  Books'
<1>1. PICK qty \in 1..positions[t].volume :
        /\ balance' = balance + GainOf(t, qty) - Fee(qty)
        /\ realised' = realised + (GainOf(t, qty) - 2 * Fee(qty))
        /\ openCost' = openCost - Fee(qty)
        /\ trades' = Append(trades, RecordOf(t, qty))
        /\ \A u \in DOMAIN positions \ {t} : positions'[u] = positions[u]
        /\ \/ qty = positions[t].volume /\ DOMAIN positions' = DOMAIN positions \ {t}
           \/ /\ qty < positions[t].volume /\ DOMAIN positions' = DOMAIN positions
              /\ positions'[t] = [positions[t] EXCEPT !.volume = positions[t].volume - qty]
        /\ UNCHANGED <<nextTicket, pending, filled>>
  BY Closing
<1> DEFINE v == positions[t].volume
<1>2. v \in Nat \ {0} /\ qty \in Nat \ {0} /\ positions[t] \in Position /\ t \in Tickets
  BY SMTT(30) DEF TypeInv, TypeOK, Position
<1>3. GainOf(t, qty) \in Int /\ Fee(qty) \in Int /\ Fee(v) \in Int /\ Fee(v - qty) = Fee(v) - Fee(qty)
  <2>1. \A q \in Nat : GainOf(t, q) \in Int
    BY ClosingTypes
  <2>2. Commission \in Int
    BY SimAssumption
  <2> QED BY <1>2, <2>1, <2>2 DEF Fee
<1>4. balance \in Int /\ realised \in Int /\ openCost \in Int /\ InitialBalance \in Int
  BY SimAssumption DEF TypeInv, TypeOK
<1> DEFINE g == GainOf(t, qty)
           c == Fee(qty)
           n == Len(trades)
<1>5. Ledger'
  <2>1. /\ balance' = balance + g - c /\ realised' = realised + (g - 2 * c)
        /\ openCost' = openCost - c /\ balance = InitialBalance + realised - openCost
    BY <1>1 DEF Books, Ledger
  <2>2. g \in Int /\ c \in Int
    BY <1>3
  <2> HIDE DEF g, c
  <2>3. balance' = InitialBalance + realised' - openCost'
    BY ONLY <1>4, <2>1, <2>2
  <2> QED BY <2>3 DEF Ledger
<1>6. /\ n \in Nat /\ DOMAIN trades = 1..n /\ DOMAIN trades' = 1..(n + 1)
      /\ trades'[n + 1] = RecordOf(t, qty)
      /\ \A i \in 1..n : trades'[i] = trades[i]
  BY <1>1, TermTypes
<1>7. Realised'
  <2>1. \A i \in 1..n : Results[i] \in Int /\ Results[i] = Results'[i]
    BY <1>6, TermTypes DEF Results
  <2>2. Results'[n + 1] = g - 2 * c /\ g - 2 * c \in Int
    BY <1>3, <1>6 DEF Results, RecordOf
  <2> HIDE DEF n, g, c
  <2>3. Total(Results', 1..(n + 1)) = Total(Results, 1..n) + Results'[n + 1]
    BY <1>6, <2>1, <2>2, TotalAppended
  <2>4. realised = Total(Results, 1..n) /\ realised' = realised + (g - 2 * c)
    BY <1>1, <1>6 DEF Books, Realised, g, c
  <2> QED BY <1>6, <2>2, <2>3, <2>4 DEF Realised
<1>8. OpenCost'
  <2> DEFINE S == DOMAIN positions
             R == DOMAIN positions'
             f == Costs
             e == Costs'
  <2>1. IsFiniteSet(S) /\ IsFiniteSet(R)
    <3>1. S \subseteq Tickets /\ R \subseteq S
      BY <1>1 DEF TypeInv, TypeOK
    <3> QED BY <3>1, TicketsFinite, FS_Subset
  <2>2. \A u \in S : f[u] = Fee(positions[u].volume) /\ f[u] \in Int
    BY TermTypes
  <2>3. \A u \in R : e[u] = Fee(positions'[u].volume)
    BY DEF Costs, Fee
  <2>4. /\ S \ {t} = R \ {t} /\ t \in S
        /\ \A u \in S \ {t} : e[u] = f[u]
        /\ f[t] = Fee(v)
        /\ t \notin R => c = Fee(v)
        /\ t \in R => e[t] = Fee(v) - c
    <3>1. t \in S
      BY <1>1
    <3>2. S \ {t} = R \ {t} /\ \A u \in S \ {t} : positions'[u] = positions[u]
      BY <1>1
    <3>3. \A u \in S \ {t} : e[u] = f[u]
      BY <2>2, <2>3, <3>2
    <3>4. f[t] = Fee(v)
      BY <2>2, <3>1
    <3>5. (t \notin R => c = Fee(v)) /\ (t \in R => e[t] = Fee(v) - c)
      BY <1>1, <1>2, <1>3, <2>3 DEF Position
    <3> QED BY <3>1, <3>2, <3>3, <3>4, <3>5
  <2>5. \A u \in R : e[u] \in Int
    <3> SUFFICES ASSUME NEW u \in R PROVE e[u] \in Int
      OBVIOUS
    <3>1. CASE u = t
      BY <1>3, <2>4, <3>1
    <3>2. CASE u # t
      BY <2>2, <2>4, <3>2
    <3> QED BY <3>1, <3>2
  <2>6. openCost = Total(f, S) /\ openCost' = openCost - c
    BY <1>1 DEF Books, OpenCost
  <2>7. c \in Int /\ Fee(v) \in Int
    BY <1>3
  <2> HIDE DEF S, R, f, e, c, v
  <2>8. PICK rest \in Int : /\ Total(f, S) = f[t] + rest
                            /\ t \in R => Total(e, R) = e[t] + rest
                            /\ t \notin R => Total(e, R) = rest
    BY <2>1, <2>2, <2>4, <2>5, TotalsDiffer
  <2>9. openCost' = Total(e, R)
    <3>1. CASE t \in R
      BY <2>4, <2>6, <2>7, <2>8, <3>1
    <3>2. CASE t \notin R
      BY <2>4, <2>6, <2>7, <2>8, <3>2
    <3> QED BY <3>1, <3>2
  <2> QED BY <2>9 DEF OpenCost, R, e
<1>9. Filled'
  <2> SUFFICES ASSUME NEW u \in Tickets
               PROVE  /\ filled'[u] = OpenVolume(u)' + Total(Parts(u)', DOMAIN trades')
                      /\ u >= nextTicket' \/ u \in DOMAIN pending' => filled'[u] = 0
    BY DEF Filled
  <2>1. /\ filled[u] = OpenVolume(u) + Total(Parts(u), DOMAIN trades)
        /\ u >= nextTicket \/ u \in DOMAIN pending => filled[u] = 0
        /\ filled' = filled /\ nextTicket' = nextTicket /\ pending' = pending
    BY <1>1 DEF Books, Filled
  <2> DEFINE f == Parts(u)
             e == Parts(u)'
             part == IF u = t THEN qty ELSE 0
  <2>2. \A i \in 1..n : f[i] \in Int /\ f[i] = e[i]
    <3>1. \A i \in 1..n : f[i] = Part(trades[i], u) /\ f[i] \in Int
      BY <1>6, TermTypes
    <3>2. \A i \in 1..n : e[i] = Part(trades'[i], u)
      BY <1>6 DEF Parts, Part
    <3> QED BY <1>6, <3>1, <3>2
  <2>3. e[n + 1] = part /\ part \in Int
    BY <1>2, <1>6 DEF Parts, Part, RecordOf
  <2>4. OpenVolume(u)' = OpenVolume(u) - part /\ OpenVolume(u) \in Int
    <3>1. CASE u = t
      BY <1>1, <1>2, <3>1 DEF OpenVolume, Position
    <3>2. CASE u # t
      <4>1. OpenVolume(u)' = OpenVolume(u)
        BY <1>1, <3>2 DEF OpenVolume
      <4>2. OpenVolume(u) \in Int
        BY DEF OpenVolume, TypeInv, TypeOK, Position
      <4> QED BY <3>2, <4>1, <4>2
    <3> QED BY <3>1, <3>2
  <2> HIDE DEF n, f, e, part
  <2>5. Total(e, 1..(n + 1)) = Total(f, 1..n) + e[n + 1] /\ Total(f, 1..n) \in Int
    BY <1>6, <2>2, <2>3, TotalAppended
  <2>6. filled[u] = OpenVolume(u) + Total(f, 1..n)
    BY <1>6, <2>1 DEF f
  <2>7. filled'[u] = OpenVolume(u)' + Total(e, 1..(n + 1))
    BY <2>1, <2>3, <2>4, <2>5, <2>6
  <2> QED BY <1>6, <2>1, <2>7 DEF e
<1> QED BY <1>5, <1>7, <1>8, <1>9 DEF Books

(* The books are kept.                                                     *)
LEMMA InitBooks ==
  ASSUME Init
  PROVE  Books
<1>1. /\ positions = <<>> /\ trades = <<>> /\ DOMAIN positions = {} /\ DOMAIN trades = {}
      /\ filled = [t \in Tickets |-> 0] /\ realised = 0 /\ openCost = 0 /\ balance = InitialBalance
  BY DEF Init
<1>2. \A f : Total(f, {}) = 0
  BY SumEmpty
<1>3. Ledger
  BY <1>1, SimAssumption DEF Ledger
<1> QED BY <1>1, <1>2, <1>3 DEF Books, Realised, OpenCost, Filled, OpenVolume

LEMMA OperateBooks ==
  ASSUME Books, IInv, TypeInv, TypeInv', Operate
  PROVE  Books'
<1>1. ASSUME NEW r \in Requests, PlaceMarket(r) PROVE Books'
  <2>1. /\ nextTicket \in Tickets /\ nextTicket' = nextTicket + 1 /\ pending' = pending
        /\ nextTicket \notin DOMAIN positions /\ nextTicket \notin DOMAIN pending
        /\ r.volume \in Nat \ {0}
    BY <1>1, SimAssumption DEF PlaceMarket, IInv, BookInv, Tickets
  <2>2. \A u \in Tickets : u >= nextTicket' \/ u \in DOMAIN pending' =>
                             u # nextTicket /\ (u >= nextTicket \/ u \in DOMAIN pending)
    BY <2>1 DEF Tickets
  <2>3. OpenPosition(nextTicket, r, Slipped(r.side, bid[r.symbol], ask[r.symbol]))
    BY <1>1 DEF PlaceMarket
  <2>4. nextTicket >= nextTicket
    BY <2>1 DEF Tickets
  <2> QED BY <2>1, <2>2, <2>3, <2>4, OpenedBooks
<1>2. ASSUME NEW r \in Requests, PlacePending(r) PROVE Books'
  <2>1. /\ UNCHANGED <<balance, trades, realised, openCost, filled, positions>>
        /\ nextTicket \in Tickets /\ nextTicket' = nextTicket + 1
        /\ pending' = With(pending, nextTicket, r)
    BY <1>2, SimAssumption DEF PlacePending, IInv, BookInv, Tickets, money
  <2>2. \A t \in Tickets : t >= nextTicket' \/ t \in DOMAIN pending' =>
                             t >= nextTicket \/ t \in DOMAIN pending
    BY <2>1 DEF Tickets, With
  <2> QED BY <2>1, <2>2, BooksKept
<1>3. ASSUME NEW t \in Tickets, NEW c \in Changes, ModifyPending(t, c) PROVE Books'
  BY <1>3, ModifiedPending, BooksKept DEF IInv, ModifyPending, money
<1>4. ASSUME NEW t \in Tickets, NEW c \in Changes, ModifyPosition(t, c) PROVE Books'
  <2>1. /\ UNCHANGED <<balance, trades, realised, openCost, filled, nextTicket, pending>>
        /\ DOMAIN positions' = DOMAIN positions
        /\ \A u \in DOMAIN positions : positions'[u].volume = positions[u].volume
    BY <1>4, ModifiedPosition DEF IInv, ModifyPosition, money
  <2> QED BY <2>1, BooksKept
<1>5. ASSUME NEW t \in Tickets, NEW v \in Volumes, Close(t, v) PROVE Books'
  <2>1. v \in (Nat \ {0}) \cup {None} /\ t \in DOMAIN positions /\ ClosePosition(t, v)
    BY <1>5, SimAssumption DEF Close
  <2> QED BY <2>1, ClosedBooks
<1>6. ASSUME NEW t \in Tickets, Cancel(t) PROVE Books'
  BY <1>6, BooksKept DEF Cancel, Without, money
<1> QED BY <1>1, <1>2, <1>3, <1>4, <1>5, <1>6 DEF Operate

LEMMA DriveBooks ==
  ASSUME Books, IInv, TypeInv, TypeInv', Drive
  PROVE  Books'
<1>1. ASSUME NEW s, NEW e, NEW b, NEW a, Replay(s, e, b, a) PROVE Books'
  BY <1>1, BooksKept DEF Replay, money
<1>2. ASSUME NEW t \in Tickets, StopOut(t) \/ CloseRemaining(t) PROVE Books'
  <2>1. t \in DOMAIN positions /\ ClosePosition(t, None)
    BY <1>2, LoopClosed
  <2> QED BY <2>1, ClosedBooks
<1>3. ASSUME NEW t \in Tickets, FillPending(t) PROVE Books'
  <2>1. /\ t \in DOMAIN pending /\ t \notin DOMAIN positions /\ pending[t].volume \in Nat \ {0}
        /\ nextTicket' = nextTicket /\ pending' = Without(pending, t) /\ t < nextTicket
        /\ nextTicket \in Nat
    BY <1>3 DEF FillPending, IInv, LoopInv, BookInv, Order
  <2>2. \A u \in Tickets : u >= nextTicket' \/ u \in DOMAIN pending' =>
                             u # t /\ (u >= nextTicket \/ u \in DOMAIN pending)
    BY <2>1 DEF Without, Tickets
  <2>3. OpenPosition(t, pending[t], FillPrice(pending[t]))
    BY <1>3 DEF FillPending
  <2> QED BY <2>1, <2>2, <2>3, OpenedBooks
<1>4. ASSUME CheckPending \/ PublishEvent \/ EndReplay \/ StopRunner \/ Report PROVE Books'
  <2>1. UNCHANGED <<balance, trades, realised, openCost, filled, nextTicket, positions, pending>>
    BY <1>4 DEF CheckPending, PublishEvent, EndReplay, StopRunner, Report, money
  <2> QED BY <2>1, BooksKept
<1> QED BY <1>1, <1>2, <1>3, <1>4 DEF Drive, ReplayTick, ReplayBar

LEMMA BooksStep ==
  ASSUME Books, IInv, TypeInv, TypeInv', [Next]_vars
  PROVE  Books'
<1>1. CASE UNCHANGED vars
  BY <1>1, BooksKept DEF vars
<1> QED BY <1>1, OperateBooks, DriveBooks DEF Next, Done

(* The money adds up for every sequence of fills, partial closes and       *)
(* swaps: the balance, the trade records, the commission of what is open,  *)
(* the volume of every ticket and the nights it was held agree             *)
(* (_promote_pending(), close_position(), _rollover_count() of             *)
(* replay_broker.py).                                                      *)
THEOREM MoneyAddsUp == Spec => []BooksBalance
<1>1. Init => Books
  BY InitBooks
<1>2. Books /\ IInv /\ TypeInv /\ TypeInv' /\ [Next]_vars => Books'
  BY BooksStep
<1>3. Books /\ TypeInv => BooksBalance
  <2> SUFFICES ASSUME Books, TypeInv PROVE BooksBalance
    OBVIOUS
  <2>1. simTime \in Nat /\ simTime - 3 * HoursPerDay \in Int
    <3>1. simTime \in Nat
      BY DEF TypeInv, TypeOK
    <3>2. HoursPerDay \in Nat
      BY SimAssumption
    <3> QED BY <3>1, <3>2
  <2>2. RolloversCounted
    <3> SUFFICES ASSUME NEW opened \in (simTime - 3 * HoursPerDay)..simTime
                 PROVE  Rollovers(opened, simTime) = Cardinality(Hours(opened, simTime))
      BY DEF RolloversCounted, Hours
    <3>1. opened \in Int /\ simTime \in Int /\ opened <= simTime
      BY <2>1
    <3> QED BY <3>1, RolloversCount, Zenon
  <2> QED BY <2>2, BooksAre DEF BooksBalance, TypeInv
<1> QED BY <1>1, <1>2, <1>3, Inductive, Typed, PTL DEF Spec

-----------------------------------------------------------------------------
(* The replay is fair.                                                     *)

(* The orders that are still to fill were triggered by what is shown, and  *)
(* the positions that are still open at the end are still to be closed.    *)
PassInv ==
  /\ phase = "fills" => \A t \in todo : t \in DOMAIN pending /\ Triggered(pending[t])
  /\ phase = "closing" => DOMAIN positions \subseteq todo

LEMMA PassKept ==
  ASSUME PassInv, IInv, Next
  PROVE  PassInv'
<1>1. CASE Operate
  <2> DEFINE Waits == phase' = phase /\ phase \in {"sleeping", "ending"}
  <2>1. Operable /\ CountOp => Waits
    BY DEF Operable, CountOp
  <2> HIDE DEF Waits
  <2>2. ASSUME NEW r \in Requests, PlaceMarket(r) \/ PlacePending(r) PROVE Waits
    BY <2>1, <2>2, Zenon DEF PlaceMarket, PlacePending
  <2>3. ASSUME NEW t \in Tickets, NEW c \in Changes, ModifyPending(t, c) \/ ModifyPosition(t, c)
        PROVE  Waits
    BY <2>1, <2>3, Zenon DEF ModifyPending, ModifyPosition
  <2>4. ASSUME NEW t \in Tickets, NEW v \in Volumes, Close(t, v) PROVE Waits
    BY <2>1, <2>4, Zenon DEF Close
  <2>5. ASSUME NEW t \in Tickets, Cancel(t) PROVE Waits
    BY <2>1, <2>5, Zenon DEF Cancel
  <2>6. Waits
    BY <1>1, <2>2, <2>3, <2>4, <2>5, Zenon DEF Operate
  <2> QED BY <2>6 DEF PassInv, Waits
<1>2. ASSUME NEW t \in Tickets, StopOut(t) PROVE PassInv'
  BY <1>2 DEF StopOut, PassInv
<1>3. ASSUME NEW t \in Tickets, CloseRemaining(t) PROVE PassInv'
  <2>1. DOMAIN positions' = DOMAIN positions \ {t} /\ todo' = todo \ {t}
        /\ phase = "closing" /\ phase' = "closing"
    BY <1>3, LoopClosed DEF CloseRemaining
  <2> QED BY <2>1 DEF PassInv
<1>4. ASSUME NEW t \in Tickets, FillPending(t) PROVE PassInv'
  <2>1. /\ phase = "fills" /\ phase' = "fills" /\ todo' = todo \ {t}
        /\ pending' = Without(pending, t)
        /\ UNCHANGED <<granularity, bid, ask, now>>
    BY <1>4 DEF FillPending, config, market
  <2>2. ASSUME NEW u \in todo' PROVE u \in DOMAIN pending' /\ Triggered(pending[u])
    BY <2>1 DEF PassInv, Without
  <2>3. ASSUME NEW u \in todo' PROVE pending'[u] = pending[u]
    BY <2>1, <2>2 DEF Without
  <2>4. ASSUME NEW u \in todo' PROVE Triggered(pending[u])'
    BY <2>1, <2>2, <2>3 DEF Triggered, Quote
  <2> QED BY <2>1, <2>2, <2>4 DEF PassInv
<1>5. CASE CheckPending
  <2>1. /\ phase' = "fills" /\ todo' = {t \in DOMAIN pending : Triggered(pending[t])}
        /\ UNCHANGED <<pending, granularity, bid, ask, now>>
    BY <1>5 DEF CheckPending, config, market
  <2> QED BY <2>1 DEF PassInv, Triggered, Quote
<1>6. CASE EndReplay
  BY <1>6 DEF EndReplay, PassInv
<1>7. CASE PublishEvent \/ StopRunner \/ Report
  BY <1>7 DEF PublishEvent, StopRunner, Report, PassInv
<1>8. ASSUME NEW s, NEW e, NEW b, NEW a, Replay(s, e, b, a) PROVE PassInv'
  BY <1>8 DEF Replay, PassInv
<1>9. CASE Done
  BY <1>9 DEF Done, vars, PassInv, Triggered, Quote
<1> QED BY <1>1, <1>2, <1>3, <1>4, <1>5, <1>6, <1>7, <1>8, <1>9 DEF Next, Drive, ReplayTick, ReplayBar

LEMMA PassStutters ==
  ASSUME PassInv, UNCHANGED vars
  PROVE  PassInv'
BY DEF vars, PassInv, Triggered, Quote

(* A limit order is filled at its price, which the market has reached.     *)
LEMMA LimitReached ==
  ASSUME IInv, TypeInv, PassInv, NEW t \in Tickets, granularity = "tick", FillPending(t),
         pending[t].type = "limit"
  PROVE  Sign(pending[t].side) * (positions'[t].price - Quote(pending[t])) >= 0
<1> DEFINE o == pending[t]
<1>1. o \in Order /\ Triggered(o) /\ bid[o.symbol] # None
  BY DEF FillPending, PassInv, TypeInv, TypeOK, Priced
<1>2. positions'[t].price = o.price
  BY DEF FillPending, OpenPosition, FillPrice, With
<1>3. /\ o.symbol \in Symbols /\ o.side \in Sides /\ o.price \in Int
      /\ bid[o.symbol] \in Int /\ ask[o.symbol] \in Int
  BY <1>1, Quoted DEF Order
<1>4. Quote(o) \in Int
  BY <1>3 DEF Quote
<1>5. CASE o.side = "buy"
  <2>1. Quote(o) <= o.price
    BY <1>1, <1>5 DEF Triggered
  <2>2. Sign(o.side) = 1
    BY <1>5 DEF Sign
  <2> HIDE DEF o
  <2>3. Sign(o.side) * (positions'[t].price - Quote(o)) >= 0
    BY <1>2, <1>3, <1>4, <2>1, <2>2
  <2> QED BY <2>3 DEF o
<1>6. CASE o.side = "sell"
  <2>1. Quote(o) >= o.price
    BY <1>1, <1>6 DEF Triggered
  <2>2. Sign(o.side) = -1
    BY <1>6 DEF Sign
  <2> HIDE DEF o
  <2>3. Sign(o.side) * (positions'[t].price - Quote(o)) >= 0
    BY <1>2, <1>3, <1>4, <2>1, <2>2
  <2> QED BY <2>3 DEF o
<1> QED BY <1>3, <1>5, <1>6 DEF Sides

(* The book is flat when the strategy is stopped.                          *)
LEMMA FlatBook ==
  ASSUME IInv, TypeInv, PassInv, Books, StopRunner
  PROVE  positions = <<>> /\ balance = InitialBalance + realised
<1>1. DOMAIN positions = {}
  BY DEF StopRunner, PassInv
<1>2. positions = <<>>
  BY <1>1
<1>3. openCost = 0
  BY <1>1, SumEmpty DEF Books, OpenCost
<1> QED BY <1>2, <1>3, SimAssumption DEF Books, Ledger, TypeInv, TypeOK

(* Every replay is fair: no stop is passed over (check_sl_tp()), a limit   *)
(* order pays no more than it asked for (check_pending()), and the book is *)
(* flat when the strategy is stopped (FileBacktester.run()).               *)
THEOREM ReplayFair == Spec => FairReplay
<1>1. Init => PassInv
  BY DEF Init, PassInv
<1>2. PassInv /\ IInv /\ [Next]_vars => PassInv'
  BY PassKept, PassStutters
<1>3. Spec => [](IInv /\ TypeInv /\ PassInv /\ Books)
  <2>1. Init => Books
    BY InitBooks
  <2>2. Books /\ IInv /\ TypeInv /\ TypeInv' /\ [Next]_vars => Books'
    BY BooksStep
  <2> QED BY <1>1, <1>2, <2>1, <2>2, Inductive, Typed, PTL DEF Spec
<1>4. IInv /\ TypeInv /\ PassInv /\ Books =>
        [\A t \in Tickets : /\ granularity = "tick"
                            /\ FillPending(t)
                            /\ pending[t].type = "limit"
           => Sign(pending[t].side) * (positions'[t].price - Quote(pending[t])) >= 0]_vars
  BY LimitReached
<1>5. IInv /\ TypeInv /\ PassInv /\ Books =>
        [StopRunner => positions = <<>> /\ balance = InitialBalance + realised]_vars
  BY FlatBook
<1> QED BY <1>3, <1>4, <1>5, NoStopPassed, PTL DEF FairReplay, LimitIsMarketable, FlatAtTheEnd
=============================================================================
