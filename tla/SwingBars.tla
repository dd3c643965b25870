------------------------------ MODULE SwingBars ------------------------------
(***************************************************************************)
(* strategies/aggregation.py: completed H1 bars folded into H4 bars and    *)
(* into the daily bars of a market that closes over the weekend.           *)
(*                                                                         *)
(* A time is the number of an hour; hour 0 is a Monday's 00:00 UTC.  A bar *)
(* is the hour it opens at: a folded bar is the set of the hours in it, of *)
(* which open, high, low, close and volume are functions.                  *)
(***************************************************************************)
EXTENDS Integers, FiniteSets, FiniteSetsExt

CONSTANTS
  Markets,     \* [anchor, always, open, close, breaks]: the aggregators and calendars
  FirstHour,   \* bound: the hours of a behaviour
  LastHour,
  MaxMissing   \* bound: open hours without a bar

ASSUME SwingAssumption ==
  /\ \A m \in Markets : /\ {m.anchor, m.open, m.close} \subseteq 0..23
                        /\ m.breaks \subseteq 0..23 /\ m.always \in BOOLEAN
  /\ {FirstHour, LastHour, MaxMissing} \subseteq Nat

VARIABLES
  mkt,         \* the anchor hour and the calendar
  clock,       \* the hour whose bar comes next
  lastFed,     \* _last_time
  hours,       \* hours[tf]: the bars of the bucket in progress
  formed,      \* the folded bar the last feed() returned: tf -> hours, or none
  missing      \* bound: bars that did not come

swingVars == <<mkt, clock, lastFed, hours, formed, missing>>

Frames == {"H4", "D1"}

SwingInit ==
  /\ mkt \in Markets
  /\ clock = FirstHour /\ lastFed = FirstHour - 1
  /\ hours = [tf \in Frames |-> {}] /\ formed = [tf \in Frames |-> {}]
  /\ missing = 0

SwingTypeOK ==
  /\ clock \in FirstHour..(LastHour + 1) /\ lastFed < clock
  /\ \A tf \in Frames : hours[tf] \subseteq FirstHour..lastFed /\ formed[tf] \subseteq FirstHour..lastFed
  /\ missing \in 0..MaxMissing
-----------------------------------------------------------------------------
HourOf(t) == t % 24
Weekday(t) == (t \div 24) % 7
Friday == 4
Saturday == 5
Sunday == 6

(* is_open() of the Forex week's calendar and of the one always open.      *)
IsOpen(t) ==
  \/ mkt.always
  \/ /\ HourOf(t) \notin mkt.breaks
     /\ Weekday(t) # Saturday
     /\ Weekday(t) = Sunday => HourOf(t) >= mkt.open
     /\ Weekday(t) = Friday => HourOf(t) < mkt.close

(* week_open_before(): the last Sunday's opening, or long ago.             *)
WeekOpenBefore(t) ==
  LET candidate == t - HourOf(t) - 24 * ((Weekday(t) - Sunday) % 7) + mkt.open
  IN  IF mkt.always THEN t - HourOf(t) - 24 * 400
      ELSE IF candidate > t THEN candidate - 24 * 7 ELSE candidate

AnchoredDayStart(t) ==
  LET d == t - HourOf(t) + mkt.anchor
  IN  IF t < d THEN d - 24 ELSE d

H4Key(t) ==
  LET a == AnchoredDayStart(t)
  IN  a + 4 * ((t - a) \div 4)

D1Key(t) ==
  LET b == AnchoredDayStart(t)
      weekOpen == WeekOpenBefore(t)
      nb == AnchoredDayStart(weekOpen)
  IN  IF b >= weekOpen THEN b ELSE IF nb < weekOpen THEN nb + 24 ELSE nb

BucketKey(tf, t) == IF tf = "H4" THEN H4Key(t) ELSE D1Key(t)

(* (mutant) The hours before the key are not looked for.                   *)
ExpectedOpenSlotsAfter(tf, key) ==
  {t \in key..(key + (IF tf = "H4" THEN 4 ELSE 26) - 1) : IsOpen(t) /\ BucketKey(tf, t) = key}

(* _expected_open_slots(), with the spans of the two aggregators.          *)
ExpectedOpenSlots(tf, key) ==
  LET before == IF tf = "H4" THEN 0 ELSE 26
      after == IF tf = "H4" THEN 4 ELSE 26
  IN  {t \in (key - before)..(key + after - 1) : IsOpen(t) /\ BucketKey(tf, t) = key}

(* _Bucketer._finalize(): a bucket with a missing hour is dropped.         *)
Finalized(tf) ==
  LET expected == ExpectedOpenSlots(tf, BucketKey(tf, Max(hours[tf])))
  IN  IF expected # {} /\ expected \subseteq hours[tf] THEN hours[tf] ELSE {}

(* _Bucketer.feed(): a bar of another bucket ends the one in progress.     *)
Rolls(tf, t) == hours[tf] # {} /\ BucketKey(tf, t) # BucketKey(tf, Max(hours[tf]))

(* MultiTimeframeAggregator.feed() of the bar of an open hour, ...         *)
FeedNext ==
  /\ clock <= LastHour /\ IsOpen(clock)
  /\ hours' = [tf \in Frames |-> IF Rolls(tf, clock) THEN {clock} ELSE hours[tf] \cup {clock}]
  /\ formed' = [tf \in Frames |-> IF Rolls(tf, clock) THEN Finalized(tf) ELSE {}]
  /\ lastFed' = clock /\ clock' = clock + 1
  /\ UNCHANGED <<mkt, missing>>

(* ... of an hour fed before, which is ignored, ...                        *)
FeedAgain ==
  /\ lastFed >= FirstHour /\ formed # [tf \in Frames |-> {}]
  /\ formed' = [tf \in Frames |-> {}]
  /\ UNCHANGED <<mkt, clock, lastFed, hours, missing>>

(* ... or never: the market is closed, or the bar is lost.                 *)
NoBar ==
  /\ clock <= LastHour
  /\ \/ ~IsOpen(clock) /\ UNCHANGED missing
     \/ IsOpen(clock) /\ missing < MaxMissing /\ missing' = missing + 1
  /\ clock' = clock + 1
  /\ formed' = [tf \in Frames |-> {}]
  /\ UNCHANGED <<mkt, lastFed, hours>>

SwingNext == FeedNext \/ FeedAgain \/ NoBar
-----------------------------------------------------------------------------
(* The hours of a trading day, however far from its key they are.          *)
Members(tf, key) == {t \in (key - 80)..(key + 80) : IsOpen(t) /\ BucketKey(tf, t) = key}

(* A folded bar has every open hour of its bucket, whatever the anchor, no *)
(* matter the weekend and the daily break between its hours, and nothing   *)
(* else; the bucket is over when the bar is out; no daily bar is made of   *)
(* two weeks or, unless the market opens at midnight, of Sunday alone.    *)
SwingFaithful ==
  \A tf \in Frames : formed[tf] # {} =>
    LET key == BucketKey(tf, Max(formed[tf]))
    IN  /\ formed[tf] = Members(tf, key)
        /\ \A t \in Members(tf, key) : t < lastFed
        /\ tf = "D1" /\ ~mkt.always =>
                        /\ mkt.open > 0 => \E t \in formed[tf] : Weekday(t) # Sunday
                        /\ Cardinality({WeekOpenBefore(t) : t \in formed[tf]}) = 1

(* Nothing complete is lost: when a bucket whose hours all came is over,   *)
(* its bar is returned.                                                    *)
CompleteIsFormed(tf) ==
  hours[tf] # {} /\ hours'[tf] # hours[tf] /\ ~(hours[tf] \subseteq hours'[tf]) =>
    (Members(tf, BucketKey(tf, Max(hours[tf]))) \subseteq hours[tf]) = (formed'[tf] # {})

NothingLost == [][\A tf \in Frames : CompleteIsFormed(tf)]_swingVars

(* Both, with the types: what live and backtest feed is folded faithfully. *)
SwingSound == [](SwingTypeOK /\ SwingFaithful) /\ NothingLost
=============================================================================
