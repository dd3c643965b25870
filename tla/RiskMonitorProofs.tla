-------------------------- MODULE RiskMonitorProofs --------------------------
(***************************************************************************)
(* Proofs about RiskMonitor, for every broker pool, market, configuration  *)
(* and number of restarts: the drawdown is measured from the true peak and *)
(* trips the kill switch, and a tripped flag survives restarts, in every   *)
(* history where no start handles a snapshot before rehydrate(); the day's *)
(* loss is that of its closes, and trips the loss limit. Failures of the   *)
(* database are allowed at every use; what each takes away is stated.      *)
(***************************************************************************)
EXTENDS RiskMonitor, SequenceTheorems, TLAPS

Snapshots == [equity : Nat, balance : Int]
Rows == [peak : Amount, tripped : BOOLEAN, locked : BOOLEAN]

-----------------------------------------------------------------------------
(* The functions on the monitor's fields.                                  *)

LEMMA SeenIs ==
  ASSUME NEW m \in Memory, NEW s \in Snapshots, day \in 1..MaxDays
  PROVE  /\ Seen(m, s) \in Memory
         /\ Seen(m, s).equity = s.equity
         /\ Seen(m, s).peak = IF Above(s.equity, m.peak) THEN s.equity ELSE m.peak
         /\ Seen(m, s).tripped = m.tripped /\ Seen(m, s).locked = m.locked
<1> USE RiskAssumption DEF Memory, Snapshots, Amount
<1> DEFINE peak == IF Above(s.equity, m.peak) THEN s.equity ELSE m.peak
           anchor == IF m.anchor = None THEN day ELSE m.anchor
           opening == IF m.anchor = None THEN s.balance
                      ELSE IF m.needsOpening THEN s.balance - m.pnl ELSE m.opening
           needs == m.needsOpening /\ m.anchor = None
           lockOpen == IF LockOn /\ m.lockOpen = None THEN s.equity ELSE m.lockOpen
           lockHigh == IF LockOn /\ Above(s.equity, m.lockHigh) THEN s.equity ELSE m.lockHigh
<1>1. /\ peak \in Amount /\ anchor \in 1..MaxDays \cup {None} /\ opening \in Int
      /\ lockOpen \in Amount /\ lockHigh \in Amount
  OBVIOUS
<1>2. needs \in BOOLEAN
  OBVIOUS
<1>3. Seen(m, s) = [m EXCEPT !.equity = s.equity, !.balance = s.balance, !.peak = peak,
                             !.anchor = anchor, !.opening = opening, !.needsOpening = needs,
                             !.lockOpen = lockOpen, !.lockHigh = lockHigh]
  BY DEF Seen
<1> HIDE DEF peak, anchor, opening, needs, lockOpen, lockHigh
<1> DEFINE half == [m EXCEPT !.equity = s.equity, !.balance = s.balance, !.peak = peak,
                             !.anchor = anchor]
<1>0. /\ m \in Memory /\ s.equity \in Nat /\ s.balance \in Int
      /\ s.equity \in Amount /\ s.balance \in Int \cup {None}
  OBVIOUS
<1>4. half \in Memory
  BY ONLY <1>0, <1>1 DEF Memory
<1>5. /\ half.equity = s.equity /\ half.peak = peak
      /\ half.tripped = m.tripped /\ half.locked = m.locked
  BY ONLY <1>0 DEF Memory
<1>6. Seen(m, s) = [half EXCEPT !.opening = opening, !.needsOpening = needs,
                                !.lockOpen = lockOpen, !.lockHigh = lockHigh]
  BY <1>3
<1> HIDE DEF half
<1>7. Seen(m, s) \in Memory
  BY ONLY <1>1, <1>2, <1>4, <1>6, ZenonT(60) DEF Memory
<1>8. Seen(m, s).equity = half.equity /\ Seen(m, s).peak = half.peak
  BY ONLY <1>4, <1>6 DEF Memory
<1>9. Seen(m, s).tripped = half.tripped /\ Seen(m, s).locked = half.locked
  BY ONLY <1>4, <1>6 DEF Memory
<1> QED BY <1>4, <1>5, <1>7, <1>8, <1>9, Zenon DEF peak

LEMMA SnapshotIs ==
  ASSUME NEW m \in Memory, NEW s \in Snapshots, day \in 1..MaxDays
  PROVE  LET n == Snapshot(m, s) IN
         /\ n \in Memory
         /\ n.equity = s.equity
         /\ n.peak = IF Above(s.equity, m.peak) THEN s.equity ELSE m.peak
         /\ m.tripped => n.tripped
         /\ m.locked => n.locked
         /\ KillPct > 0 /\ FallenBy(KillPct, n.peak, n.equity) => n.tripped
<1> DEFINE n == Seen(m, s)
           fell == KillPct > 0 /\ FallenBy(KillPct, n.peak, s.equity)
           gave == LockOn /\ GivesBack(n, s.equity)
<1>1. n \in Memory /\ n.equity = s.equity /\ n.tripped = m.tripped /\ n.locked = m.locked
  BY SeenIs
<1>2. n.peak = IF Above(s.equity, m.peak) THEN s.equity ELSE m.peak
  BY SeenIs
<1>3. Snapshot(m, s) = [n EXCEPT !.tripped = n.tripped \/ fell, !.locked = n.locked \/ gave]
  BY DEF Snapshot
<1>4. (n.tripped \/ fell) \in BOOLEAN /\ (n.locked \/ gave) \in BOOLEAN
  OBVIOUS
<1> HIDE DEF n, gave
<1>5. /\ Snapshot(m, s) \in Memory
      /\ Snapshot(m, s).equity = n.equity /\ Snapshot(m, s).peak = n.peak
      /\ Snapshot(m, s).tripped = (n.tripped \/ fell)
      /\ Snapshot(m, s).locked = (n.locked \/ gave)
  <2> HIDE DEF fell
  <2> QED BY <1>1, <1>3, <1>4 DEF Memory
<1> QED BY <1>1, <1>2, <1>5

LEMMA RollIs ==
  ASSUME NEW m \in Memory, day \in 1..MaxDays
  PROVE  /\ Roll(m) \in Memory
         /\ Roll(m).equity = m.equity /\ Row(Roll(m)) = Row(m)
<1>1. CASE m.anchor = day
  BY <1>1 DEF Roll
<1>2. CASE m.anchor # day
  <2> DEFINE opening == IF m.balance # None THEN m.balance ELSE m.opening
             anchor == day
             pnl == 0
  <2>1. opening \in Int /\ pnl \in Int /\ anchor \in 1..MaxDays \cup {None}
    BY RiskAssumption DEF Memory
  <2>2. Roll(m) = [m EXCEPT !.anchor = anchor, !.pnl = pnl, !.opening = opening]
    BY <1>2 DEF Roll
  <2> HIDE DEF opening, anchor, pnl
  <2>3. /\ Roll(m) \in Memory
        /\ Roll(m).equity = m.equity /\ Roll(m).peak = m.peak
        /\ Roll(m).tripped = m.tripped /\ Roll(m).locked = m.locked
    BY <2>1, <2>2 DEF Memory
  <2> QED BY <2>3 DEF Row
<1> QED BY <1>1, <1>2

LEMMA RehydratedIs ==
  ASSUME NEW m \in Memory, day \in 1..MaxDays, log \in [1..MaxDays -> Int], stored \in Rows
  PROVE  /\ Rehydrated(m) \in Memory
         /\ Rehydrated(m).equity = m.equity /\ Row(Rehydrated(m)) = stored
BY DEF Rehydrated, Row, Memory, Rows

LEMMA RehydratedWithoutRowIs ==
  ASSUME NEW m \in Memory, day \in 1..MaxDays, log \in [1..MaxDays -> Int]
  PROVE  /\ RehydratedWithoutRow(m) \in Memory
         /\ RehydratedWithoutRow(m).equity = m.equity
BY DEF RehydratedWithoutRow, Memory

LEMMA KillResetIs ==
  ASSUME NEW m \in Memory
  PROVE  /\ KillReset(m) \in Memory
         /\ KillReset(m).equity = m.equity /\ KillReset(m).locked = m.locked
         /\ KillReset(m).tripped = FALSE
         /\ KillReset(m).peak = IF m.equity # None THEN m.equity ELSE m.peak
BY DEF KillReset, Memory

LEMMA LockResetIs ==
  ASSUME NEW m \in Memory
  PROVE  /\ LockReset(m) \in Memory
         /\ LockReset(m).equity = m.equity /\ LockReset(m).tripped = m.tripped
         /\ LockReset(m).peak = m.peak /\ LockReset(m).locked = FALSE
BY DEF LockReset, Memory

LEMMA RowIs ==
  ASSUME NEW m \in Memory
  PROVE  /\ Row(m) \in Rows
         /\ Row(m).peak = m.peak /\ Row(m).tripped = m.tripped /\ Row(m).locked = m.locked
BY DEF Row, Rows, Memory

(* A failure of the database is counted, whatever failed.                  *)
LEMMA FailsIs ==
  ASSUME TypeOK, Fails \/ UNCHANGED failures
  PROVE  failures' \in 0..MaxFailures
<1>1. MaxFailures \in Nat
  <2>1. {MaxCloses, MaxStops, MaxFailures} \subseteq Nat
    BY RiskAssumption
  <2> QED BY <2>1
<1> QED BY <1>1 DEF Fails, TypeOK

(* A write leaves a row, of the monitor's fields or the one there was.     *)
LEMMA PersistIs ==
  ASSUME TypeOK, NEW m \in Memory, Persist(m)
  PROVE  stored' \in Rows /\ unsaved' \in BOOLEAN /\ failures' \in 0..MaxFailures
<1>1. Row(m) \in Rows /\ stored \in Rows
  BY RowIs DEF TypeOK, Rows
<1>2. failures' \in 0..MaxFailures
  BY FailsIs DEF Persist
<1> QED BY <1>1, <1>2 DEF Persist

LEMMA FreshIs == Fresh \in Memory /\ Fresh.equity = None
BY RiskAssumption DEF Fresh, Memory, Amount

-----------------------------------------------------------------------------
(* The types.                                                              *)

LEMMA PoolOK ==
  ASSUME TypeOK
  PROVE  /\ Len(pool) \in Nat \ {0} /\ DOMAIN pool = 1..Len(pool)
         /\ \A i \in DOMAIN pool : pool[i] \in Accounts
<1>1. pool \in Seq(Accounts) /\ pool # <<>>
  BY RiskAssumption DEF TypeOK
<1> QED BY <1>1

(* A step of the startup task or of the snapshot job.                      *)
StartStep == Start \/ ReplayAnswered \/ PositionsAnswered \/ Rehydrate \/ JobRuns \/ JobAnswered

LEMMA GoesOnKeeps ==
  ASSUME TypeOK, NEW who \in {"main", "job"}, NEW i \in DOMAIN pool, NEW next \in 0..Len(pool),
         Answered(who, i), GoesOn(who, i, next)
  PROVE  calls' \in [Accounts -> Seq({"main", "job"})]
<1> DEFINE rest(a) == IF a = pool[i] THEN Tail(calls[a]) ELSE calls[a]
           new(a) == IF next # 0 /\ a = pool[next] THEN <<who>> ELSE <<>>
<1>1. ASSUME NEW a \in Accounts
      PROVE  rest(a) \o new(a) \in Seq({"main", "job"})
  <2>1. calls[a] \in Seq({"main", "job"})
    BY DEF TypeOK
  <2>2. rest(a) \in Seq({"main", "job"})
    <3>1. CASE a = pool[i]
      <4>1. calls[a] # <<>>
        BY <3>1 DEF Answered
      <4> QED BY <3>1, <4>1, <2>1
    <3> QED BY <3>1, <2>1
  <2>3. <<who>> \in Seq({"main", "job"}) /\ <<>> \in Seq({"main", "job"})
    OBVIOUS
  <2>4. new(a) \in Seq({"main", "job"})
    BY <2>3
  <2> HIDE DEF rest, new
  <2> QED BY <2>2, <2>4
<1>2. calls' = [a \in Accounts |-> rest(a) \o new(a)]
  BY DEF GoesOn
<1> HIDE DEF rest, new
<1> QED BY <1>1, <1>2

(* What a step leaves alone keeps its type: what is outside the program,   *)
(* and what is only remembered.                                            *)
LEMMA OutsideKept ==
  ASSUME TypeOK, UNCHANGED envVars
  PROVE  /\ equity' \in [Accounts -> Nat] /\ balance' \in [Accounts -> Int]
         /\ day' \in 1..MaxDays /\ closes' \in 0..MaxCloses /\ stops' \in 0..MaxStops
<1>1. UNCHANGED equity /\ UNCHANGED balance /\ UNCHANGED day /\ UNCHANGED closes /\ UNCHANGED stops
  BY DEF envVars
<1> QED BY <1>1 DEF TypeOK

LEMMA PastKept ==
  ASSUME TypeOK, UNCHANGED pastVars
  PROVE  /\ due' \in [peak : Amount, tripped : BOOLEAN, locked : BOOLEAN]
         /\ early' \in BOOLEAN /\ skewed' \in BOOLEAN /\ unsaved' \in BOOLEAN
         /\ amiss' \subseteq Fields /\ made' \in [1..MaxDays -> Int]
         /\ unlogged' \subseteq 1..MaxDays /\ uncounted' \subseteq 1..MaxDays
         /\ failures' \in 0..MaxFailures
<1>1. /\ UNCHANGED due /\ UNCHANGED early /\ UNCHANGED skewed /\ UNCHANGED unsaved /\ UNCHANGED amiss
      /\ UNCHANGED made /\ UNCHANGED unlogged /\ UNCHANGED uncounted /\ UNCHANGED failures
  BY DEF pastVars
<1> QED BY <1>1 DEF TypeOK

LEMMA StartTypes ==
  ASSUME TypeOK, StartStep
  PROVE  TypeOK'
<1> USE PoolOK
<1>1. CASE Start
  <2>1. PICK replay \in BOOLEAN, i \in DOMAIN pool :
          /\ main' = [pc |-> IF replay THEN "replay" ELSE "reading", at |-> i]
          /\ calls' = [a \in Accounts |-> (IF a = pool[i] THEN <<"main">> ELSE <<>>)
                                             \o (IF a = pool[1] THEN <<"job">> ELSE <<>>)]
    BY <1>1 DEF Start
  <2>2. calls' \in [Accounts -> Seq({"main", "job"})]
    <3>1. /\ <<"main">> \in Seq({"main", "job"}) /\ <<"job">> \in Seq({"main", "job"})
          /\ <<>> \in Seq({"main", "job"})
      OBVIOUS
    <3>2. \A a \in Accounts :
            /\ (IF a = pool[i] THEN <<"main">> ELSE <<>>) \in Seq({"main", "job"})
            /\ (IF a = pool[1] THEN <<"job">> ELSE <<>>) \in Seq({"main", "job"})
      BY <3>1
    <3>3. \A a \in Accounts : (IF a = pool[i] THEN <<"main">> ELSE <<>>)
                                 \o (IF a = pool[1] THEN <<"job">> ELSE <<>>) \in Seq({"main", "job"})
      BY <3>2, ConcatProperties
    <3> QED BY <2>1, <3>3
  <2>3. main' \in {MainIdle} \cup [pc : {"replay", "reading"}, at : DOMAIN pool]
    BY <2>1
  <2>4. phase' = "starting" /\ job' = 1 /\ 1 \in 0..Len(pool)
    BY <1>1 DEF Start
  <2>5. /\ UNCHANGED <<pool, mem, stored, log, snapQ, closing, closeQ>>
        /\ UNCHANGED envVars /\ UNCHANGED pastVars
    BY <1>1 DEF Start
  <2> QED BY <2>2, <2>3, <2>4, <2>5, OutsideKept, PastKept DEF TypeOK
<1>2. CASE ReplayAnswered
  <2>1. main.at \in DOMAIN pool
    BY <1>2 DEF ReplayAnswered, TypeOK, MainIdle
  <2>2. calls' \in [Accounts -> Seq({"main", "job"})]
    BY <1>2, <2>1, GoesOnKeeps DEF ReplayAnswered
  <2>3. /\ UNCHANGED <<pool, mem, stored, log, phase, job, snapQ, closing, closeQ>>
        /\ UNCHANGED envVars /\ UNCHANGED pastVars
    BY <1>2 DEF ReplayAnswered
  <2>4. main' \in [pc : {"replay", "reading"}, at : DOMAIN pool]
    BY <1>2 DEF ReplayAnswered
  <2> QED BY <2>2, <2>3, <2>4, OutsideKept, PastKept DEF TypeOK
<1>3. CASE PositionsAnswered
  <2>1. /\ main.at \in DOMAIN pool /\ main.at < Len(pool)
        /\ main \in [pc : {"replay", "reading"}, at : DOMAIN pool]
    BY <1>3 DEF PositionsAnswered, TypeOK, MainIdle
  <2>2. main.at + 1 \in DOMAIN pool
    BY <2>1
  <2>3. calls' \in [Accounts -> Seq({"main", "job"})]
    BY <1>3, <2>1, <2>2, GoesOnKeeps DEF PositionsAnswered
  <2>4. main' \in [pc : {"replay", "reading"}, at : DOMAIN pool]
    BY <1>3, <2>1, <2>2 DEF PositionsAnswered
  <2>5. /\ UNCHANGED <<pool, mem, stored, log, phase, job, snapQ, closing, closeQ>>
        /\ UNCHANGED envVars /\ UNCHANGED pastVars
    BY <1>3 DEF PositionsAnswered
  <2> QED BY <2>3, <2>4, <2>5, OutsideKept, PastKept DEF TypeOK
<1>4. CASE Rehydrate
  <2>1. main.at \in DOMAIN pool
    BY <1>4 DEF Rehydrate, TypeOK, MainIdle
  <2>2. calls' \in [Accounts -> Seq({"main", "job"})]
    BY <1>4, <2>1, GoesOnKeeps DEF Rehydrate
  <2>3. mem' \in Memory
    BY <1>4, RehydratedIs, RehydratedWithoutRowIs DEF Rehydrate, TypeOK, Rows
  <2>4. amiss' \subseteq Fields /\ uncounted' \subseteq 1..MaxDays /\ failures' \in 0..MaxFailures
    <3>1. day \in 1..MaxDays /\ uncounted \subseteq 1..MaxDays
      BY DEF TypeOK
    <3>2. failures' \in 0..MaxFailures
      BY <1>4, FailsIs DEF Rehydrate
    <3>3. amiss' \subseteq Fields
      BY <1>4 DEF Rehydrate, Astray, TypeOK
    <3>4. uncounted' \subseteq 1..MaxDays
      BY <1>4, <3>1 DEF Rehydrate
    <3> QED BY <3>2, <3>3, <3>4
  <2>5. /\ UNCHANGED <<pool, stored, log, job, snapQ, closing, closeQ>> /\ UNCHANGED envVars
        /\ UNCHANGED <<due, early, unsaved, made, unlogged, skewed>>
        /\ main' = MainIdle /\ phase' = "running"
    BY <1>4 DEF Rehydrate
  <2> QED BY <2>2, <2>3, <2>4, <2>5 DEF TypeOK, envVars
<1>5. CASE JobRuns
  <2>1. pool[1] \in Accounts /\ Append(calls[pool[1]], "job") \in Seq({"main", "job"})
    BY DEF TypeOK
  <2>2. calls' \in [Accounts -> Seq({"main", "job"})]
    BY <1>5, <2>1 DEF JobRuns, Ask, TypeOK
  <2>3. job' = 1 /\ 1 \in 0..Len(pool)
    BY <1>5 DEF JobRuns
  <2>4. /\ UNCHANGED <<pool, mem, stored, log, phase, main, snapQ, closing, closeQ>>
        /\ UNCHANGED envVars /\ UNCHANGED pastVars
    BY <1>5 DEF JobRuns
  <2> QED BY <2>2, <2>3, <2>4, OutsideKept, PastKept DEF TypeOK
<1>6. CASE JobAnswered
  <2>1. job \in DOMAIN pool /\ pool[job] \in Accounts
    BY <1>6 DEF JobAnswered, TypeOK
  <2>2. Following(job) \in 0..Len(pool)
    BY <2>1 DEF Following
  <2>3. calls' \in [Accounts -> Seq({"main", "job"})]
    BY <1>6, <2>1, <2>2, GoesOnKeeps DEF JobAnswered
  <2>4. snapQ' \in Seq([equity : Nat, balance : Int])
    <3>1. /\ <<>> \in Seq([equity : Nat, balance : Int])
          /\ [equity |-> equity[pool[job]], balance |-> balance[pool[job]]] \in Snapshots
      BY <2>1 DEF TypeOK, Snapshots
    <3> DEFINE s == [equity |-> equity[pool[job]], balance |-> balance[pool[job]]]
    <3>2. snapQ' = <<s>> \/ snapQ' = <<>>
      BY <1>6 DEF JobAnswered
    <3> HIDE DEF s
    <3>3. s \in Snapshots => <<s>> \in Seq(Snapshots)
      OBVIOUS
    <3> QED BY <3>1, <3>2, <3>3 DEF s, Snapshots
  <2>5. /\ UNCHANGED <<pool, mem, stored, log, phase, main, closing, closeQ>>
        /\ UNCHANGED envVars /\ UNCHANGED pastVars /\ job' = Following(job)
    BY <1>6 DEF JobAnswered
  <2> QED BY <2>2, <2>3, <2>4, <2>5, OutsideKept, PastKept DEF TypeOK
<1> QED BY <1>1, <1>2, <1>3, <1>4, <1>5, <1>6 DEF StartStep

(* A step that changes the monitor's fields.                               *)
MonitorStep == OnSnapshot \/ OnClosed \/ CheckSignal \/ ResetKillSwitch \/ ResetProfitLock

LEMMA HeadSnapshot ==
  ASSUME TypeOK, snapQ # <<>>
  PROVE  Head(snapQ) \in Snapshots /\ Tail(snapQ) \in Seq(Snapshots)
<1>1. snapQ \in Seq(Snapshots)
  BY DEF TypeOK, Snapshots
<1> QED BY <1>1

LEMMA MonitorTypes ==
  ASSUME TypeOK, MonitorStep
  PROVE  TypeOK'
<1>0. mem \in Memory /\ stored \in Rows /\ due \in Rows /\ day \in 1..MaxDays
  BY DEF TypeOK, Rows
<1>1. CASE OnSnapshot
  <2>1. Head(snapQ) \in Snapshots /\ Tail(snapQ) \in Seq(Snapshots)
    BY <1>1, HeadSnapshot DEF OnSnapshot
  <2>2. mem' \in Memory
    BY <1>0, <1>1, <2>1, SnapshotIs DEF OnSnapshot
  <2>3. stored' \in Rows /\ unsaved' \in BOOLEAN /\ failures' \in 0..MaxFailures
    <3>1. CASE Persist(mem')
      BY <2>2, <3>1, PersistIs
    <3>2. CASE UNCHANGED <<stored, unsaved, failures>>
      BY <3>2 DEF TypeOK, Rows
    <3> QED BY <1>1, <3>1, <3>2 DEF OnSnapshot
  <2>4. due' \in Rows /\ amiss' \subseteq Fields /\ early' \in BOOLEAN
    <3> DEFINE e == Head(snapQ).equity
               peak == IF Above(e, due.peak) THEN e ELSE due.peak
               tripped == due.tripped \/ mem'.tripped
               locked == due.locked \/ mem'.locked
    <3>1. peak \in Amount /\ tripped \in BOOLEAN /\ locked \in BOOLEAN
      BY <1>0, <2>1, <2>2 DEF Rows, Snapshots, Amount, Memory
    <3>2. due' = [peak |-> peak, tripped |-> tripped, locked |-> locked]
      BY <1>1 DEF OnSnapshot
    <3> HIDE DEF peak, tripped, locked
    <3>3. due' \in Rows
      BY <3>1, <3>2 DEF Rows
    <3> QED BY <1>1, <3>3 DEF OnSnapshot, TypeOK
  <2>5. skewed' \in BOOLEAN
    BY <1>1 DEF OnSnapshot, SnapshotSkews, TypeOK
  <2> QED BY <1>1, <2>1, <2>2, <2>3, <2>4, <2>5
          DEF OnSnapshot, TypeOK, Rows, Snapshots, startVars, envVars
<1>2. CASE OnClosed
  <2>1. Head(closeQ) \in Int /\ Tail(closeQ) \in Seq(Int)
    BY <1>2 DEF OnClosed, TypeOK
  <2>2. Roll(mem) \in Memory
    BY <1>0, RollIs
  <2>3. mem' \in Memory
    <3> DEFINE m == Roll(mem)
               pnl == m.pnl + Head(closeQ)
    <3>1. mem' = [m EXCEPT !.pnl = pnl]
      BY <1>2 DEF OnClosed
    <3>2. m \in Memory /\ pnl \in Int
      BY <2>1, <2>2 DEF Memory
    <3> HIDE DEF m, pnl
    <3> QED BY <3>1, <3>2 DEF Memory
  <2>4. /\ log' \in [1..MaxDays -> Int] /\ made' \in [1..MaxDays -> Int]
        /\ unlogged' \subseteq 1..MaxDays /\ failures' \in 0..MaxFailures
    <3>1. failures' \in 0..MaxFailures
      BY <1>2, FailsIs DEF OnClosed
    <3> DEFINE h == Head(closeQ)
    <3>2. /\ made' = [made EXCEPT ![day] = made[day] + h] /\ made \in [1..MaxDays -> Int]
          /\ log \in [1..MaxDays -> Int]
          /\ unlogged \subseteq 1..MaxDays
      BY <1>2 DEF OnClosed, TypeOK
    <3>3. \/ log' = [log EXCEPT ![day] = log[day] + h] /\ unlogged' = unlogged
          \/ log' = log /\ unlogged' = unlogged \cup {day}
      BY <1>2 DEF OnClosed
    <3>4. h \in Int /\ day \in 1..MaxDays
      BY <1>0, <2>1
    <3> HIDE DEF h
    <3>5. made' \in [1..MaxDays -> Int]
      BY ONLY <3>2, <3>4
    <3>6. log' \in [1..MaxDays -> Int] /\ unlogged' \subseteq 1..MaxDays
      <4>1. [log EXCEPT ![day] = log[day] + h] \in [1..MaxDays -> Int]
        BY ONLY <3>2, <3>4
      <4> QED BY ONLY <3>2, <3>3, <3>4, <4>1
    <3> QED BY <3>1, <3>5, <3>6
  <2>5. skewed' \in BOOLEAN
    BY <1>2 DEF OnClosed, RollSkews, TypeOK
  <2>6. /\ UNCHANGED pool /\ UNCHANGED stored /\ UNCHANGED startVars /\ UNCHANGED snapQ
        /\ UNCHANGED closing /\ UNCHANGED envVars /\ closeQ' = Tail(closeQ)
        /\ UNCHANGED due /\ UNCHANGED early /\ UNCHANGED unsaved /\ UNCHANGED amiss
        /\ UNCHANGED uncounted
    BY <1>2 DEF OnClosed
  <2>7. UNCHANGED phase /\ UNCHANGED main /\ UNCHANGED job /\ UNCHANGED calls
    BY <2>6 DEF startVars
  <2>8. /\ closeQ' \in Seq(Int) /\ stored' \in [peak : Amount, tripped : BOOLEAN, locked : BOOLEAN]
        /\ due' \in [peak : Amount, tripped : BOOLEAN, locked : BOOLEAN]
        /\ pool' \in Pools /\ early' \in BOOLEAN /\ unsaved' \in BOOLEAN
        /\ amiss' \subseteq Fields /\ uncounted' \subseteq 1..MaxDays
        /\ snapQ' \in Seq([equity : Nat, balance : Int]) /\ closing' \in Int \cup {None}
    BY <2>1, <2>6 DEF TypeOK
  <2>9. /\ phase' \in {"down", "starting", "running"}
        /\ main' \in {MainIdle} \cup [pc : {"replay", "reading"}, at : DOMAIN pool']
        /\ job' \in 0..Len(pool') /\ calls' \in [Accounts -> Seq({"main", "job"})]
    BY <2>6, <2>7, Zenon DEF TypeOK
  <2> QED BY <2>3, <2>4, <2>5, <2>6, <2>8, <2>9, OutsideKept, Zenon DEF TypeOK
<1>3. CASE CheckSignal
  <2>1. mem' \in Memory
    BY <1>0, <1>3, RollIs DEF CheckSignal
  <2>2. skewed' \in BOOLEAN
    BY <1>3 DEF CheckSignal, RollSkews, TypeOK
  <2> QED BY <1>3, <2>1, <2>2 DEF CheckSignal, TypeOK, startVars, envVars
<1>4. CASE ResetKillSwitch
  <2>1. mem' \in Memory
    BY <1>0, <1>4, KillResetIs DEF ResetKillSwitch
  <2>2. stored' \in Rows /\ unsaved' \in BOOLEAN /\ failures' \in 0..MaxFailures
    BY <1>4, <2>1, PersistIs DEF ResetKillSwitch
  <2>3. due' \in Rows
    <3> DEFINE peak == IF mem.equity # None THEN mem.equity ELSE due.peak
    <3>1. peak \in Amount
      BY <1>0 DEF Memory, Rows
    <3>2. due' = [due EXCEPT !.tripped = FALSE, !.peak = peak]
      BY <1>4 DEF ResetKillSwitch
    <3> HIDE DEF peak
    <3> QED BY <1>0, <3>1, <3>2 DEF Rows
  <2> QED BY <1>4, <2>1, <2>2, <2>3 DEF ResetKillSwitch, TypeOK, Rows, startVars, envVars
<1>5. CASE ResetProfitLock
  <2>1. mem' \in Memory
    BY <1>0, <1>5, LockResetIs DEF ResetProfitLock
  <2>2. stored' \in Rows /\ unsaved' \in BOOLEAN /\ failures' \in 0..MaxFailures
    BY <1>5, <2>1, PersistIs DEF ResetProfitLock
  <2>3. due' \in Rows
    BY <1>0, <1>5 DEF ResetProfitLock, Rows
  <2> QED BY <1>5, <2>1, <2>2, <2>3 DEF ResetProfitLock, TypeOK, Rows, startVars, envVars
<1> QED BY <1>1, <1>2, <1>3, <1>4, <1>5 DEF MonitorStep

(* A step of a broker, of the clock, or the end of the process.            *)
OutsideStep ==
  \/ \E a \in Managed, r \in Results : BrokerCloses(a, r)
  \/ CloseReplies
  \/ \E a \in Managed, e \in Levels : MarketMoves(a, e)
  \/ DayPasses \/ Stop

LEMMA OutsideTypes ==
  ASSUME TypeOK, OutsideStep
  PROVE  TypeOK'
<1>1. ASSUME NEW a \in Managed, NEW r \in Results, BrokerCloses(a, r) PROVE TypeOK'
  <2>1. r \in Int /\ balance' \in [Accounts -> Int]
    BY <1>1, RiskAssumption DEF BrokerCloses, TypeOK
  <2>2. closes' \in 0..MaxCloses
    BY <1>1, RiskAssumption DEF BrokerCloses, TypeOK
  <2> QED BY <1>1, <2>1, <2>2, PastKept DEF BrokerCloses, TypeOK, startVars
<1>2. CASE CloseReplies
  <2>1. closing \in Int /\ closeQ' \in Seq(Int)
    BY <1>2 DEF CloseReplies, TypeOK
  <2> QED BY <1>2, <2>1, OutsideKept, PastKept DEF CloseReplies, TypeOK, startVars
<1>3. ASSUME NEW a \in Managed, NEW e \in Levels, MarketMoves(a, e) PROVE TypeOK'
  <2>1. equity' \in [Accounts -> Nat]
    BY <1>3, RiskAssumption DEF MarketMoves, TypeOK
  <2> QED BY <1>3, <2>1, PastKept DEF MarketMoves, TypeOK, startVars
<1>4. CASE DayPasses
  <2>1. day' \in 1..MaxDays
    BY <1>4, RiskAssumption DEF DayPasses, TypeOK
  <2> QED BY <1>4, <2>1, PastKept DEF DayPasses, TypeOK, startVars
<1>5. CASE Stop
  <2>1. stops' \in 0..MaxStops /\ calls' \in [Accounts -> Seq({"main", "job"})]
    BY <1>5, RiskAssumption DEF Stop, TypeOK
  <2>2. 0 \in 0..Len(pool)
    BY PoolOK
  <2>3. amiss' \subseteq Fields
    BY <1>5 DEF Stop, Astray, TypeOK
  <2>4. /\ phase' = "down" /\ main' = MainIdle /\ job' = 0 /\ mem' = Fresh
        /\ snapQ' = <<>> /\ closing' = None /\ closeQ' = <<>> /\ unsaved' = FALSE
        /\ UNCHANGED <<stored, log, equity, balance, day, closes, pool>>
        /\ UNCHANGED <<due, early, made, unlogged, uncounted, skewed, failures>>
    BY <1>5 DEF Stop
  <2>5. /\ snapQ' \in Seq([equity : Nat, balance : Int]) /\ closeQ' \in Seq(Int)
    BY <2>4
  <2> QED BY <2>1, <2>2, <2>3, <2>4, <2>5, FreshIs DEF TypeOK
<1> QED BY <1>1, <1>2, <1>3, <1>4, <1>5 DEF OutsideStep

LEMMA NextIs == Next <=> StartStep \/ MonitorStep \/ OutsideStep
BY DEF Next, StartStep, MonitorStep, OutsideStep

(* The fields of the monitor, its row and the tasks of a start keep their  *)
(* types (risk/monitor.py, runtime.py:301-500).                            *)
THEOREM TypeCorrect == Spec => []TypeOK
<1>1. Init => TypeOK
  <2> SUFFICES ASSUME Init PROVE TypeOK
    OBVIOUS
  <2>1. mem \in Memory /\ stored \in Rows
    BY FreshIs, RowIs DEF Init
  <2>2. Len(pool) \in Nat
    BY RiskAssumption DEF Init
  <2>3. equity \in [Accounts -> Nat] /\ balance \in [Accounts -> Int]
    BY RiskAssumption DEF Init
  <2>4. /\ log \in [1..MaxDays -> Int] /\ calls \in [Accounts -> Seq({"main", "job"})]
        /\ snapQ \in Seq([equity : Nat, balance : Int]) /\ closeQ \in Seq(Int)
    BY DEF Init
  <2>5. day \in 1..MaxDays /\ closes \in 0..MaxCloses /\ stops \in 0..MaxStops
    BY RiskAssumption DEF Init
  <2>6. job \in 0..Len(pool) /\ main = MainIdle
    BY <2>2 DEF Init
  <2>7. /\ early \in BOOLEAN /\ skewed \in BOOLEAN /\ unsaved \in BOOLEAN /\ due \in Rows
        /\ made \in [1..MaxDays -> Int]
    <3>1. due \in Rows
      BY FreshIs, RowIs DEF Init
    <3>2. made \in [1..MaxDays -> Int]
      BY DEF Init
    <3> QED BY <3>1, <3>2 DEF Init
  <2>8. failures \in 0..MaxFailures
    <3>1. {MaxCloses, MaxStops, MaxFailures} \subseteq Nat
      BY RiskAssumption
    <3> QED BY <3>1 DEF Init
  <2> QED BY <2>1, <2>3, <2>4, <2>5, <2>6, <2>7, <2>8 DEF Init, TypeOK, Rows, Amount
<1>2. TypeOK /\ [Next]_vars => TypeOK'
  <2>1. ASSUME TypeOK, UNCHANGED vars PROVE TypeOK'
    BY <2>1 DEF vars, pastVars, TypeOK
  <2> QED BY <2>1, NextIs, StartTypes, MonitorTypes, OutsideTypes
<1> QED BY <1>1, <1>2, PTL DEF Spec

-----------------------------------------------------------------------------
(* The row and the memory agree, unless a snapshot came too early.         *)

(* A start that has seen no snapshot knows of no equity and has written no *)
(* row, and only a start waits for the positions.                          *)
StartInv ==
  /\ phase = "down" => snapQ = <<>> /\ job = 0
  /\ main.pc # "idle" => phase = "starting"
  /\ phase # "running" /\ ~early => mem.equity = None /\ ~unsaved

(* What is not amiss is as it ought to be: while the engine runs in the    *)
(* memory, and in the row unless its last write failed.                    *)
FieldOK(f) ==
  /\ phase = "running" => mem[f] = due[f]
  /\ ~unsaved => stored[f] = due[f]
RowInv == ~early => \A f \in Fields \ amiss : FieldOK(f)

(* A drawdown beyond the limit has tripped the switch.                     *)
TripInv ==
  (/\ phase = "running" /\ ~early /\ mem.equity # None
   /\ KillPct > 0 /\ FallenBy(KillPct, mem.peak, mem.equity)) => mem.tripped

IInv == TypeOK /\ StartInv /\ RowInv /\ TripInv

rowVars == <<stored, due, early, unsaved, amiss>>

(* A step that leaves the monitor alone.                                   *)
LEMMA AloneKeeps ==
  ASSUME IInv, UNCHANGED <<mem, rowVars>>,
         phase' = phase \/ (phase = "down" /\ phase' = "starting"),
         phase' = "down" => snapQ' = snapQ /\ job' = job,
         main'.pc # "idle" => phase' = "starting"
  PROVE  StartInv' /\ RowInv' /\ TripInv'
<1>1. phase' = "running" => phase = "running"
  OBVIOUS
<1>2. UNCHANGED <<mem, stored, due, early, unsaved, amiss>>
  BY DEF rowVars
<1>3. StartInv'
  BY <1>1, <1>2 DEF IInv, StartInv
<1>4. RowInv'
  BY <1>1, <1>2 DEF IInv, RowInv, FieldOK
<1>5. TripInv'
  BY <1>1, <1>2 DEF IInv, TripInv, FallenBy
<1> QED BY <1>3, <1>4, <1>5

LEMMA StartKeeps ==
  ASSUME IInv, StartStep
  PROVE  StartInv' /\ RowInv' /\ TripInv'
<1>1. CASE Rehydrate
  <2>1. /\ mem \in Memory /\ day \in 1..MaxDays /\ log \in [1..MaxDays -> Int]
        /\ stored \in Rows
    BY DEF IInv, TypeOK, Rows
  <2>2. /\ phase' = "running" /\ main' = MainIdle /\ UNCHANGED <<stored, due, early, unsaved>>
    BY <1>1 DEF Rehydrate
  <2>3. phase = "starting"
    BY <1>1 DEF Rehydrate, IInv, StartInv
  <2>4. mem'.equity = mem.equity
    BY <1>1, <2>1, RehydratedIs, RehydratedWithoutRowIs DEF Rehydrate
  <2>5. StartInv'
    BY <2>2 DEF StartInv, MainIdle
  <2>6. TripInv'
    BY <2>2, <2>3, <2>4 DEF IInv, StartInv, TripInv
  <2>7. ASSUME ~early, NEW f \in Fields, f \notin amiss' PROVE FieldOK(f)'
    <3>1. CASE mem'[f] = due[f] /\ stored[f] = due[f]
      BY <2>2, <3>1 DEF FieldOK
    <3>2. CASE mem' = Rehydrated(mem) /\ f \notin amiss
      <4>1. /\ mem'.peak = stored.peak /\ mem'.tripped = stored.tripped
            /\ mem'.locked = stored.locked
        <5>1. Row(mem') = stored /\ mem' \in Memory
          BY <2>1, <3>2, RehydratedIs
        <5> QED BY <5>1, RowIs
      <4>2. mem'[f] = stored[f]
        BY <2>7, <4>1 DEF Fields
      <4>3. stored[f] = due[f]
        BY <2>3, <2>7, <3>2 DEF IInv, StartInv, RowInv, FieldOK
      <4> QED BY <2>2, <4>2, <4>3 DEF FieldOK
    <3>3. \/ f \notin Astray(mem', stored, due)
          \/ mem' = Rehydrated(mem) /\ f \notin amiss
      BY <1>1, <2>7 DEF Rehydrate
    <3> QED BY <2>7, <3>1, <3>2, <3>3 DEF Astray
  <2>8. RowInv'
    BY <2>2, <2>7 DEF RowInv
  <2> QED BY <2>5, <2>6, <2>8
<1>2. CASE Start
  BY <1>2, AloneKeeps DEF Start, pastVars, rowVars
<1>3. CASE ReplayAnswered
  <2>1. phase = "starting"
    BY <1>3 DEF ReplayAnswered, IInv, StartInv
  <2> QED BY <1>3, <2>1, AloneKeeps DEF ReplayAnswered, pastVars, rowVars
<1>4. CASE PositionsAnswered
  <2>1. phase = "starting"
    BY <1>4 DEF PositionsAnswered, IInv, StartInv
  <2> QED BY <1>4, <2>1, AloneKeeps DEF PositionsAnswered, pastVars, rowVars
<1>5. CASE JobRuns
  BY <1>5, AloneKeeps DEF JobRuns, pastVars, rowVars, IInv, StartInv
<1>6. CASE JobAnswered
  <2>1. phase # "down"
    BY <1>6 DEF JobAnswered, IInv, StartInv
  <2> QED BY <1>6, <2>1, AloneKeeps DEF JobAnswered, pastVars, rowVars, IInv, StartInv
<1> QED BY <1>1, <1>2, <1>3, <1>4, <1>5, <1>6 DEF StartStep

LEMMA OutsideKeeps ==
  ASSUME IInv, OutsideStep
  PROVE  StartInv' /\ RowInv' /\ TripInv'
<1>1. CASE Stop
  <2>1. /\ phase' = "down" /\ snapQ' = <<>> /\ job' = 0 /\ main' = MainIdle /\ mem' = Fresh
        /\ unsaved' = FALSE /\ UNCHANGED <<stored, due, early>>
        /\ amiss' = IF unsaved THEN amiss \cup Astray(mem, stored, due) ELSE amiss
    BY <1>1 DEF Stop
  <2>2. StartInv' /\ TripInv'
    BY <2>1, FreshIs DEF StartInv, TripInv, MainIdle
  <2>3. ASSUME ~early, NEW f \in Fields, f \notin amiss' PROVE stored[f] = due[f]
    <3>1. CASE unsaved
      BY <2>1, <2>3, <3>1 DEF Astray
    <3>2. CASE ~unsaved
      BY <2>1, <2>3, <3>2 DEF IInv, RowInv, FieldOK
    <3> QED BY <3>1, <3>2
  <2>4. RowInv'
    BY <2>1, <2>3 DEF RowInv, FieldOK
  <2> QED BY <2>2, <2>4
<1>2. CASE ~Stop
  <2>1. UNCHANGED <<mem, rowVars, phase, snapQ, job, main>>
    BY <1>2 DEF OutsideStep, BrokerCloses, CloseReplies, MarketMoves, DayPasses,
               startVars, envVars, pastVars, rowVars
  <2> QED BY <2>1, AloneKeeps DEF IInv, StartInv
<1> QED BY <1>1, <1>2

(* A step of the running monitor that moves its fields as the row ought to *)
(* move, and writes the row if they moved.                                 *)
LEMMA WriteKeeps ==
  ASSUME IInv, phase = "running", phase' = "running", ~early, mem' \in Memory,
         \A f \in Fields : mem[f] = due[f] => mem'[f] = due'[f],
         \/ Persist(mem')
         \/ UNCHANGED <<stored, unsaved>> /\ \A f \in Fields : mem'[f] = mem[f],
         amiss' = amiss \cap Astray(mem', stored', due')
  PROVE  RowInv'
<1>1. ASSUME NEW f \in Fields, f \notin amiss' PROVE FieldOK(f)'
  <2>1. CASE f \notin Astray(mem', stored', due')
    BY <1>1, <2>1 DEF Astray, FieldOK
  <2>2. CASE f \notin amiss
    <3>1. mem[f] = due[f] /\ (~unsaved => stored[f] = due[f])
      BY <1>1, <2>2 DEF IInv, RowInv, FieldOK
    <3>2. mem'[f] = due'[f]
      BY <1>1, <3>1
    <3>3. CASE stored' = Row(mem')
      <4>1. stored'[f] = mem'[f]
        BY <1>1, <3>3, RowIs DEF Fields
      <4> QED BY <3>2, <4>1 DEF FieldOK
    <3>4. CASE unsaved' = TRUE
      BY <3>2, <3>4 DEF FieldOK
    <3>5. CASE UNCHANGED <<stored, unsaved>> /\ mem'[f] = mem[f]
      BY <3>1, <3>2, <3>5 DEF FieldOK
    <3> QED BY <1>1, <3>3, <3>4, <3>5 DEF Persist
  <2> QED BY <1>1, <2>1, <2>2
<1> QED BY <1>1 DEF RowInv

(* A snapshot that is handled while the engine runs.                       *)
LEMMA SnapshotKeeps ==
  ASSUME IInv, OnSnapshot
  PROVE  StartInv' /\ RowInv' /\ TripInv'
<1>1. /\ mem \in Memory /\ due \in Rows /\ Head(snapQ) \in Snapshots /\ day \in 1..MaxDays
      /\ snapQ # <<>> /\ mem' = Snapshot(mem, Head(snapQ))
  BY HeadSnapshot DEF IInv, TypeOK, OnSnapshot, Rows
<1>2. /\ phase' = phase /\ main' = main /\ job' = job
      /\ early' = (early \/ phase = "starting")
  BY DEF OnSnapshot, startVars
<1>3. /\ mem' \in Memory
      /\ mem'.equity = Head(snapQ).equity
      /\ mem'.peak = IF Above(mem'.equity, mem.peak) THEN mem'.equity ELSE mem.peak
      /\ mem.tripped => mem'.tripped
      /\ mem.locked => mem'.locked
      /\ KillPct > 0 /\ FallenBy(KillPct, mem'.peak, mem'.equity) => mem'.tripped
  BY <1>1, SnapshotIs
<1>4. phase # "down" /\ (~early' => phase = "running" /\ ~early)
  BY <1>1, <1>2 DEF IInv, StartInv, TypeOK
<1>5. StartInv'
  BY <1>2, <1>4 DEF IInv, StartInv
<1>6. RowInv'
  <2> SUFFICES ASSUME ~early' PROVE RowInv'
    BY DEF RowInv
  <2>1. /\ due'.peak = IF Above(mem'.equity, due.peak) THEN mem'.equity ELSE due.peak
        /\ due'.tripped = (due.tripped \/ mem'.tripped)
        /\ due'.locked = (due.locked \/ mem'.locked)
    BY <1>3 DEF OnSnapshot
  <2>2. /\ mem.peak = due.peak => mem'.peak = due'.peak
        /\ mem.tripped = due.tripped => mem'.tripped = due'.tripped
        /\ mem.locked = due.locked => mem'.locked = due'.locked
    <3>1. mem'.tripped \in BOOLEAN /\ mem'.locked \in BOOLEAN
      BY <1>3 DEF Memory
    <3> QED BY <1>3, <2>1, <3>1
  <2>3. \A f \in Fields : mem[f] = due[f] => mem'[f] = due'[f]
    BY <2>2 DEF Fields
  <2>4. \/ Persist(mem')
        \/ UNCHANGED <<stored, unsaved>> /\ \A f \in Fields : mem'[f] = mem[f]
    BY DEF OnSnapshot, SnapshotPersists, Fields
  <2>5. amiss' = amiss \cap Astray(mem', stored', due')
    BY DEF OnSnapshot
  <2> QED BY <1>2, <1>3, <1>4, <2>3, <2>4, <2>5, WriteKeeps
<1>7. TripInv'
  BY <1>3 DEF TripInv, FallenBy
<1> QED BY <1>5, <1>6, <1>7

LEMMA NotFallen ==
  ASSUME NEW e \in Nat, KillPct > 0
  PROVE  ~FallenBy(KillPct, e, e)
<1>1. KillPct \in 0..100
  <2>1. {KillPct, LossPct} \subseteq 0..100
    BY RiskAssumption
  <2> QED BY <2>1
<1>2. e > 0 => KillPct * e > 0
  BY <1>1
<1> QED BY <1>1, <1>2 DEF FallenBy

LEMMA MonitorKeeps ==
  ASSUME IInv, MonitorStep
  PROVE  StartInv' /\ RowInv' /\ TripInv'
<1>0. mem \in Memory /\ stored \in Rows /\ due \in Rows /\ day \in 1..MaxDays
  BY DEF IInv, TypeOK, Rows
<1>1. CASE OnSnapshot
  BY <1>1, SnapshotKeeps
<1>2. CASE OnClosed \/ CheckSignal
  <2>1. UNCHANGED <<stored, phase, main, job, snapQ, due, early, unsaved, amiss>>
    BY <1>2 DEF OnClosed, CheckSignal, startVars
  <2>2. Row(Roll(mem)) = Row(mem) /\ Roll(mem).equity = mem.equity /\ Roll(mem) \in Memory
    BY <1>0, RollIs
  <2>3. /\ mem'.peak = Roll(mem).peak /\ mem'.tripped = Roll(mem).tripped
        /\ mem'.locked = Roll(mem).locked /\ mem'.equity = Roll(mem).equity
    BY <1>2, <2>2 DEF OnClosed, CheckSignal, Memory
  <2>4. mem'.equity = mem.equity
    BY <2>2, <2>3
  <2>5. mem'.peak = mem.peak /\ mem'.tripped = mem.tripped /\ mem'.locked = mem.locked
    BY <1>0, <2>2, <2>3, RowIs
  <2>6. \A f \in Fields : mem'[f] = mem[f]
    BY <2>5 DEF Fields
  <2>7. RowInv'
    BY <2>1, <2>6 DEF IInv, RowInv, FieldOK
  <2> QED BY <2>1, <2>4, <2>5, <2>7 DEF IInv, StartInv, TripInv, FallenBy
<1>3. CASE ResetKillSwitch
  <2> DEFINE peak == IF mem.equity # None THEN mem.equity ELSE due.peak
  <2>1. /\ phase = "running" /\ mem' = KillReset(mem) /\ Persist(mem')
        /\ due' = [due EXCEPT !.tripped = FALSE, !.peak = peak]
        /\ amiss' = amiss \cap Astray(mem', stored', due')
        /\ UNCHANGED <<phase, main, job, snapQ, early>>
    BY <1>3 DEF ResetKillSwitch, startVars
  <2>2. /\ mem' \in Memory /\ mem'.equity = mem.equity /\ mem'.locked = mem.locked
        /\ mem'.tripped = FALSE
        /\ mem'.peak = IF mem.equity # None THEN mem.equity ELSE mem.peak
    BY <1>0, <2>1, KillResetIs
  <2>3. due'.tripped = FALSE /\ due'.peak = peak /\ due'.locked = due.locked
    <3> HIDE DEF peak
    <3> QED BY <1>0, <2>1 DEF Rows
  <2>4. \A f \in Fields : mem[f] = due[f] => mem'[f] = due'[f]
    BY <2>2, <2>3 DEF Fields
  <2>5. RowInv'
    <3>1. CASE early
      BY <2>1, <3>1 DEF RowInv
    <3>2. CASE ~early
      BY <2>1, <2>2, <2>4, <3>2, WriteKeeps
    <3> QED BY <3>1, <3>2
  <2>6. TripInv'
    <3>1. mem'.equity # None => mem'.peak = mem'.equity /\ mem'.equity \in Nat
      BY <2>2 DEF Memory, Amount
    <3> QED BY <3>1, NotFallen DEF TripInv, FallenBy
  <2> QED BY <2>1, <2>5, <2>6 DEF IInv, StartInv
<1>4. CASE ResetProfitLock
  <2>1. /\ phase = "running" /\ mem' = LockReset(mem) /\ Persist(mem')
        /\ due' = [due EXCEPT !.locked = FALSE]
        /\ amiss' = amiss \cap Astray(mem', stored', due')
        /\ UNCHANGED <<phase, main, job, snapQ, early>>
    BY <1>4 DEF ResetProfitLock, startVars
  <2>2. /\ mem' \in Memory /\ mem'.equity = mem.equity /\ mem'.peak = mem.peak
        /\ mem'.tripped = mem.tripped /\ mem'.locked = FALSE
    BY <1>0, <2>1, LockResetIs
  <2>3. due'.tripped = due.tripped /\ due'.peak = due.peak /\ due'.locked = FALSE
    BY <1>0, <2>1 DEF Rows
  <2>4. \A f \in Fields : mem[f] = due[f] => mem'[f] = due'[f]
    BY <2>2, <2>3 DEF Fields
  <2>5. RowInv'
    <3>1. CASE early
      BY <2>1, <3>1 DEF RowInv
    <3>2. CASE ~early
      BY <2>1, <2>2, <2>4, <3>2, WriteKeeps
    <3> QED BY <3>1, <3>2
  <2> QED BY <2>1, <2>2, <2>5 DEF IInv, StartInv, TripInv, FallenBy
<1> QED BY <1>1, <1>2, <1>3, <1>4 DEF MonitorStep

LEMMA Inductive == Spec => []IInv
<1>1. Init => StartInv /\ RowInv /\ TripInv
  <2> SUFFICES ASSUME Init PROVE StartInv /\ RowInv /\ TripInv
    OBVIOUS
  <2>1. mem = Fresh /\ stored = due /\ phase = "down" /\ snapQ = <<>> /\ job = 0
        /\ main = MainIdle /\ ~unsaved
    BY DEF Init
  <2> QED BY <2>1, FreshIs DEF StartInv, RowInv, FieldOK, TripInv, MainIdle
<1>2. IInv /\ [Next]_vars => (StartInv /\ RowInv /\ TripInv)'
  <2>1. ASSUME IInv, UNCHANGED vars PROVE (StartInv /\ RowInv /\ TripInv)'
    BY <2>1, AloneKeeps DEF vars, pastVars, rowVars, IInv, StartInv
  <2> QED BY <2>1, NextIs, StartKeeps, MonitorKeeps, OutsideKeeps
<1> QED BY <1>1, <1>2, TypeCorrect, PTL DEF Spec, IInv

(* Unless a failed write or load stands in its way, the drawdown is        *)
(* measured from the highest equity handled since the last reset, over any *)
(* number of restarts, and with KillPct of it lost check_signal() refuses  *)
(* every signal (risk/monitor.py:240-273, 277-307, 462-530).               *)
THEOREM DrawdownTrips == Spec => []DrawdownGuarded
<1>1. IInv => DrawdownGuarded
  <2> SUFFICES ASSUME IInv PROVE DrawdownGuarded
    OBVIOUS
  <2>1. phase = "running" /\ ~early /\ "peak" \notin amiss => mem.peak = due.peak
    BY DEF IInv, RowInv, FieldOK, Fields
  <2>2. PeakSinceReset
    BY <2>1 DEF PeakSinceReset
  <2>3. EquityGuarded
    BY <2>1 DEF EquityGuarded, Allows, IInv, TripInv, FallenBy
  <2> QED BY <2>2, <2>3 DEF DrawdownGuarded, IInv
<1> QED BY <1>1, Inductive, PTL

(* However often the process is killed, a switch is tripped exactly if it  *)
(* has tripped and the operator has not reset it since, while every write  *)
(* that failed was made good before the process stopped and every start    *)
(* could read the row (risk/monitor.py:164-193, 240-273), unless a start   *)
(* has handled a snapshot before rehydrate().                              *)
THEOREM FlagsSurvive == Spec => []FlagsKept
<1>1. IInv => FlagsKept
  BY DEF IInv, RowInv, FieldOK, Fields, FlagsKept
<1> QED BY <1>1, Inductive, PTL
-----------------------------------------------------------------------------
(* The day's loss.                                                         *)

(* Nothing happened on a day to come; the log has the closes of a day that *)
(* were all logged; and the P&L in memory, if it is of today, is what the  *)
(* closes of today made, which is nothing if it is not. Before it runs the *)
(* monitor counts no close.                                                *)
LogInv ==
  /\ \A d \in 1..MaxDays : d > day => made[d] = 0 /\ d \notin unlogged /\ d \notin uncounted
  /\ \A d \in 1..MaxDays : d \notin unlogged => log[d] = made[d]
  /\ mem.anchor # None => mem.anchor <= day
  /\ mem.anchor = None => mem.pnl = 0
  /\ phase = "running" /\ day \notin uncounted =>
       IF mem.anchor = day THEN mem.pnl = made[day] ELSE made[day] = 0
  /\ phase # "running" => mem.pnl = 0 /\ ~mem.needsOpening

(* At most one close of a run of the process waits for its handler.        *)
CloseInv ==
  /\ Len(closeQ) <= 1
  /\ phase # "running" => closing = None /\ closeQ = <<>>

(* The opening balance in memory is the one the day opened with; one taken *)
(* before the engine runs is the balance there was.                        *)
OpenInv ==
  (/\ Len(pool) = 1 /\ mem.anchor = day /\ ~mem.needsOpening /\ ~skewed) =>
     /\ phase = "running" /\ day \notin uncounted => mem.opening = Booked(pool[1]) - made[day]
     /\ phase # "running" => mem.opening = Booked(pool[1])

DayInv == LogInv /\ CloseInv /\ OpenInv

dayVars == <<log, made, unlogged, uncounted>>

(* _on_snapshot() takes the opening balance once after rehydrate().        *)
LEMMA SnapshotBooks ==
  ASSUME NEW m \in Memory, NEW s \in Snapshots, day \in 1..MaxDays
  PROVE  LET n == Snapshot(m, s) IN
         /\ n.pnl = m.pnl /\ n.needsOpening = (m.needsOpening /\ m.anchor = None)
         /\ n.anchor = IF m.anchor = None THEN day ELSE m.anchor
         /\ n.opening = IF m.anchor = None THEN s.balance
                        ELSE IF m.needsOpening THEN s.balance - m.pnl ELSE m.opening
<1> DEFINE n == Seen(m, s)
           tripped == n.tripped \/ (KillPct > 0 /\ FallenBy(KillPct, n.peak, s.equity))
           locked == n.locked \/ (LockOn /\ GivesBack(n, s.equity))
           anchor == IF m.anchor = None THEN day ELSE m.anchor
           opening == IF m.anchor = None THEN s.balance
                      ELSE IF m.needsOpening THEN s.balance - m.pnl ELSE m.opening
           needs == m.needsOpening /\ m.anchor = None
           peak == IF Above(s.equity, m.peak) THEN s.equity ELSE m.peak
           lockOpen == IF LockOn /\ m.lockOpen = None THEN s.equity ELSE m.lockOpen
           lockHigh == IF LockOn /\ Above(s.equity, m.lockHigh) THEN s.equity ELSE m.lockHigh
<1>1. n \in Memory
  BY SeenIs
<1>2. n = [m EXCEPT !.equity = s.equity, !.balance = s.balance, !.peak = peak,
                    !.anchor = anchor, !.opening = opening, !.needsOpening = needs,
                    !.lockOpen = lockOpen, !.lockHigh = lockHigh]
  BY DEF Seen
<1>3. Snapshot(m, s) = [n EXCEPT !.tripped = tripped, !.locked = locked]
  BY DEF Snapshot
<1>4. n.pnl = m.pnl /\ n.needsOpening = needs /\ n.anchor = anchor /\ n.opening = opening
  <2> HIDE DEF n, anchor, opening, needs, peak, lockOpen, lockHigh
  <2> QED BY <1>2 DEF Memory
<1>5. /\ Snapshot(m, s).pnl = n.pnl /\ Snapshot(m, s).needsOpening = n.needsOpening
      /\ Snapshot(m, s).anchor = n.anchor /\ Snapshot(m, s).opening = n.opening
  <2> HIDE DEF n, tripped, locked
  <2> QED BY <1>1, <1>3 DEF Memory
<1> QED BY <1>4, <1>5

LEMMA RollBooks ==
  ASSUME NEW m \in Memory, day \in 1..MaxDays
  PROVE  /\ Roll(m).anchor = day /\ Roll(m).needsOpening = m.needsOpening
         /\ m.anchor = day => Roll(m) = m
         /\ m.anchor # day => /\ Roll(m).pnl = 0
                              /\ m.balance # None => Roll(m).opening = m.balance
<1>1. CASE m.anchor = day
  BY <1>1 DEF Roll
<1>2. CASE m.anchor # day
  <2> DEFINE opening == IF m.balance # None THEN m.balance ELSE m.opening
             anchor == day
             pnl == 0
  <2>1. Roll(m) = [m EXCEPT !.anchor = anchor, !.pnl = pnl, !.opening = opening]
    BY <1>2 DEF Roll
  <2>2. Roll(m).anchor = anchor /\ Roll(m).pnl = pnl /\ Roll(m).opening = opening
        /\ Roll(m).needsOpening = m.needsOpening
    <3> HIDE DEF opening, anchor, pnl
    <3> QED BY <2>1 DEF Memory
  <2> QED BY <1>2, <2>2
<1> QED BY <1>1, <1>2

(* A step that neither trades nor touches the fields of the monitor.       *)
LEMMA AloneBooks ==
  ASSUME DayInv, UNCHANGED <<pool, mem, dayVars, closing, closeQ, balance, day, skewed>>,
         phase' = "running" <=> phase = "running"
  PROVE  DayInv'
<1>1. UNCHANGED <<log, made, unlogged, uncounted>>
  BY DEF dayVars
<1>2. LogInv' /\ CloseInv'
  BY <1>1 DEF DayInv, LogInv, CloseInv
<1>3. OpenInv'
  BY <1>1 DEF DayInv, OpenInv, Booked
<1> QED BY <1>2, <1>3 DEF DayInv

LEMMA StartBooks ==
  ASSUME IInv, DayInv, StartStep
  PROVE  DayInv'
<1>0. main.pc # "idle" => phase = "starting"
  BY DEF IInv, StartInv
<1>1. CASE Start
  BY <1>1, AloneBooks DEF Start, envVars, pastVars, dayVars
<1>2. CASE ReplayAnswered \/ PositionsAnswered \/ JobRuns \/ JobAnswered
  BY <1>2, AloneBooks DEF ReplayAnswered, PositionsAnswered, JobRuns, JobAnswered, envVars,
                          pastVars, dayVars
<1>3. CASE Rehydrate
  <2>1. mem \in Memory /\ day \in 1..MaxDays /\ None # day
    BY RiskAssumption DEF IInv, TypeOK
  <2>2. /\ phase' = "running" /\ phase = "starting"
        /\ UNCHANGED <<pool, log, made, unlogged, skewed, day, balance, closing, closeQ>>
    BY <1>0, <1>3 DEF Rehydrate, envVars
  <2>3. CloseInv'
    BY <2>2 DEF DayInv, CloseInv
  <2>4. \/ /\ mem'.pnl = log[day] /\ mem'.anchor = day /\ mem'.needsOpening
           /\ uncounted' = IF mem'.pnl = made[day] THEN uncounted \ {day}
                           ELSE uncounted \cup (unlogged \cap {day})
        \/ /\ mem' = mem
           /\ uncounted' = IF mem'.pnl = made[day] THEN uncounted \ {day}
                           ELSE uncounted \cup {day}
    BY <1>3, <2>1 DEF Rehydrate, Rehydrated, RehydratedWithoutRow, Memory
  <2>5. /\ day \notin unlogged => log[day] = made[day]
        /\ mem.pnl = 0 /\ ~mem.needsOpening
    BY <2>1, <2>2 DEF DayInv, LogInv
  <2>6. day \notin uncounted' => mem'.pnl = made[day]
    BY <2>4, <2>5
  <2>7. mem' = mem \/ (mem'.anchor = day /\ mem'.needsOpening)
    BY <2>4
  <2>8. \A d \in 1..MaxDays : d > day => d \notin uncounted'
    <3>1. \A d \in 1..MaxDays : d > day => d \notin uncounted /\ d # day
      BY <2>1 DEF DayInv, LogInv
    <3> QED BY <2>4, <3>1
  <2>9. day \notin uncounted' => IF mem'.anchor = day THEN mem'.pnl = made[day] ELSE made[day] = 0
    BY <2>5, <2>6, <2>7
  <2>10. LogInv'
    BY <2>1, <2>2, <2>5, <2>7, <2>8, <2>9 DEF DayInv, LogInv
  <2>11. OpenInv'
    <3> SUFFICES ASSUME Len(pool) = 1, mem'.anchor = day, ~mem'.needsOpening, ~skewed,
                        day \notin uncounted'
                 PROVE  mem'.opening = Booked(pool[1]) - made[day]
      BY <2>2 DEF OpenInv, Booked
    <3>1. mem' = mem /\ made[day] = 0
      BY <2>5, <2>6, <2>7
    <3>2. mem.opening = Booked(pool[1])
      BY <2>2, <3>1 DEF DayInv, OpenInv
    <3>3. mem.opening \in Int
      BY <2>1 DEF Memory
    <3> QED BY <3>1, <3>2, <3>3
  <2> QED BY <2>3, <2>10, <2>11 DEF DayInv
<1> QED BY <1>1, <1>2, <1>3 DEF StartStep

(* The account that was to be snapshot next is the only one.               *)
LEMMA OutsideBooks ==
  ASSUME IInv, DayInv, OutsideStep
  PROVE  DayInv'
<1>0. /\ balance \in [Accounts -> Int] /\ closing \in Int \cup {None} /\ closeQ \in Seq(Int)
      /\ day \in 1..MaxDays /\ mem \in Memory /\ None \notin Int
      /\ pool[1] \in Accounts
  <2>1. pool[1] \in Accounts
    BY PoolOK DEF IInv
  <2> QED BY <2>1, RiskAssumption DEF IInv, TypeOK
<1>1. ASSUME NEW a \in Managed, NEW r \in Results, BrokerCloses(a, r) PROVE DayInv'
  <2>1. /\ phase = "running" /\ closing = None /\ closing' = r
        /\ balance' = [balance EXCEPT ![a] = balance[a] + r]
        /\ UNCHANGED <<pool, mem, log, made, unlogged, uncounted, phase, closeQ, day, skewed>>
    BY <1>1 DEF BrokerCloses, startVars, pastVars
  <2>2. LogInv' /\ CloseInv'
    BY <2>1 DEF DayInv, LogInv, CloseInv
  <2>3. Len(pool) = 1 => a = pool[1]
    BY PoolOK DEF IInv, Managed
  <2>4. r \in Int
    BY RiskAssumption
  <2>5. Len(pool) = 1 => Booked(pool[1])' = Booked(pool[1])
    <3> SUFFICES ASSUME Len(pool) = 1 PROVE Booked(pool[1])' = Booked(pool[1])
      OBVIOUS
    <3> DEFINE h == IF closeQ = <<>> THEN 0 ELSE Head(closeQ)
               b == balance[pool[1]]
    <3>1. h \in Int /\ b \in Int /\ r # None
      BY <1>0, <2>4
    <3>2. balance'[pool[1]] = b + r /\ pool' = pool
      BY <1>0, <2>1, <2>3
    <3>3. Booked(pool[1]) = b - 0 - h
      BY <2>1 DEF Booked
    <3>4. Booked(pool[1])' = (b + r) - r - h
      BY <2>1, <3>1, <3>2 DEF Booked
    <3> HIDE DEF h, b
    <3> QED BY <2>4, <3>1, <3>3, <3>4
  <2>6. OpenInv'
    BY <2>1, <2>5 DEF DayInv, OpenInv
  <2> QED BY <2>2, <2>6 DEF DayInv
<1>2. CASE CloseReplies
  <2>1. /\ closing # None /\ closeQ = <<>> /\ closing' = None /\ closeQ' = <<closing>>
        /\ UNCHANGED <<pool, mem, log, made, unlogged, uncounted, phase, balance, day, skewed>>
    BY <1>2 DEF CloseReplies, startVars, envVars, pastVars
  <2>2. LogInv' /\ CloseInv'
    BY <2>1 DEF DayInv, LogInv, CloseInv
  <2>3. Booked(pool[1])' = Booked(pool[1])
    BY <1>0, <2>1 DEF Booked
  <2>4. OpenInv'
    BY <2>1, <2>3 DEF DayInv, OpenInv
  <2> QED BY <2>2, <2>4 DEF DayInv
<1>3. ASSUME NEW a \in Managed, NEW e \in Levels, MarketMoves(a, e) PROVE DayInv'
  BY <1>3, AloneBooks DEF MarketMoves, startVars, pastVars, dayVars
<1>4. CASE DayPasses
  <2>1. /\ day' = day + 1 /\ day' \in 1..MaxDays
        /\ UNCHANGED <<mem, log, made, unlogged, uncounted, phase, closing, closeQ>>
    BY <1>0, <1>4, RiskAssumption DEF DayPasses, startVars, pastVars
  <2>2. mem.anchor # None => mem.anchor \in Int
    BY <1>0 DEF Memory
  <2>3. mem.anchor # day' /\ (mem.anchor # None => mem.anchor <= day')
    BY <1>0, <2>1, <2>2 DEF DayInv, LogInv
  <2>4. made[day'] = 0 /\ \A d \in 1..MaxDays : d > day' => d > day
    BY <1>0, <2>1 DEF DayInv, LogInv
  <2>5. LogInv'
    BY <2>1, <2>3, <2>4 DEF DayInv, LogInv
  <2>6. CloseInv' /\ OpenInv'
    BY <2>1, <2>3 DEF DayInv, CloseInv, OpenInv
  <2> QED BY <2>5, <2>6 DEF DayInv
<1>5. CASE Stop
  <2>1. /\ mem' = Fresh /\ phase' = "down" /\ closing' = None /\ closeQ' = <<>>
        /\ UNCHANGED <<log, made, unlogged, uncounted, day>>
    BY <1>5 DEF Stop
  <2>2. mem'.anchor = None /\ mem'.pnl = 0 /\ ~mem'.needsOpening /\ None # day
    BY <1>0, <2>1 DEF Fresh
  <2>3. LogInv'
    BY <2>1, <2>2 DEF DayInv, LogInv
  <2>4. CloseInv' /\ OpenInv'
    BY <2>1, <2>2 DEF CloseInv, OpenInv
  <2> QED BY <2>3, <2>4 DEF DayInv
<1> QED BY <1>1, <1>2, <1>3, <1>4, <1>5 DEF OutsideStep

LEMMA BookedIsInt ==
  ASSUME TypeOK
  PROVE  Booked(pool[1]) \in Int
<1>1. /\ balance[pool[1]] \in Int /\ closing \in Int \cup {None} /\ closeQ \in Seq(Int)
  BY PoolOK DEF TypeOK
<1>2. closeQ # <<>> => Head(closeQ) \in Int
  BY <1>1
<1> QED BY <1>1, <1>2 DEF Booked

LEMMA SnapshotStepBooks ==
  ASSUME IInv, DayInv, OnSnapshot
  PROVE  DayInv'
<1>1. /\ mem \in Memory /\ Head(snapQ) \in Snapshots /\ day \in 1..MaxDays /\ None # day
      /\ mem' = Snapshot(mem, Head(snapQ)) /\ skewed' = SnapshotSkews(Head(snapQ))
      /\ UNCHANGED <<pool, log, made, unlogged, uncounted, phase, closing, closeQ, balance, day>>
  <2>1. mem \in Memory /\ Head(snapQ) \in Snapshots /\ day \in 1..MaxDays
    BY HeadSnapshot DEF IInv, TypeOK, OnSnapshot
  <2>2. None # day
    BY <2>1, RiskAssumption
  <2>3. UNCHANGED <<pool, log, made, unlogged, uncounted, phase, closing, closeQ, balance, day>>
    BY DEF OnSnapshot, startVars, envVars
  <2> QED BY <2>1, <2>2, <2>3 DEF OnSnapshot
<1> DEFINE s == Head(snapQ)
<1>2. /\ mem'.pnl = mem.pnl
      /\ mem'.needsOpening = (mem.needsOpening /\ mem.anchor = None)
      /\ mem'.anchor = IF mem.anchor = None THEN day ELSE mem.anchor
      /\ mem'.opening = IF mem.anchor = None THEN s.balance
                        ELSE IF mem.needsOpening THEN s.balance - mem.pnl ELSE mem.opening
  BY <1>1, SnapshotBooks
<1>3. LogInv'
  <2>1. /\ mem'.anchor # None => mem'.anchor <= day
        /\ mem'.anchor # None
    BY <1>1, <1>2 DEF DayInv, LogInv
  <2>2. phase = "running" /\ day \notin uncounted =>
          IF mem'.anchor = day THEN mem'.pnl = made[day] ELSE made[day] = 0
    BY <1>1, <1>2 DEF DayInv, LogInv
  <2>3. phase # "running" => mem'.pnl = 0 /\ ~mem'.needsOpening
    BY <1>2 DEF DayInv, LogInv
  <2> QED BY <1>1, <2>1, <2>2, <2>3 DEF DayInv, LogInv
<1>4. CloseInv'
  BY <1>1 DEF DayInv, CloseInv
<1>5. OpenInv'
  <2> DEFINE sofar == IF phase = "running" THEN made[day] ELSE 0
  <2> SUFFICES ASSUME Len(pool) = 1, mem'.anchor = day, ~mem'.needsOpening, ~skewed',
                      phase = "running" => day \notin uncounted
               PROVE  mem'.opening = Booked(pool[1]) - sofar
    <3>1. Booked(pool[1]) \in Int
      BY BookedIsInt DEF IInv
    <3>2. Booked(pool[1])' = Booked(pool[1])
      BY <1>1 DEF Booked
    <3> QED BY <1>1, <3>1, <3>2 DEF OpenInv
  <2>1. Booked(pool[1]) \in Int
    BY BookedIsInt DEF IInv
  <2>2. mem.anchor = None => mem.pnl = 0 /\ sofar = 0
    BY <1>1 DEF DayInv, LogInv
  <2>3. mem.anchor = day => mem.pnl = sofar
    BY DEF DayInv, LogInv
  <2>4. CASE mem.anchor = None
    <3>1. s.balance = Booked(pool[1])
      BY <1>1, <2>4 DEF SnapshotSkews
    <3> HIDE DEF s, sofar
    <3> QED BY <1>2, <2>1, <2>2, <2>4, <3>1
  <2>5. CASE mem.anchor # None /\ mem.needsOpening
    <3>1. s.balance = Booked(pool[1])
      BY <1>1, <2>5 DEF SnapshotSkews
    <3> HIDE DEF s, sofar
    <3> QED BY <1>2, <2>3, <2>5, <3>1
  <2>6. CASE mem.anchor # None /\ ~mem.needsOpening
    <3>1. ~skewed /\ mem.anchor = day /\ mem'.opening = mem.opening
      BY <1>1, <1>2, <2>6 DEF SnapshotSkews
    <3> QED BY <2>1, <2>6, <3>1 DEF DayInv, OpenInv
  <2> QED BY <2>4, <2>5, <2>6
<1> QED BY <1>3, <1>4, <1>5 DEF DayInv

(* The first use of the P&L on a new day, before a close of it is added.   *)
LEMMA RolledBooks ==
  ASSUME IInv, DayInv, phase = "running"
  PROVE  /\ Roll(mem).anchor = day
         /\ day \notin uncounted => Roll(mem).pnl = made[day]
         /\ (Len(pool) = 1 /\ ~Roll(mem).needsOpening /\ ~RollSkews /\ day \notin uncounted) =>
              Roll(mem).opening = Booked(pool[1]) - made[day]
<1>0. mem \in Memory /\ day \in 1..MaxDays
  BY DEF IInv, TypeOK
<1>1. CASE mem.anchor = day
  BY <1>0, <1>1, RollBooks DEF DayInv, LogInv, OpenInv, RollSkews
<1>2. CASE mem.anchor # day
  <2>1. day \notin uncounted => made[day] = 0
    BY <1>0, <1>2 DEF DayInv, LogInv
  <2>2. Roll(mem).pnl = 0 /\ Roll(mem).anchor = day
    BY <1>0, <1>2, RollBooks
  <2>3. ASSUME ~RollSkews PROVE Roll(mem).opening = Booked(pool[1])
    <3>1. mem.balance = Booked(pool[1])
      BY <1>2, <2>3 DEF RollSkews
    <3>2. Booked(pool[1]) \in Int
      BY BookedIsInt DEF IInv
    <3>3. mem.balance # None
      BY <3>1, <3>2, RiskAssumption
    <3>4. Roll(mem).opening = mem.balance
      BY <1>0, <1>2, <3>3, RollBooks
    <3> QED BY <3>1, <3>4
  <2>4. Booked(pool[1]) \in Int
    BY BookedIsInt DEF IInv
  <2> QED BY <2>1, <2>2, <2>3, <2>4
<1> QED BY <1>1, <1>2

LEMMA MonitorBooks ==
  ASSUME IInv, DayInv, MonitorStep
  PROVE  DayInv'
<1>0. /\ mem \in Memory /\ day \in 1..MaxDays /\ None \notin Int /\ Roll(mem) \in Memory
      /\ log \in [1..MaxDays -> Int] /\ made \in [1..MaxDays -> Int]
  BY RollIs, RiskAssumption DEF IInv, TypeOK
<1>1. CASE OnSnapshot
  BY <1>1, SnapshotStepBooks
<1>2. CASE OnClosed
  <2> DEFINE h == Head(closeQ)
             m == Roll(mem)
  <2>1. /\ mem' = [m EXCEPT !.pnl = m.pnl + h]
        /\ made' = [made EXCEPT ![day] = made[day] + h]
        /\ closeQ # <<>> /\ closeQ' = Tail(closeQ) /\ skewed' = RollSkews
        /\ UNCHANGED <<pool, phase, closing, balance, day, uncounted>>
    BY <1>2 DEF OnClosed, startVars, envVars
  <2>2. phase = "running"
    BY <2>1 DEF DayInv, CloseInv
  <2>3. h \in Int /\ closeQ' = <<>>
    <3>1. closeQ \in Seq(Int) /\ Len(closeQ) <= 1
      BY DEF IInv, TypeOK, DayInv, CloseInv
    <3> QED BY <2>1, <3>1
  <2>4. /\ m.anchor = day
        /\ day \notin uncounted => m.pnl = made[day]
        /\ (Len(pool) = 1 /\ ~m.needsOpening /\ ~RollSkews /\ day \notin uncounted) =>
             m.opening = Booked(pool[1]) - made[day]
    BY <2>2, RolledBooks
  <2>5. /\ mem'.pnl = m.pnl + h /\ mem'.anchor = m.anchor
        /\ mem'.needsOpening = m.needsOpening /\ mem'.opening = m.opening
    <3>1. m \in Memory
      BY <1>0
    <3> HIDE DEF m, h
    <3> QED BY <2>1, <3>1 DEF Memory
  <2>6. /\ made'[day] = made[day] + h /\ made[day] \in Int
        /\ \A d \in 1..MaxDays : d # day => made'[d] = made[d]
    <3> HIDE DEF m, h
    <3>1. made' = [made EXCEPT ![day] = made[day] + h]
      BY <2>1
    <3> QED BY ONLY <1>0, <3>1
  <2>7. \/ log' = [log EXCEPT ![day] = log[day] + h] /\ unlogged' = unlogged
        \/ log' = log /\ unlogged' = unlogged \cup {day}
    BY <1>2 DEF OnClosed
  <2> HIDE DEF m, h
  <2>8. \A d \in 1..MaxDays : d \notin unlogged' => log'[d] = made'[d]
    <3> SUFFICES ASSUME NEW d \in 1..MaxDays, d \notin unlogged' PROVE log'[d] = made'[d]
      OBVIOUS
    <3>1. log[d] = made[d]
      BY <2>7 DEF DayInv, LogInv
    <3>2. CASE d = day
      <4>1. log' = [log EXCEPT ![day] = log[day] + h]
        BY <2>7, <3>2
      <4> QED BY <1>0, <2>6, <3>1, <3>2, <4>1
    <3>3. CASE d # day
      <4>1. log'[d] = log[d]
        BY <1>0, <2>7, <3>3
      <4> QED BY <2>6, <3>1, <3>3, <4>1
    <3> QED BY <3>2, <3>3
  <2>9. LogInv'
    <3>1. mem'.anchor = day /\ (day \notin uncounted => mem'.pnl = made'[day])
      BY <2>4, <2>5, <2>6
    <3>2. \A d \in 1..MaxDays : d > day => made'[d] = 0 /\ d \notin unlogged' /\ d \notin uncounted
      <4> SUFFICES ASSUME NEW d \in 1..MaxDays, d > day
                   PROVE  made'[d] = 0 /\ d \notin unlogged' /\ d \notin uncounted
        OBVIOUS
      <4>1. d # day /\ made[d] = 0 /\ d \notin unlogged /\ d \notin uncounted
        BY <1>0 DEF DayInv, LogInv
      <4> QED BY <2>6, <2>7, <4>1
    <3>3. None # day
      BY <1>0
    <3> QED BY <1>0, <2>1, <2>2, <2>8, <3>1, <3>2, <3>3 DEF LogInv
  <2>10. CloseInv'
    <3>1. phase' = "running" /\ closeQ' = <<>>
      BY <2>1, <2>2, <2>3
    <3> QED BY ONLY <3>1 DEF CloseInv
  <2>11. Booked(pool[1])' = Booked(pool[1]) + h
    <3>1. balance[pool[1]] \in Int /\ closing \in Int \cup {None}
      BY PoolOK DEF IInv, TypeOK
    <3> QED BY <1>0, <2>1, <2>3, <3>1 DEF Booked, h
  <2>12. Booked(pool[1]) \in Int
    BY BookedIsInt DEF IInv
  <2>13. OpenInv'
    <3> SUFFICES ASSUME Len(pool) = 1, ~mem'.needsOpening, ~skewed', day \notin uncounted
                 PROVE  mem'.opening = (Booked(pool[1]) + h) - (made[day] + h)
      BY <2>1, <2>2, <2>6, <2>11 DEF OpenInv
    <3>1. m.opening = Booked(pool[1]) - made[day]
      BY <2>1, <2>4, <2>5
    <3> QED BY <2>3, <2>5, <2>6, <2>12, <3>1
  <2> QED BY <2>9, <2>10, <2>13 DEF DayInv
<1>3. CASE CheckSignal
  <2>1. /\ mem' = Roll(mem) /\ skewed' = RollSkews /\ phase = "running"
        /\ UNCHANGED <<pool, log, made, unlogged, uncounted, phase, closing, closeQ, balance, day>>
    BY <1>3 DEF CheckSignal, startVars, envVars
  <2>2. /\ mem'.anchor = day /\ (day \notin uncounted => mem'.pnl = made[day]) /\ None # day
    BY <1>0, <2>1, RolledBooks
  <2>3. LogInv'
    BY <1>0, <2>1, <2>2 DEF DayInv, LogInv
  <2>4. CloseInv' /\ OpenInv'
    BY <2>1, RolledBooks DEF DayInv, CloseInv, OpenInv, Booked
  <2> QED BY <2>3, <2>4 DEF DayInv
<1>4. CASE ResetKillSwitch \/ ResetProfitLock
  <2>1. /\ mem' = KillReset(mem) \/ mem' = LockReset(mem)
        /\ UNCHANGED <<pool, log, made, unlogged, uncounted, phase, closing, closeQ, balance, day,
                       skewed>>
    BY <1>4 DEF ResetKillSwitch, ResetProfitLock, startVars, envVars
  <2>2. /\ mem'.anchor = mem.anchor /\ mem'.pnl = mem.pnl
        /\ mem'.opening = mem.opening /\ mem'.needsOpening = mem.needsOpening
    BY <1>0, <2>1 DEF KillReset, LockReset, Memory
  <2>3. LogInv' /\ CloseInv'
    BY <2>1, <2>2 DEF DayInv, LogInv, CloseInv
  <2>4. OpenInv'
    BY <2>1, <2>2 DEF DayInv, OpenInv, Booked
  <2> QED BY <2>3, <2>4 DEF DayInv
<1> QED BY <1>1, <1>2, <1>3, <1>4 DEF MonitorStep

LEMMA DayInductive == Spec => []DayInv
<1>1. Init => DayInv
  <2> SUFFICES ASSUME Init PROVE DayInv
    OBVIOUS
  <2>1. /\ mem.anchor = None /\ mem.pnl = 0 /\ ~mem.needsOpening
        /\ phase = "down" /\ closeQ = <<>> /\ closing = None
        /\ unlogged = {} /\ uncounted = {} /\ day = 1
    BY DEF Init, Fresh
  <2>2. \A d \in 1..MaxDays : log[d] = 0 /\ made[d] = 0
    BY DEF Init
  <2>3. None # day
    BY <2>1, RiskAssumption
  <2> QED BY <2>1, <2>2, <2>3 DEF DayInv, LogInv, CloseInv, OpenInv
<1>2. IInv /\ DayInv /\ [Next]_vars => DayInv'
  <2>1. ASSUME DayInv, UNCHANGED vars PROVE DayInv'
    BY <2>1, AloneBooks DEF vars, pastVars, dayVars
  <2> QED BY <2>1, NextIs, StartBooks, MonitorBooks, OutsideBooks
<1> QED BY <1>1, <1>2, Inductive, PTL DEF Spec

(* The P&L that the loss limit is measured with is that of the closes      *)
(* handled on the day, after restarts, at midnight and with closes under   *)
(* way, and with the limit lost check_signal() refuses every signal (risk/ *)
(* monitor.py:277-307, 402-409, 446-480; runtime.py:425-441), unless the   *)
(* opening balance was taken out of step, or a start did not learn of all  *)
(* the closes of the day.                                                  *)
THEOREM DayLossTrips == Spec => []DayLossGuarded
<1>1. IInv /\ DayInv => DayLossGuarded
  <2> SUFFICES ASSUME IInv, DayInv PROVE DayLossGuarded
    OBVIOUS
  <2>1. DayPnlCounted
    BY RolledBooks DEF DayPnlCounted
  <2>2. LossLimitHolds
    <3> DEFINE opened == Booked(pool[1]) - made[day]
    <3> SUFFICES ASSUME Len(pool) = 1, phase = "running", day \notin uncounted,
                        ~mem.needsOpening, ~skewed,
                        LossPct > 0, opened > 0, -made[day] * 100 >= LossPct * opened
                 PROVE  ~Allows(mem)
      BY DEF LossLimitHolds
    <3>0. /\ mem \in Memory /\ day \in 1..MaxDays /\ made[day] \in Int
      BY DEF IInv, TypeOK
    <3>1. LossPct \in Int
      <4>1. {KillPct, LossPct} \subseteq 0..100
        BY RiskAssumption
      <4> QED BY <4>1
    <3>2. opened \in Int
      BY <3>0, BookedIsInt DEF IInv
    <3>3. Roll(mem).pnl = made[day]
      BY RolledBooks
    <3>4. CASE mem.anchor = day
      <4>1. Roll(mem).opening = opened
        BY <3>0, <3>4, RollBooks DEF DayInv, OpenInv
      <4>2. ~(-Roll(mem).pnl * 100 < LossPct * Roll(mem).opening)
        <5> HIDE DEF opened
        <5> QED BY <3>0, <3>1, <3>2, <3>3, <4>1
      <4> QED BY <4>1, <4>2 DEF Allows
    <3>5. CASE mem.anchor # day
      <4>1. made[day] = 0
        BY <3>0, <3>5 DEF DayInv, LogInv
      <4> HIDE DEF opened
      <4>2. LossPct * opened > 0
        BY <3>1, <3>2
      <4>3. -made[day] * 100 = 0 /\ LossPct * opened \in Int
        BY <3>1, <3>2, <4>1
      <4> QED BY <4>2, <4>3
    <3> QED BY <3>4, <3>5
  <2> QED BY <2>1, <2>2 DEF DayLossGuarded
<1> QED BY <1>1, Inductive, DayInductive, PTL
===============================================================================
