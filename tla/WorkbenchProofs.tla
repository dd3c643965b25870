--------------------------- MODULE WorkbenchProofs ---------------------------
(***************************************************************************)
(* Proofs about what is around the live engine.                            *)
(***************************************************************************)
EXTENDS Workbench, SequenceTheorems, FiniteSetTheorems, NaturalsInduction, WellFoundedInduction,
        TLAPS

-----------------------------------------------------------------------------
(* The backtest of the web UI.                                             *)

(* A stop request waits for the one run there was when it was made.        *)
WaitInv ==
  ~crossed => \A c \in Stops : stopping[c] # NoRun => RunsUnderWay \subseteq {stopping[c]}

(* What is on the bus belongs to a run that is under way.                  *)
BusInv ==
  ~littered => /\ \A r \in runnersOn : run[r] = "replaying"
               /\ \A r \in routersOn : run[r] \in {"replaying", "detaching"}

BacktestInv == BacktestTypeOK /\ OneRun /\ WaitInv /\ BusInv /\ ReportIsOwn

(* A run that changes its state ends, or goes on.                          *)
LEMMA RunGoesOn ==
  ASSUME BacktestInv, NEW r \in BtRuns, NEW s \in RunStates \ {"unborn"},
         run[r] \notin Over \cup {"unborn"}, run' = [run EXCEPT ![r] = s],
         UNCHANGED <<task, stopping, crossed>>
  PROVE  OneRun' /\ WaitInv'
<1>1. RunsUnderWay' \subseteq RunsUnderWay
  BY DEF RunsUnderWay, BacktestInv, BacktestTypeOK
<1> QED BY <1>1 DEF BacktestInv, OneRun, WaitInv

LEMMA BacktestSteps ==
  ASSUME BacktestInv, BacktestNext
  PROVE  BacktestInv'
<1> USE DEF BacktestInv
<1>0. NoRun \notin BtRuns
  BY LiveBacktestAssumption
<1>1. ASSUME NEW r \in BtRuns, Start(r) PROVE BacktestInv'
  <2>1. BacktestTypeOK'
    BY <1>1 DEF Start, BacktestTypeOK, RunStates
  <2>2. /\ task' = r /\ run[r] = "unborn"
        /\ run' = [run EXCEPT ![r] = "created"]
        /\ UNCHANGED <<runnersOn, routersOn, trades, stopping, littered>>
    BY <1>1 DEF Start
  <2>3. ~crossed' => ~crossed /\ \A c \in Stops : stopping[c] = NoRun
    BY <1>1 DEF Start
  <2>4. ~crossed => RunsUnderWay = {}
    BY <1>0, <1>1 DEF Start, IsRunning, OneRun, RunsUnderWay, BacktestTypeOK
  <2>5. ~crossed' => RunsUnderWay' \subseteq {r}
    BY <2>2, <2>3, <2>4 DEF RunsUnderWay, BacktestTypeOK
  <2>6. OneRun' /\ WaitInv'
    BY <2>2, <2>3, <2>5 DEF OneRun, WaitInv
  <2>7. BusInv'
    BY <2>2 DEF BusInv, BacktestTypeOK
  <2>8. ReportIsOwn'
    BY <2>2, <2>3 DEF ReportIsOwn
  <2> QED BY <2>1, <2>6, <2>7, <2>8
<1>2. ASSUME NEW r \in BtRuns, Attach(r) PROVE BacktestInv'
  <2>1. BacktestTypeOK'
    BY <1>2 DEF Attach, BacktestTypeOK, RunStates
  <2>2. OneRun' /\ WaitInv'
    BY <1>2, RunGoesOn DEF Attach, RunStates, Over
  <2>3. BusInv' /\ ReportIsOwn'
    BY <1>2 DEF Attach, BusInv, ReportIsOwn, BacktestTypeOK
  <2> QED BY <2>1, <2>2, <2>3
<1>3. ASSUME NEW r \in BtRuns, ReplayEvent(r) PROVE BacktestInv'
  <2>1. PICK origin \in runnersOn :
          trades' = [k \in BtRuns |-> IF k \in routersOn THEN trades[k] \cup {origin} ELSE trades[k]]
    BY <1>3 DEF ReplayEvent
  <2>2. UNCHANGED <<task, run, runnersOn, routersOn, stopping, littered, crossed>>
    BY <1>3 DEF ReplayEvent
  <2>3. BacktestTypeOK'
    BY <2>1, <2>2 DEF BacktestTypeOK
  <2>4. OneRun' /\ WaitInv' /\ BusInv'
    BY <2>2 DEF OneRun, WaitInv, BusInv, RunsUnderWay
  <2>5. ASSUME ~littered, ~crossed, NEW k \in routersOn PROVE origin = k
    <3>1. {k, origin} \subseteq RunsUnderWay
      BY <2>5 DEF BusInv, RunsUnderWay, BacktestTypeOK, Over
    <3> QED BY <2>5, <3>1 DEF OneRun
  <2>6. ReportIsOwn'
    BY <2>1, <2>2, <2>5 DEF ReportIsOwn, BacktestTypeOK
  <2> QED BY <2>3, <2>4, <2>6
<1>4. ASSUME NEW r \in BtRuns, StopRunner(r) PROVE BacktestInv'
  <2>1. BacktestTypeOK'
    BY <1>4 DEF StopRunner, BacktestTypeOK, RunStates
  <2>2. OneRun' /\ WaitInv'
    BY <1>4, RunGoesOn DEF StopRunner, RunStates, Over
  <2>3. BusInv' /\ ReportIsOwn'
    BY <1>4 DEF StopRunner, BusInv, ReportIsOwn, BacktestTypeOK
  <2> QED BY <2>1, <2>2, <2>3
<1>5. ASSUME NEW r \in BtRuns, Finish(r) PROVE BacktestInv'
  <2>0. PICK over \in {"done", "failed"} : run' = [run EXCEPT ![r] = over]
    BY <1>5 DEF Finish
  <2>1. BacktestTypeOK'
    BY <1>5, <2>0 DEF Finish, BacktestTypeOK, RunStates, Over
  <2>2. OneRun' /\ WaitInv'
    BY <1>5, <2>0, RunGoesOn DEF Finish, RunStates, Over
  <2>3. BusInv' /\ ReportIsOwn'
    BY <1>5, <2>0 DEF Finish, BusInv, ReportIsOwn, BacktestTypeOK
  <2> QED BY <2>1, <2>2, <2>3
<1>6. ASSUME NEW r \in BtRuns, Fail(r) \/ Cancelled(r) PROVE BacktestInv'
  <2>0. PICK over \in {"failed", "cancelled"} : run' = [run EXCEPT ![r] = over]
    BY <1>6 DEF Fail, Cancelled
  <2>1. /\ run[r] \in {"created", "replaying", "detaching"}
        /\ littered' = (littered \/ r \in runnersOn \cup routersOn)
        /\ UNCHANGED <<task, runnersOn, routersOn, trades, stopping, crossed>>
    BY <1>6 DEF Fail, Cancelled
  <2>2. BacktestTypeOK'
    BY <2>0, <2>1 DEF BacktestTypeOK, RunStates, Over
  <2>3. OneRun' /\ WaitInv'
    BY <2>0, <2>1, RunGoesOn DEF RunStates, Over
  <2>4. BusInv' /\ ReportIsOwn'
    BY <2>0, <2>1 DEF BusInv, ReportIsOwn, BacktestTypeOK
  <2> QED BY <2>2, <2>3, <2>4
<1>7. ASSUME NEW c \in Stops, Forget(c) PROVE BacktestInv'
  <2>1. /\ task' = NoRun /\ ~IsRunning /\ task # NoRun
        /\ UNCHANGED <<run, runnersOn, routersOn, trades, stopping, littered, crossed>>
    BY <1>7 DEF Forget
  <2>2. ~crossed => RunsUnderWay = {}
    BY <2>1 DEF IsRunning, OneRun, RunsUnderWay
  <2>3. BacktestTypeOK' /\ OneRun' /\ WaitInv'
    BY <2>1, <2>2 DEF BacktestTypeOK, OneRun, WaitInv, RunsUnderWay
  <2>4. BusInv' /\ ReportIsOwn'
    BY <2>1 DEF BusInv, ReportIsOwn
  <2> QED BY <2>3, <2>4
<1>8. ASSUME NEW c \in Stops, StopRun(c) PROVE BacktestInv'
  <2>1. /\ stopping' = [stopping EXCEPT ![c] = task]
        /\ UNCHANGED <<task, run, runnersOn, routersOn, trades, littered, crossed>>
    BY <1>8 DEF StopRun
  <2>2. BacktestTypeOK' /\ OneRun' /\ BusInv' /\ ReportIsOwn'
    BY <2>1 DEF BacktestTypeOK, OneRun, BusInv, ReportIsOwn, RunsUnderWay
  <2>3. WaitInv'
    BY <2>1 DEF WaitInv, OneRun, RunsUnderWay, BacktestTypeOK
  <2> QED BY <2>2, <2>3
<1>9. ASSUME NEW c \in Stops, StopReturns(c) PROVE BacktestInv'
  <2>1. /\ stopping[c] # NoRun /\ run[stopping[c]] \in Over /\ task' = NoRun
        /\ stopping' = [stopping EXCEPT ![c] = NoRun]
        /\ UNCHANGED <<run, runnersOn, routersOn, trades, littered, crossed>>
    BY <1>9 DEF StopReturns
  <2>2. ~crossed => RunsUnderWay = {}
    BY <2>1 DEF WaitInv, RunsUnderWay
  <2>3. BacktestTypeOK' /\ OneRun' /\ WaitInv'
    BY <2>1, <2>2 DEF BacktestTypeOK, OneRun, WaitInv, RunsUnderWay
  <2>4. BusInv' /\ ReportIsOwn'
    BY <2>1 DEF BusInv, ReportIsOwn
  <2> QED BY <2>3, <2>4
<1> QED BY <1>1, <1>2, <1>3, <1>4, <1>5, <1>6, <1>7, <1>8, <1>9 DEF BacktestNext

(* The controller of the web UI has one run at a time, the one it can      *)
(* stop, and a report has the trades of its own strategy                   *)
(* (ui/web/live_backtest.py), for any number of runs and of stop requests. *)
THEOREM OneBacktest == Spec => []BacktestSound
<1>1. Init => BacktestInv
  <2>1. BacktestInit => BacktestInv
    BY DEF BacktestInit, BacktestInv, BacktestTypeOK, OneRun, WaitInv, BusInv, ReportIsOwn,
           RunsUnderWay, RunStates
  <2> QED BY <2>1 DEF Init
<1>2. BacktestInv /\ [Next]_vars => BacktestInv'
  <2>1. ASSUME BacktestInv, UNCHANGED backtestVars PROVE BacktestInv'
    BY <2>1 DEF backtestVars, BacktestInv, BacktestTypeOK, OneRun, WaitInv, BusInv, ReportIsOwn,
           RunsUnderWay
  <2>2. [Next]_vars => BacktestNext \/ UNCHANGED backtestVars
    BY DEF Next, vars, Is, SameBut
  <2> QED BY <2>1, <2>2, BacktestSteps
<1>3. BacktestInv => BacktestSound
  BY DEF BacktestInv, BacktestSound
<1> QED BY <1>1, <1>2, <1>3, PTL DEF Spec
-----------------------------------------------------------------------------
(* The processes of the engine.                                            *)

CommandStates ==
  {"idle", "cleared", "spawned", "writing", "asking", "waiting", "grace", "unlinking"} \cup Ended

OneByOne == ~overlapped /\ ~abandoned

(* A detached engine that runs is the one the pid file names, ...          *)
NamedInFile == \A p \in detached : engine[p] \in Running => file = p

(* ... and none runs.                                                      *)
NoneDetached == \A p \in detached : engine[p] \notin Running

(* The processes there are, and where they come from.                      *)
ProcessInv ==
  /\ cmd \in [Commands -> [at : CommandStates, pid : Pids \cup {NoPid}]]
  /\ \A p \in detached : engine[p] # "unborn"
  /\ ~foreign => \A p \in Pids : engine[p] # "unborn" => p \in detached
  /\ ~reused => \A p \in Pids : engine[p] # "other"

(* A command knows what the pid file says and which engines run.           *)
KnowsFile(c) ==
  CASE cmd[c].at = "cleared" -> NoneDetached
    [] cmd[c].at \in {"spawned", "writing"} ->
         cmd[c].pid \in Pids /\ \A p \in detached : engine[p] \in Running => p = cmd[c].pid
    [] cmd[c].at \in {"asking", "waiting", "grace"} ->
         cmd[c].pid \in Pids /\ file = cmd[c].pid /\ NamedInFile
    [] cmd[c].at = "unlinking" -> NoneDetached
    [] OTHER -> TRUE

CommandInv ==
  OneByOne =>
    /\ \A c, d \in Commands : UnderWay(c) /\ UnderWay(d) => c = d
    /\ \A c \in Commands : KnowsFile(c)
    /\ (\A c \in Commands : ~UnderWay(c)) => NamedInFile

EngineInv == EngineTypeOK /\ ProcessInv /\ CommandInv /\ StopsItsOwn

(* No step of a process makes one run that did not.                        *)
NoneRevived == \A p \in Pids : engine'[p] \in Running => engine[p] \in Running

(* A step of a process, and no command.                                    *)
LEMMA ProcessSteps ==
  ASSUME EngineInv, UNCHANGED <<detached, file, cmd, overlapped, abandoned>>,
         \A p \in detached : engine'[p] \in Running => engine[p] \in Running
  PROVE  CommandInv'
<1>1. NoneDetached => NoneDetached'
  BY DEF NoneDetached
<1>2. NamedInFile => NamedInFile'
  BY DEF NamedInFile
<1>3. \A c \in Commands : KnowsFile(c) => KnowsFile(c)'
  BY <1>1, <1>2 DEF KnowsFile
<1> QED BY <1>2, <1>3 DEF EngineInv, CommandInv, OneByOne, UnderWay

(* A command begins: no other is under way.                                *)
LEMMA CommandBegins ==
  ASSUME EngineInv, NEW c \in Commands, Begins(c)
  PROVE  OneByOne' =>
           OneByOne /\ (\A d \in Commands : ~UnderWay(d)) /\ NamedInFile
BY DEF Begins, OneByOne, EngineInv, CommandInv

(* A command that goes on alone.                                           *)
LEMMA CommandGoesOn ==
  ASSUME EngineInv, NEW c \in Commands, NEW to \in CommandStates, NEW pid \in Pids \cup {NoPid},
         Goes(c, to, pid),
         OneByOne' => OneByOne /\ \A d \in Commands : UnderWay(d) => d = c,
         OneByOne' => KnowsFile(c)' /\ (to \in Ended => NamedInFile')
  PROVE  cmd' \in [Commands -> [at : CommandStates, pid : Pids \cup {NoPid}]] /\ CommandInv'
<1>1. /\ cmd' \in [Commands -> [at : CommandStates, pid : Pids \cup {NoPid}]]
      /\ cmd'[c] = [at |-> to, pid |-> pid]
      /\ \A d \in Commands \ {c} : cmd'[d] = cmd[d]
  BY DEF Goes, EngineInv, ProcessInv
<1>2. CommandInv'
  <2> SUFFICES ASSUME OneByOne' PROVE
          /\ \A d, e \in Commands : UnderWay(d)' /\ UnderWay(e)' => d = e
          /\ \A d \in Commands : KnowsFile(d)'
          /\ (\A d \in Commands : ~UnderWay(d)') => NamedInFile'
    BY DEF CommandInv
  <2>1. \A d \in Commands \ {c} : ~UnderWay(d)'
    BY <1>1 DEF UnderWay
  <2>2. \A d \in Commands \ {c} : KnowsFile(d)'
    <3> SUFFICES ASSUME NEW d \in Commands \ {c} PROVE KnowsFile(d)'
      OBVIOUS
    <3>1. cmd'[d].at \in Ended
      BY <2>1 DEF UnderWay
    <3> QED BY <3>1 DEF KnowsFile, Ended
  <2>3. (\A d \in Commands : ~UnderWay(d)') => to \in Ended
    BY <1>1 DEF UnderWay
  <2> QED BY <2>1, <2>2, <2>3
<1> QED BY <1>1, <1>2

LEMMA RunSteps ==
  ASSUME EngineInv, NEW c \in Commands,
         RunDetach(c) \/ Popen(c) \/ OpenPidfile(c) \/ WritePidfile(c)
  PROVE  EngineInv'
<1> USE DEF EngineInv
<1>0. /\ NoPid \notin Pids /\ Broken \notin Pids /\ cmd[c].pid \in Pids \cup {NoPid}
      /\ NoPid \in Pids \cup {NoPid}
  BY DetachedAssumption DEF ProcessInv
<1>1. CASE RunDetach(c)
  <2> DEFINE to == IF Alive(file) THEN "refused" ELSE "cleared"
  <2>1. /\ Begins(c) /\ Goes(c, to, NoPid) /\ to \in CommandStates
        /\ UNCHANGED <<engine, up, detached, file, abandoned, foreign, reused, wronged>>
    BY <1>1 DEF RunDetach, Begins, CommandStates, Ended
  <2>2. OneByOne' => OneByOne /\ (\A d \in Commands : ~UnderWay(d)) /\ NamedInFile
    BY <2>1, CommandBegins
  <2>3. NamedInFile /\ ~Alive(file) => NoneDetached
    BY DEF NamedInFile, NoneDetached, Alive, EngineTypeOK
  <2>4. cmd'[c].at = to
    BY <2>1 DEF Goes, ProcessInv
  <2>5. OneByOne' => KnowsFile(c)' /\ (to \in Ended => NamedInFile')
    BY <2>1, <2>2, <2>3, <2>4 DEF KnowsFile, NamedInFile, NoneDetached
  <2> HIDE DEF to
  <2>6. cmd' \in [Commands -> [at : CommandStates, pid : Pids \cup {NoPid}]] /\ CommandInv'
    BY <1>0, <2>1, <2>2, <2>5, CommandGoesOn
  <2> QED BY <2>1, <2>2, <2>6 DEF EngineTypeOK, ProcessInv, StopsItsOwn, OneByOne
<1>2. CASE Popen(c)
  <2>1. PICK p \in Pids : Spawned(p) /\ detached' = detached \cup {p} /\ Goes(c, "spawned", p)
    BY <1>2 DEF Popen
  <2>2. /\ cmd[c].at = "cleared" /\ UnderWay(c) /\ engine[p] = "unborn"
        /\ engine' = [engine EXCEPT ![p] = "starting"]
        /\ UNCHANGED <<up, file, overlapped, abandoned, foreign, reused, wronged>>
    BY <1>2, <2>1 DEF Popen, Spawned, UnderWay, Ended, histories
  <2>3. cmd'[c].at = "spawned" /\ cmd'[c].pid = p
    BY <2>1 DEF Goes, ProcessInv
  <2>4. OneByOne' => OneByOne /\ (\A d \in Commands : UnderWay(d) => d = c) /\ NoneDetached
    BY <2>2 DEF OneByOne, CommandInv, KnowsFile
  <2>5. NoneDetached => \A q \in detached' : engine'[q] \in Running => q = p
    BY <2>1, <2>2 DEF NoneDetached, EngineTypeOK
  <2>6. OneByOne' => KnowsFile(c)'
    BY <2>3, <2>4, <2>5 DEF KnowsFile
  <2>7. "spawned" \in CommandStates /\ "spawned" \notin Ended
    BY DEF CommandStates, Ended
  <2>8. cmd' \in [Commands -> [at : CommandStates, pid : Pids \cup {NoPid}]] /\ CommandInv'
    BY <2>1, <2>4, <2>6, <2>7, CommandGoesOn
  <2>9. EngineTypeOK'
    BY <2>1, <2>2, <2>8 DEF EngineTypeOK, Running
  <2> QED BY <2>1, <2>2, <2>8, <2>9 DEF EngineTypeOK, ProcessInv, StopsItsOwn
<1>3. CASE OpenPidfile(c)
  <2>1. /\ cmd[c].at = "spawned" /\ UnderWay(c) /\ Goes(c, "writing", cmd[c].pid)
        /\ file' = Broken
        /\ UNCHANGED <<engine, up, detached, overlapped, abandoned, foreign, reused, wronged>>
    BY <1>3 DEF OpenPidfile, UnderWay, Ended, histories
  <2>2. cmd'[c].at = "writing" /\ cmd'[c].pid = cmd[c].pid
    BY <2>1 DEF Goes, ProcessInv
  <2>3. OneByOne' => OneByOne /\ (\A d \in Commands : UnderWay(d) => d = c) /\ KnowsFile(c)
    BY <2>1 DEF OneByOne, CommandInv
  <2>4. OneByOne' => KnowsFile(c)'
    BY <2>1, <2>2, <2>3 DEF KnowsFile
  <2>5. "writing" \in CommandStates /\ "writing" \notin Ended
    BY DEF CommandStates, Ended
  <2>6. cmd' \in [Commands -> [at : CommandStates, pid : Pids \cup {NoPid}]] /\ CommandInv'
    BY <1>0, <2>1, <2>3, <2>4, <2>5, CommandGoesOn
  <2> QED BY <2>1, <2>6 DEF EngineTypeOK, ProcessInv, StopsItsOwn, OneByOne
<1>4. CASE WritePidfile(c)
  <2>1. /\ cmd[c].at = "writing" /\ UnderWay(c) /\ Goes(c, "done", cmd[c].pid)
        /\ file' = cmd[c].pid
        /\ UNCHANGED <<engine, up, detached, overlapped, abandoned, foreign, reused, wronged>>
    BY <1>4 DEF WritePidfile, UnderWay, Ended, histories
  <2>2. cmd'[c].at = "done"
    BY <2>1 DEF Goes, ProcessInv
  <2>3. OneByOne' => OneByOne /\ (\A d \in Commands : UnderWay(d) => d = c) /\ KnowsFile(c)
    BY <2>1 DEF OneByOne, CommandInv
  <2>4. OneByOne' => NamedInFile'
    BY <2>1, <2>3 DEF KnowsFile, NamedInFile
  <2>5. KnowsFile(c)'
    BY <2>2 DEF KnowsFile
  <2>6. "done" \in CommandStates
    BY DEF CommandStates, Ended
  <2>7. cmd' \in [Commands -> [at : CommandStates, pid : Pids \cup {NoPid}]] /\ CommandInv'
    BY <1>0, <2>1, <2>3, <2>4, <2>5, <2>6, CommandGoesOn
  <2> QED BY <1>0, <2>1, <2>7 DEF EngineTypeOK, ProcessInv, StopsItsOwn, OneByOne
<1> QED BY <1>1, <1>2, <1>3, <1>4

LEMMA StopSteps ==
  ASSUME EngineInv, NEW c \in Commands,
         \/ Stop(c) \/ PostShutdown(c) \/ Polled(c) \/ SignalPid(c) \/ GiveUp(c) \/ Unlink(c)
         \/ Abandon(c)
  PROVE  EngineInv'
<1> USE DEF EngineInv
<1>0. /\ NoPid \notin Pids /\ cmd[c].pid \in Pids \cup {NoPid} /\ NoPid \in Pids \cup {NoPid}
      /\ {"asking", "waiting", "grace", "unlinking", "done", "failed", "dead"} \subseteq CommandStates
  BY DetachedAssumption DEF ProcessInv, CommandStates, Ended
<1>1. CASE Stop(c)
  <2> DEFINE to == IF file \notin Pids THEN "failed" ELSE IF Alive(file) THEN "asking" ELSE "unlinking"
             pid == IF file \in Pids THEN file ELSE NoPid
  <2>1. /\ Begins(c) /\ Goes(c, to, pid) /\ to \in CommandStates /\ pid \in Pids \cup {NoPid}
        /\ UNCHANGED <<engine, up, detached, file, abandoned, foreign, reused, wronged>>
    BY <1>0, <1>1 DEF Stop, Begins
  <2>2. OneByOne' => OneByOne /\ (\A d \in Commands : ~UnderWay(d)) /\ NamedInFile
    BY <2>1, CommandBegins
  <2>3. NamedInFile /\ ~Alive(file) => NoneDetached
    BY DEF NamedInFile, NoneDetached, Alive, EngineTypeOK
  <2>4. cmd'[c].at = to /\ cmd'[c].pid = pid
    BY <2>1 DEF Goes, ProcessInv
  <2>5. OneByOne' => NamedInFile' /\ KnowsFile(c)'
    BY <2>1, <2>2, <2>3, <2>4 DEF KnowsFile, NamedInFile, NoneDetached
  <2> HIDE DEF to, pid
  <2>6. cmd' \in [Commands -> [at : CommandStates, pid : Pids \cup {NoPid}]] /\ CommandInv'
    BY <2>1, <2>2, <2>5, CommandGoesOn
  <2> QED BY <2>1, <2>2, <2>6 DEF EngineTypeOK, ProcessInv, StopsItsOwn, OneByOne
(* What a command under way does to the processes revives none.            *)
<1>2. ASSUME NEW to \in CommandStates, Goes(c, to, cmd[c].pid), UnderWay(c),
             UNCHANGED <<up, detached, file, overlapped, abandoned, foreign, reused>>,
             engine' \in [Pids -> Running \cup {"unborn", "gone", "other"}],
             \A p \in Pids : /\ engine'[p] \in Running => engine[p] \in Running
                             /\ engine'[p] = "other" => engine[p] = "other"
                             /\ engine'[p] = "unborn" <=> engine[p] = "unborn",
             OneByOne => (to \in {"asking", "waiting", "grace", "failed"} => NamedInFile),
             OneByOne => (to \in {"asking", "waiting", "grace"} =>
                            cmd[c].pid \in Pids /\ file = cmd[c].pid),
             OneByOne => (to = "unlinking" => NoneDetached),
             to \in {"asking", "waiting", "grace", "failed", "unlinking"},
             OneByOne /\ ~foreign /\ ~reused /\ ~wronged => ~wronged'
      PROVE  EngineInv'
  <2>1. cmd'[c].at = to /\ cmd'[c].pid = cmd[c].pid
    BY <1>2 DEF Goes, ProcessInv
  <2>2. OneByOne' => OneByOne /\ (\A d \in Commands : UnderWay(d) => d = c)
    BY <1>2 DEF OneByOne, CommandInv
  <2>3. NamedInFile => NamedInFile'
    BY <1>2 DEF NamedInFile, EngineTypeOK
  <2>4. NoneDetached => NoneDetached'
    BY <1>2 DEF NoneDetached, EngineTypeOK
  <2>5. OneByOne' => KnowsFile(c)' /\ (to \in Ended => NamedInFile')
    BY <1>2, <2>1, <2>2, <2>3, <2>4 DEF KnowsFile, Ended
  <2>6. cmd' \in [Commands -> [at : CommandStates, pid : Pids \cup {NoPid}]] /\ CommandInv'
    BY <1>0, <1>2, <2>2, <2>5, CommandGoesOn
  <2>7. EngineTypeOK'
    BY <1>2, <2>6 DEF EngineTypeOK
  <2>8. ProcessInv'
    BY <1>2, <2>6 DEF ProcessInv, EngineTypeOK
  <2>9. StopsItsOwn'
    BY <1>2 DEF StopsItsOwn, OneByOne
  <2> QED BY <2>6, <2>7, <2>8, <2>9
<1>3. CASE PostShutdown(c)
  <2>1. /\ cmd[c].at = "asking" /\ UnderWay(c) /\ Goes(c, "waiting", cmd[c].pid)
        /\ UNCHANGED <<up, detached, file, overlapped, abandoned, foreign, reused>>
    BY <1>3 DEF PostShutdown, UnderWay, Ended, histories
  <2>2. OneByOne => cmd[c].pid \in Pids /\ file = cmd[c].pid /\ NamedInFile
    BY <2>1 DEF CommandInv, KnowsFile
  <2>3. CASE UNCHANGED <<engine, wronged>>
    BY <1>0, <1>2, <2>1, <2>2, <2>3 DEF EngineTypeOK
  <2>4. ASSUME NEW p \in Pids, engine[p] = "serving", Interrupted(p),
               wronged' = (wronged \/ p # cmd[c].pid)
        PROVE  EngineInv'
    <3>1. engine' = [engine EXCEPT ![p] = "stopping"]
      BY <2>4 DEF Interrupted
    <3>2. OneByOne /\ ~foreign => p = cmd[c].pid
      BY <2>2, <2>4 DEF ProcessInv, NamedInFile, Running
    <3>3. OneByOne /\ ~foreign /\ ~reused /\ ~wronged => ~wronged'
      BY <2>4, <3>2
    <3> QED BY <1>0, <1>2, <2>1, <2>2, <2>4, <3>1, <3>3 DEF EngineTypeOK, Running
  <2> QED BY <1>3, <2>3, <2>4 DEF PostShutdown
<1>4. CASE Polled(c)
  <2>1. /\ cmd[c].at \in {"waiting", "grace"} /\ ~Alive(cmd[c].pid) /\ UnderWay(c)
        /\ Goes(c, "unlinking", cmd[c].pid)
        /\ UNCHANGED <<engine, up, detached, file, overlapped, abandoned, foreign, reused, wronged>>
    BY <1>4 DEF Polled, UnderWay, Ended, histories
  <2>2. OneByOne => cmd[c].pid \in Pids /\ file = cmd[c].pid /\ NamedInFile
    BY <2>1 DEF CommandInv, KnowsFile
  <2>3. OneByOne => NoneDetached
    BY <2>1, <2>2 DEF NamedInFile, NoneDetached, Alive, EngineTypeOK
  <2> QED BY <1>0, <1>2, <2>1, <2>3 DEF EngineTypeOK
<1>5. CASE SignalPid(c)
  <2> DEFINE p == cmd[c].pid
  <2>1. /\ cmd[c].at = "waiting" /\ Alive(p) /\ UnderWay(c) /\ Goes(c, "grace", p)
        /\ Terminated(p) /\ wronged' = (wronged \/ engine[p] = "other")
        /\ UNCHANGED <<up, detached, file, overlapped, abandoned, foreign, reused>>
    BY <1>5 DEF SignalPid, UnderWay, Ended, histories
  <2>2. OneByOne => p \in Pids /\ file = p /\ NamedInFile
    BY <2>1 DEF CommandInv, KnowsFile
  <2>3. p \in Pids /\ engine[p] \in Running \cup {"other"}
    BY <2>1 DEF Alive
  <2>4. ~reused => engine[p] # "other"
    BY <2>3 DEF ProcessInv
  <2>5. PICK s \in {"stopping", "gone"} :
          engine' = [engine EXCEPT ![p] = s] /\ (s = "stopping" => engine[p] \in Running)
    BY <2>1 DEF Terminated, Running
  <2>6. engine' \in [Pids -> Running \cup {"unborn", "gone", "other"}]
    BY <2>3, <2>5 DEF EngineTypeOK, Running
  <2>7. \A q \in Pids : /\ engine'[q] \in Running => engine[q] \in Running
                        /\ engine'[q] = "other" => engine[q] = "other"
                        /\ engine'[q] = "unborn" <=> engine[q] = "unborn"
    <3> SUFFICES ASSUME NEW q \in Pids
                 PROVE  /\ engine'[q] \in Running => engine[q] \in Running
                        /\ engine'[q] = "other" => engine[q] = "other"
                        /\ engine'[q] = "unborn" <=> engine[q] = "unborn"
      OBVIOUS
    <3>1. CASE q = p
      <4>1. engine'[q] = s
        BY <2>3, <2>5, <3>1 DEF EngineTypeOK
      <4>2. s \in Running => engine[q] \in Running
        BY <2>5, <3>1 DEF Running
      <4> QED BY <2>3, <3>1, <4>1, <4>2 DEF Running
    <3>2. CASE q # p
      <4>1. engine'[q] = engine[q]
        BY <2>3, <2>5, <3>2 DEF EngineTypeOK
      <4> QED BY <4>1
    <3> QED BY <3>1, <3>2
  <2>8. OneByOne /\ ~foreign /\ ~reused /\ ~wronged => ~wronged'
    BY <2>1, <2>4
  <2>9. "grace" \in CommandStates
    BY <1>0
  <2> HIDE DEF p
  <2> QED BY <1>2, <2>1, <2>2, <2>6, <2>7, <2>8, <2>9 DEF p
<1>6. CASE GiveUp(c)
  <2>1. /\ cmd[c].at = "grace" /\ UnderWay(c) /\ Goes(c, "failed", cmd[c].pid)
        /\ UNCHANGED <<engine, up, detached, file, overlapped, abandoned, foreign, reused, wronged>>
    BY <1>6 DEF GiveUp, UnderWay, Ended, histories
  <2>2. OneByOne => NamedInFile
    BY <2>1 DEF CommandInv, KnowsFile
  <2> QED BY <1>0, <1>2, <2>1, <2>2 DEF EngineTypeOK
<1>7. CASE Unlink(c)
  <2>1. /\ cmd[c].at = "unlinking" /\ UnderWay(c) /\ Goes(c, "done", cmd[c].pid) /\ file' = NoPid
        /\ UNCHANGED <<engine, up, detached, overlapped, abandoned, foreign, reused, wronged>>
    BY <1>7 DEF Unlink, UnderWay, Ended, histories
  <2>2. OneByOne' => OneByOne /\ (\A d \in Commands : UnderWay(d) => d = c) /\ NoneDetached
    BY <2>1 DEF OneByOne, CommandInv, KnowsFile
  <2>3. NoneDetached => NamedInFile'
    BY <2>1 DEF NoneDetached, NamedInFile
  <2>4. KnowsFile(c)'
    BY <2>1 DEF KnowsFile, Goes, ProcessInv
  <2>5. cmd' \in [Commands -> [at : CommandStates, pid : Pids \cup {NoPid}]] /\ CommandInv'
    BY <1>0, <2>1, <2>2, <2>3, <2>4, CommandGoesOn
  <2> QED BY <2>1, <2>5 DEF EngineTypeOK, ProcessInv, StopsItsOwn, OneByOne
<1>8. CASE Abandon(c)
  <2>1. /\ Goes(c, "dead", cmd[c].pid) /\ abandoned'
        /\ UNCHANGED <<engine, up, detached, file, overlapped, foreign, reused, wronged>>
    BY <1>8 DEF Abandon
  <2>2. cmd' \in [Commands -> [at : CommandStates, pid : Pids \cup {NoPid}]]
    BY <1>0, <2>1 DEF Goes, ProcessInv
  <2> QED BY <2>1, <2>2 DEF EngineTypeOK, ProcessInv, CommandInv, StopsItsOwn, OneByOne
<1> QED BY <1>1, <1>3, <1>4, <1>5, <1>6, <1>7, <1>8

(* What an engine, the operator at its terminal or the system does to one  *)
(* process.                                                                *)
LEMMA OwnSteps ==
  ASSUME EngineInv, NEW p \in Pids,
         \/ CtrlC(p) \/ StartComponent(p) \/ Serve(p) \/ StopComponent(p) \/ Leave(p) \/ Crash(p)
         \/ Reuse(p)
  PROVE  EngineInv'
<1> USE DEF EngineInv
<1>1. /\ UNCHANGED <<detached, file, cmd, overlapped, abandoned, foreign, wronged>>
      /\ Reuse(p) \/ UNCHANGED reused
  BY DEF CtrlC, StartComponent, Serve, StopComponent, Leave, Crash, Reuse, histories
<1>2. up' \in [Pids -> 0..Components]
  BY DetachedAssumption DEF CtrlC, StartComponent, Serve, StopComponent, Leave, Crash, Reuse, EngineTypeOK
<1>3. PICK s \in Running \cup {"gone", "other"} :
        /\ engine' = engine \/ engine' = [engine EXCEPT ![p] = s]
        /\ engine[p] = "unborn" => engine' = engine
        /\ s \in Running => engine[p] \in Running
        /\ s = "other" => reused'
  <2>1. CASE CtrlC(p)
    <3>1. engine[p] \in Running /\ Interrupted(p)
      BY <2>1 DEF CtrlC
    <3>2. PICK s \in {"stopping", "gone", engine[p]} : engine' = [engine EXCEPT ![p] = s]
      BY <3>1 DEF Interrupted, Running
    <3> QED BY <3>1, <3>2 DEF Running
  <2>2. CASE StartComponent(p) \/ Serve(p) \/ StopComponent(p) \/ Leave(p) \/ Crash(p)
    BY <2>2 DEF StartComponent, Serve, StopComponent, Leave, Crash, Running
  <2>3. CASE Reuse(p)
    BY <2>3 DEF Reuse, Running
  <2> QED BY <2>1, <2>2, <2>3
<1>4. /\ engine' \in [Pids -> Running \cup {"unborn", "gone", "other"}]
      /\ \A q \in Pids : /\ engine'[q] \in Running => engine[q] \in Running
                         /\ engine'[q] = "unborn" <=> engine[q] = "unborn"
                         /\ engine'[q] = "other" => engine[q] = "other" \/ reused'
  BY <1>3 DEF EngineTypeOK, Running
<1>5. reused => reused'
  BY <1>1 DEF Reuse
<1>6. EngineTypeOK'
  BY <1>1, <1>2, <1>4 DEF EngineTypeOK
<1>7. ProcessInv'
  BY <1>1, <1>4, <1>5 DEF ProcessInv, EngineTypeOK
<1>8. CommandInv'
  BY <1>1, <1>4, ProcessSteps DEF EngineTypeOK
<1>9. StopsItsOwn'
  BY <1>1, <1>5 DEF StopsItsOwn
<1> QED BY <1>6, <1>7, <1>8, <1>9

LEMMA ForegroundSteps ==
  ASSUME EngineInv, RunForeground
  PROVE  EngineInv'
<1> USE DEF EngineInv
<1>1. PICK p \in Pids : engine[p] = "unborn" /\ engine' = [engine EXCEPT ![p] = "starting"]
  BY DEF RunForeground, Spawned
<1>2. foreign' /\ UNCHANGED <<up, detached, file, cmd, overlapped, abandoned, reused, wronged>>
  BY DEF RunForeground
<1>3. \A q \in detached : engine'[q] = engine[q]
  BY <1>1 DEF ProcessInv, EngineTypeOK
<1>4. EngineTypeOK'
  BY <1>1, <1>2 DEF EngineTypeOK, Running
<1>5. ProcessInv'
  BY <1>1, <1>2, <1>3 DEF ProcessInv, EngineTypeOK
<1>6. CommandInv'
  BY <1>2, <1>3, ProcessSteps
<1>7. StopsItsOwn'
  BY <1>2 DEF StopsItsOwn
<1> QED BY <1>4, <1>5, <1>6, <1>7

LEMMA EngineSteps ==
  ASSUME EngineInv, EngineNext
  PROVE  EngineInv'
BY RunSteps, StopSteps, ForegroundSteps, OwnSteps DEF EngineNext, Command

(* When commands are given one after the other and none is killed, a       *)
(* detached engine that runs is the one the pid file names, hence the only *)
(* one, and a stop ends no process but that one (detach.py:128-262), for   *)
(* any number of processes and commands.                                   *)
THEOREM OneDetached == Spec => []OneEngine
<1>1. Init => EngineInv
  <2> SUFFICES ASSUME EngineInit PROVE EngineInv
    BY DEF Init
  <2>1. EngineTypeOK
    BY DetachedAssumption DEF EngineInit, EngineTypeOK
  <2>2. ProcessInv /\ StopsItsOwn
    BY DEF EngineInit, ProcessInv, StopsItsOwn, CommandStates
  <2>3. \A c \in Commands : cmd[c].at = "idle"
    BY DEF EngineInit
  <2>4. CommandInv
    BY <2>3 DEF EngineInit, CommandInv, KnowsFile, UnderWay, Ended, NamedInFile
  <2> QED BY <2>1, <2>2, <2>4 DEF EngineInv
<1>2. EngineInv /\ [Next]_vars => EngineInv'
  <2>1. ASSUME EngineInv, UNCHANGED engineVars PROVE EngineInv'
    <3>1. UNCHANGED <<engine, up, detached, file, cmd, overlapped, abandoned, foreign, reused, wronged>>
      BY <2>1 DEF engineVars
    <3>2. CommandInv'
      BY <2>1, <3>1, ProcessSteps
    <3> QED BY <2>1, <3>1, <3>2 DEF EngineInv, EngineTypeOK, ProcessInv, StopsItsOwn
  <2>2. [Next]_vars => EngineNext \/ UNCHANGED engineVars
    BY DEF Next, vars, Is, SameBut
  <2> QED BY <2>1, <2>2, EngineSteps
<1>3. EngineInv => OneEngine
  BY DEF EngineInv, OneEngine, CommandInv, OneByOne, Registered, NamedInFile
<1> QED BY <1>1, <1>2, <1>3, PTL DEF Spec
-----------------------------------------------------------------------------
(* The bridge to the tester of MT5.                                        *)

(* The expert and the driver take turns on the wire.                       *)
TurnInv ==
  /\ expert = "free" => wire = <<>>
  /\ serving = "handling" => Len(wire) = 1
  /\ unread + (IF serving # "handling" /\ Len(wire) = 1 THEN 1 ELSE 0) <= ticks

UnderWayOrder == IF Len(wire) = 2 /\ wire[2] # 0 THEN <<wire[2]>> ELSE <<>>

BridgeInv ==
  /\ BridgeTypeOK /\ TurnInv
  /\ got \o UnderWayOrder \o pendingOrders = [n \in 1..orders |-> n]

(* What is on the wire, by its length.                                     *)
LEMMA WireIs ==
  ASSUME BridgeTypeOK
  PROVE  /\ Len(wire) \in {0, 1, 2}
         /\ Len(wire) = 0 <=> wire = <<>>
         /\ Len(wire) = 1 => wire \in {<<"tick">>, <<"other">>}
         /\ Len(wire) = 2 => wire[2] \in Orders \cup {0}
         /\ UnderWayOrder \in Seq(Orders)
<1>1. CASE wire = <<>>
  BY <1>1 DEF UnderWayOrder
<1>2. CASE wire \in {<<m>> : m \in {"tick", "other"}}
  BY <1>2 DEF UnderWayOrder
<1>3. CASE wire \in {<<"reply", o>> : o \in Orders \cup {0}}
  <2>1. PICK o \in Orders \cup {0} : wire = <<"reply", o>>
    BY <1>3
  <2>2. Len(wire) = 2 /\ wire[2] = o /\ wire # <<>>
    BY <2>1
  <2>3. o # 0 => <<o>> \in Seq(Orders)
    BY <2>1
  <2> QED BY <2>1, <2>2, <2>3 DEF UnderWayOrder
<1> QED BY <1>1, <1>2, <1>3 DEF BridgeTypeOK

LEMMA Splices ==
  \A g, u, p \in Seq(Orders), x \in Orders :
    /\ Append(g, x) \o <<>> \o p = g \o <<x>> \o p
    /\ p # <<>> => g \o <<Head(p)>> \o Tail(p) = g \o <<>> \o p
    /\ g \o u \o Append(p, x) = Append(g \o u \o p, x)
<1> TAKE g, u, p \in Seq(Orders), x \in Orders
<1>0. \A a, b, c \in Seq(Orders) : (a \o b) \o c = a \o (b \o c)
  BY SMTT(30)
<1>1. \A a, b \in Seq(Orders) : a \o <<>> = a /\ Append(a, x) = a \o <<x>> /\ a \o b \in Seq(Orders)
  OBVIOUS
<1>2. Append(g, x) \in Seq(Orders) /\ <<x>> \in Seq(Orders)
  OBVIOUS
<1>3. Append(g, x) \o <<>> \o p = g \o <<x>> \o p
  BY <1>1, <1>2
<1>4. ASSUME p # <<>> PROVE g \o <<Head(p)>> \o Tail(p) = g \o <<>> \o p
  <2>1. /\ <<Head(p)>> \in Seq(Orders) /\ Tail(p) \in Seq(Orders) /\ p = <<Head(p)>> \o Tail(p)
    BY <1>4
  <2>2. (g \o <<Head(p)>>) \o Tail(p) = g \o (<<Head(p)>> \o Tail(p))
    BY <1>0, <2>1
  <2>3. g \o <<>> = g
    BY <1>1, <2>1
  <2> QED BY <2>1, <2>2, <2>3
<1>5. g \o u \o Append(p, x) = Append(g \o u \o p, x)
  <2>1. Append(p, x) = p \o <<x>> /\ Append(g \o u \o p, x) = (g \o u \o p) \o <<x>>
    BY <1>1
  <2> QED BY <1>0, <1>1, <1>2, <2>1
<1> QED BY <1>3, <1>4, <1>5

LEMMA BridgeSteps ==
  ASSUME BridgeInv, BridgeNext
  PROVE  BridgeInv'
<1> USE DEF BridgeInv
<1> USE BridgeAssumption
<1> DEFINE U == UnderWayOrder
<1>w. /\ Len(wire) \in {0, 1, 2}
      /\ Len(wire) = 0 <=> wire = <<>>
      /\ Len(wire) = 1 => wire \in {<<"tick">>, <<"other">>}
      /\ Len(wire) = 2 => wire[2] \in Orders \cup {0}
      /\ U \in Seq(Orders)
  BY WireIs
<1>0. /\ got \in Seq(Orders) /\ pendingOrders \in Seq(Orders) /\ U \in Seq(Orders)
      /\ 0 \notin Orders
  <2>1. 0 \notin Orders
    BY DEF Orders
  <2> QED BY <1>w, <2>1 DEF BridgeTypeOK
<1>t. \A q \in Seq(Orders) : q # <<>> => Head(q) \in Orders /\ Tail(q) \in Seq(Orders)
  OBVIOUS
<1>1. CASE ExpertSends
  <2>1. /\ expert = "free" /\ ticks < MaxTicks /\ ticks' = ticks + 1 /\ expert' = "waits"
        /\ wire' \in {<<"tick">>, <<"other">>}
        /\ UNCHANGED <<proc, serving, unread, pendingOrders, orders, got>>
    BY <1>1 DEF ExpertSends
  <2>2. wire = <<>> /\ Len(wire') = 1
    BY <2>1 DEF TurnInv
  <2>3. BridgeTypeOK'
    BY <2>1 DEF BridgeTypeOK
  <2>4. TurnInv'
    BY <2>1, <2>2 DEF TurnInv, BridgeTypeOK
  <2>5. U' = U
    BY <2>2 DEF UnderWayOrder
  <2> QED BY <2>1, <2>3, <2>4, <2>5
<1>2. CASE ExpertReceives
  <2>1. /\ expert = "waits" /\ Len(wire) = 2 /\ expert' = "free" /\ wire' = <<>>
        /\ got' = IF wire[2] = 0 THEN got ELSE Append(got, wire[2])
        /\ UNCHANGED <<proc, serving, unread, pendingOrders, ticks, orders>>
    BY <1>2 DEF ExpertReceives
  <2>2. got' \in Seq(Orders)
    BY <1>0, <1>w, <2>1
  <2>3. BridgeTypeOK' /\ TurnInv'
    BY <2>1, <2>2 DEF BridgeTypeOK, TurnInv
  <2>4. U' = <<>>
    BY <2>1 DEF UnderWayOrder
  <2>5. got' \o <<>> \o pendingOrders = got \o U \o pendingOrders
    <3>1. CASE wire[2] = 0
      BY <2>1, <3>1 DEF UnderWayOrder
    <3>2. CASE wire[2] # 0
      <4>1. U = <<wire[2]>> /\ wire[2] \in Orders /\ got' = Append(got, wire[2])
        BY <1>w, <2>1, <3>2 DEF UnderWayOrder
      <4>2. Append(got, wire[2]) \o <<>> \o pendingOrders = got \o <<wire[2]>> \o pendingOrders
        BY <1>0, <4>1, Splices
      <4> QED BY <4>1, <4>2
    <3> QED BY <3>1, <3>2
  <2> QED BY <2>1, <2>3, <2>4, <2>5
<1>3. CASE TerminalExits
  <2>1. U' = U
    BY <1>3 DEF TerminalExits, UnderWayOrder
  <2> QED BY <1>3, <2>1 DEF TerminalExits, BridgeTypeOK, TurnInv
<1>4. CASE Receive
  <2>1. U' = U
    BY <1>4 DEF Receive, UnderWayOrder
  <2>2. TurnInv'
    BY <1>4 DEF Receive, TurnInv, BridgeTypeOK
  <2>3. unread' \in 0..MaxTicks
    BY <1>4 DEF Receive, TurnInv, BridgeTypeOK
  <2> QED BY <1>4, <2>1, <2>2, <2>3 DEF Receive, BridgeTypeOK
<1>5. CASE ReceiveCancelled
  <2>1. U' = U
    BY <1>5 DEF ReceiveCancelled, UnderWayOrder
  <2>2. TurnInv'
    BY <1>5 DEF ReceiveCancelled, TurnInv, BridgeTypeOK
  <2> QED BY <1>5, <2>1, <2>2 DEF ReceiveCancelled, BridgeTypeOK
<1>6. CASE OnTick
  <2>1. /\ unread > 0 /\ unread' = unread - 1
        /\ UNCHANGED <<proc, expert, wire, serving, ticks, got>>
    BY <1>6 DEF OnTick
  <2>2. U' = U /\ TurnInv' /\ unread' \in 0..MaxTicks
    BY <2>1 DEF UnderWayOrder, TurnInv, BridgeTypeOK
  <2>3. CASE UNCHANGED <<pendingOrders, orders>>
    BY <2>1, <2>2, <2>3 DEF BridgeTypeOK
  <2>4. CASE /\ orders < MaxOrders /\ orders' = orders + 1
             /\ pendingOrders' = Append(pendingOrders, orders + 1)
    <3>1. orders + 1 \in Orders /\ orders \in Nat
      BY <2>4 DEF Orders, BridgeTypeOK
    <3>2. BridgeTypeOK'
      <4>1. pendingOrders' \in Seq(Orders) /\ orders' \in 0..MaxOrders
        BY <1>0, <2>4, <3>1 DEF BridgeTypeOK
      <4> QED BY <2>1, <2>2, <4>1 DEF BridgeTypeOK
    <3>3. got \o U \o pendingOrders' = Append(got \o U \o pendingOrders, orders + 1)
      <4> HIDE DEF U
      <4>0. \A x \in Orders : got \o U \o Append(pendingOrders, x)
                               = Append(got \o U \o pendingOrders, x)
        <5>1. got \in Seq(Orders) /\ U \in Seq(Orders) /\ pendingOrders \in Seq(Orders)
          BY <1>0
        <5>2. \A g, u, p \in Seq(Orders) : \A x \in Orders :
                g \o u \o Append(p, x) = Append(g \o u \o p, x)
          BY Splices, SMTT(30)
        <5>3. \A p \in Seq(Orders) : \A x \in Orders :
                got \o U \o Append(p, x) = Append(got \o U \o p, x)
          BY <5>1, <5>2, Zenon
        <5> QED BY <5>1, <5>3, Zenon
      <4>1. got \o U \o Append(pendingOrders, orders + 1)
              = Append(got \o U \o pendingOrders, orders + 1)
        BY <3>1, <4>0, Zenon
      <4> QED BY <2>4, <4>1
    <3>4. Append([n \in 1..orders |-> n], orders + 1) = [n \in 1..(orders + 1) |-> n]
      BY <3>1
    <3> QED BY <2>1, <2>2, <2>4, <3>2, <3>3, <3>4
  <2> QED BY <1>6, <2>3, <2>4 DEF OnTick
<1>7. CASE Answer
  <2>1. /\ serving = "handling" /\ serving' = "receiving" /\ Len(wire) = 1
        /\ UNCHANGED <<proc, expert, unread, ticks, orders, got>>
    BY <1>7 DEF Answer, TurnInv
  <2>2. U = <<>> /\ expert # "free"
    BY <2>1 DEF UnderWayOrder, TurnInv
  <2>3. PICK o \in Orders \cup {0} :
          /\ wire' = <<"reply", o>>
          /\ \/ o = 0 /\ pendingOrders' = pendingOrders
             \/ pendingOrders # <<>> /\ o = Head(pendingOrders) /\ pendingOrders' = Tail(pendingOrders)
    BY <1>0, <1>7 DEF Answer, DequeueAction
  <2>4. Len(wire') = 2 /\ wire'[2] = o
    BY <2>3
  <2>5. pendingOrders' \in Seq(Orders)
    BY <1>0, <1>t, <2>3, Zenon
  <2>6. BridgeTypeOK'
    BY <2>1, <2>3, <2>5 DEF BridgeTypeOK
  <2>7. TurnInv'
    BY <2>1, <2>2, <2>4 DEF TurnInv
  <2>8. got \o U' \o pendingOrders' = got \o <<>> \o pendingOrders
    <3>1. CASE o = 0
      <4>1. U' = <<>> /\ pendingOrders' = pendingOrders
        BY <1>0, <2>3, <2>4, <3>1 DEF UnderWayOrder
      <4> QED BY <4>1
    <3>2. CASE o # 0
      <4>1. U' = <<Head(pendingOrders)>> /\ pendingOrders # <<>> /\ pendingOrders' = Tail(pendingOrders)
        BY <2>3, <2>4, <3>2 DEF UnderWayOrder
      <4>2. Head(pendingOrders) \in Orders
        BY <1>0, <4>1
      <4> QED BY <1>0, <4>1, <4>2, Splices
    <3> QED BY <3>1, <3>2
  <2> QED BY <2>1, <2>2, <2>6, <2>7, <2>8
<1>8. CASE Conclude
  <2>1. U' = U
    BY <1>8 DEF Conclude, UnderWayOrder
  <2> QED BY <1>8, <2>1 DEF Conclude, BridgeTypeOK, TurnInv
<1> QED BY <1>1, <1>2, <1>3, <1>4, <1>5, <1>6, <1>7, <1>8 DEF BridgeNext

(* The tester of MT5 is told every order once and in the order the         *)
(* strategy asked for them, and none is dropped between the queue and the  *)
(* expert (backtest/mt5_backtester.py:150-260), for any number of ticks.   *)
THEOREM OrdersTold == Spec => [](BridgeTypeOK /\ OrdersInOrder)
<1>1. Init => BridgeInv
  <2> SUFFICES ASSUME BridgeInit PROVE BridgeInv
    BY DEF Init
  <2>1. BridgeTypeOK
    BY BridgeAssumption DEF BridgeInit, BridgeTypeOK
  <2>2. TurnInv /\ UnderWayOrder = <<>>
    BY DEF BridgeInit, TurnInv, UnderWayOrder
  <2>3. <<>> \o <<>> \o <<>> = [n \in 1..0 |-> n]
    OBVIOUS
  <2> QED BY <2>1, <2>2, <2>3 DEF BridgeInit, BridgeInv
<1>2. BridgeInv /\ [Next]_vars => BridgeInv'
  <2>1. ASSUME BridgeInv, UNCHANGED bridgeVars PROVE BridgeInv'
    BY <2>1 DEF bridgeVars, BridgeInv, BridgeTypeOK, TurnInv, UnderWayOrder
  <2>2. [Next]_vars => BridgeNext \/ UNCHANGED bridgeVars
    BY DEF Next, vars, Is, SameBut
  <2> QED BY <2>1, <2>2, BridgeSteps
<1>3. BridgeInv => BridgeTypeOK /\ OrdersInOrder
  BY DEF BridgeInv, OrdersInOrder, UnderWayOrder
<1> QED BY <1>1, <1>2, <1>3, PTL DEF Spec
-----------------------------------------------------------------------------
(* The history store.                                                      *)

(* A set of natural numbers with a number once all before it are in it.    *)
LEMMA Induct ==
  ASSUME NEW P, \A n \in Nat : (\A m \in 0..(n - 1) : m \in P) => n \in P
  PROVE  \A n \in Nat : n \in P
<1> SUFFICES ASSUME Nat \ P # {} PROVE FALSE
  OBVIOUS
<1> DEFINE T == Nat \ P
           R == OpToRel(<, Nat)
<1>1. IsWellFoundedOn(R, Nat)
  BY NatLessThanWellFounded
<1>2. PICK n \in T : \A m \in T : <<m, n>> \notin R
  <2> HIDE DEF R
  <2> QED BY <1>1, WFMin
<1>3. ASSUME NEW m \in 0..(n - 1) PROVE <<m, n>> \in R
  BY <1>2 DEF OpToRel
<1> HIDE DEF R
<1>4. \A m \in 0..(n - 1) : m \in P
  <2> SUFFICES ASSUME NEW m \in 0..(n - 1) PROVE m \in P
    OBVIOUS
  <2>1. m \in Nat /\ <<m, n>> \in R
    BY <1>3
  <2> QED BY <1>2, <2>1
<1> QED BY <1>2, <1>4

(* Any two members of S are in one order, and orders chain.                *)
Ordering(S, earlier) ==
  /\ \A x, y \in S : x # y => <<x, y>> \in earlier \/ <<y, x>> \in earlier
  /\ \A x, y, z \in S : <<x, y>> \in earlier /\ <<y, z>> \in earlier => <<x, z>> \in earlier

(* s has the members of S, in the order of the pairs in earlier.           *)
Lists(s, S, earlier) ==
  /\ s \in [1..Cardinality(S) -> S]
  /\ \A i, j \in DOMAIN s : i < j => <<s[i], s[j]>> \in earlier
  /\ \A x \in S : \E i \in DOMAIN s : s[i] = x

LEMMA OneFewer ==
  ASSUME NEW S, IsFiniteSet(S), NEW x \in S
  PROVE  /\ IsFiniteSet(S \ {x})
         /\ Cardinality(S) \in Nat /\ Cardinality(S \ {x}) \in Nat
         /\ Cardinality(S \ {x}) = Cardinality(S) - 1
BY FS_RemoveElement, FS_CardinalityType

(* A member later than those listed, at the end of the list.               *)
LEMMA ListEnds ==
  ASSUME NEW S, IsFiniteSet(S), NEW earlier, NEW x \in S, NEW s,
         Lists(s, S \ {x}, earlier), \A y \in S \ {x} : <<y, x>> \in earlier
  PROVE  \E t : Lists(t, S, earlier)
<1> DEFINE N == Cardinality(S)
           t == [i \in 1..N |-> IF i < N THEN s[i] ELSE x]
<1>1. N \in Nat /\ N >= 1 /\ Cardinality(S \ {x}) = N - 1
  BY OneFewer
<1> HIDE DEF N
<1>2. /\ s \in [1..(N - 1) -> S \ {x}]
      /\ \A i, j \in 1..(N - 1) : i < j => <<s[i], s[j]>> \in earlier
      /\ \A y \in S \ {x} : \E i \in 1..(N - 1) : s[i] = y
  BY <1>1 DEF Lists
<1>3. t \in [1..N -> S]
  BY <1>1, <1>2
<1>4. ASSUME NEW i \in 1..N, NEW j \in 1..N, i < j PROVE <<t[i], t[j]>> \in earlier
  <2>1. i \in 1..(N - 1) /\ t[i] = s[i] /\ s[i] \in S \ {x}
    BY <1>1, <1>2, <1>4
  <2>2. CASE j < N
    <3>1. j \in 1..(N - 1) /\ t[j] = s[j]
      BY <1>1, <2>2
    <3> QED BY <1>2, <1>4, <2>1, <3>1
  <2>3. CASE ~(j < N)
    BY <2>1, <2>3
  <2> QED BY <2>2, <2>3
<1>5. ASSUME NEW y \in S PROVE \E i \in 1..N : t[i] = y
  <2>1. CASE y = x
    <3>1. N \in 1..N /\ t[N] = x
      BY <1>1
    <3> QED BY <2>1, <3>1
  <2>2. CASE y # x
    <3>1. PICK i \in 1..(N - 1) : s[i] = y
      BY <1>2, <2>2
    <3>2. i \in 1..N /\ t[i] = y
      BY <1>1, <3>1
    <3> QED BY <3>2
  <2> QED BY <2>1, <2>2
<1>6. DOMAIN t = 1..N
  OBVIOUS
<1> HIDE DEF t
<1> QED BY <1>3, <1>4, <1>5, <1>6 DEF Lists, N

(* Every finite set with an order can be listed.                           *)
LEMMA ListsExist ==
  ASSUME NEW S, IsFiniteSet(S), NEW earlier, Ordering(S, earlier)
  PROVE  \E s : Lists(s, S, earlier)
<1> DEFINE P == {n \in Nat : \A U \in SUBSET S : Cardinality(U) = n => \E s : Lists(s, U, earlier)}
<1>0. ASSUME NEW U \in SUBSET S
      PROVE  IsFiniteSet(U) /\ Cardinality(U) \in Nat
  BY FS_Subset, FS_CardinalityType
<1>1. ASSUME NEW n \in Nat, \A m \in 0..(n - 1) : m \in P
      PROVE  n \in P
  <2> SUFFICES ASSUME NEW U \in SUBSET S, Cardinality(U) = n
               PROVE  \E s : Lists(s, U, earlier)
    OBVIOUS
  <2>1. CASE n = 0
    <3>1. U = {}
      BY <1>0, <2>1, FS_EmptySet
    <3>2. Cardinality(U) = 0
      BY <2>1
    <3>3. Lists(<<>>, U, earlier)
      BY <3>1, <3>2 DEF Lists
    <3> QED BY <3>3
  <2>2. CASE n # 0
    <3>1. U # {}
      BY <2>2, FS_EmptySet
    <3>2. ASSUME NEW x \in U PROVE \E s : Lists(s, U \ {x}, earlier)
      <4>1. Cardinality(U \ {x}) = n - 1
        BY <1>0, OneFewer
      <4>2. n - 1 \in P
        BY <1>1, <2>2
      <4> QED BY <4>1, <4>2
    <3>3. \E x \in U : \A y \in U \ {x} : <<y, x>> \in earlier
      <4>1. PICK x \in U : TRUE
        BY <3>1
      <4>2. PICK s : Lists(s, U \ {x}, earlier)
        BY <3>2
      <4>3. Cardinality(U \ {x}) = n - 1
        BY <1>0, OneFewer
      <4>4. /\ s \in [1..(n - 1) -> U \ {x}]
            /\ \A i, j \in 1..(n - 1) : i < j => <<s[i], s[j]>> \in earlier
            /\ \A y \in U \ {x} : \E i \in 1..(n - 1) : s[i] = y
        BY <4>2, <4>3 DEF Lists
      <4>5. CASE n = 1
        <5>1. U \ {x} = {}
          BY <4>4, <4>5
        <5> QED BY <5>1
      <4>6. CASE n # 1
        <5>1. n - 1 \in 1..(n - 1) /\ s[n - 1] \in U \ {x}
          BY <2>2, <4>4, <4>6
        <5>2. ASSUME NEW y \in U \ {x}, y # s[n - 1] PROVE <<y, s[n - 1]>> \in earlier
          <6>1. PICK i \in 1..(n - 1) : s[i] = y
            BY <4>4
          <6>2. i < n - 1
            BY <5>2, <6>1
          <6> QED BY <4>4, <5>1, <6>1, <6>2
        <5>3. CASE <<s[n - 1], x>> \in earlier
          <6>1. ASSUME NEW y \in U \ {x} PROVE <<y, x>> \in earlier
            <7>1. CASE y = s[n - 1]
              BY <5>3, <7>1
            <7>2. CASE y # s[n - 1]
              BY <5>1, <5>2, <5>3, <7>2, Zenon DEF Ordering
            <7> QED BY <7>1, <7>2
          <6> QED BY <6>1
        <5>4. CASE <<s[n - 1], x>> \notin earlier
          <6>1. <<x, s[n - 1]>> \in earlier
            BY <5>1, <5>4, Zenon DEF Ordering
          <6>2. \A y \in U \ {s[n - 1]} : <<y, s[n - 1]>> \in earlier
            BY <5>2, <6>1
          <6> QED BY <5>1, <6>2
        <5> QED BY <5>3, <5>4
      <4> QED BY <4>5, <4>6
    <3>4. PICK x \in U : \A y \in U \ {x} : <<y, x>> \in earlier
      BY <3>3
    <3>5. PICK s : Lists(s, U \ {x}, earlier)
      BY <3>2
    <3> QED BY <1>0, <3>4, <3>5, ListEnds
  <2> QED BY <2>1, <2>2
<1>2. \A n \in Nat : n \in P
  <2> HIDE DEF P
  <2> QED BY <1>1, Induct
<1>3. Cardinality(S) \in P
  BY <1>2, FS_CardinalityType
<1> QED BY <1>3

(* What Arranged() returns is such a list.                                 *)
LEMMA ArrangedIs ==
  ASSUME NEW S, IsFiniteSet(S), NEW earlier, Ordering(S, earlier)
  PROVE  Cardinality(S) \in Nat /\ Lists(Arranged(S, earlier), S, earlier)
<1>1. PICK s : Lists(s, S, earlier)
  BY ListsExist
<1>2. s \in [1..Cardinality(S) -> S]
  BY <1>1 DEF Lists
<1>3. Lists(Arranged(S, earlier), S, earlier)
  BY <1>1, <1>2, Zenon DEF Lists, Arranged
<1> QED BY <1>3, FS_CardinalityType

LEMMA Interval ==
  ASSUME NEW n \in Nat
  PROVE  IsFiniteSet(1..n) /\ Cardinality(1..n) = n
BY FS_Interval

(* The positions S, from the first to the last.                            *)
Climbs(q, S) ==
  /\ Cardinality(S) \in Nat /\ q \in [1..Cardinality(S) -> S]
  /\ \A i, j \in 1..Cardinality(S) : i < j => q[i] < q[j]
  /\ \A x \in S : \E i \in 1..Cardinality(S) : q[i] = x

LEMMA RowsAtIs ==
  ASSUME NEW R, NEW rows \in Seq(R), NEW S \in SUBSET DOMAIN rows
  PROVE  /\ IsFiniteSet(S)
         /\ \E q : Climbs(q, S) /\ RowsAt(rows, S) = [n \in 1..Cardinality(S) |-> rows[q[n]]]
<1> DEFINE E == {p \in S \X S : p[1] < p[2]}
           q == Arranged(S, E)
<1>1. S \subseteq 1..Len(rows) /\ Len(rows) \in Nat
  OBVIOUS
<1>2. IsFiniteSet(S)
  BY <1>1, Interval, FS_Subset
<1>3. \A x, y \in S : <<x, y>> \in E <=> x < y
  OBVIOUS
<1>4. Ordering(S, E)
  BY <1>1, <1>3 DEF Ordering
<1> HIDE DEF E
<1>5. Cardinality(S) \in Nat /\ Lists(q, S, E)
  BY <1>2, <1>4, ArrangedIs
<1>6. Climbs(q, S)
  BY <1>3, <1>5 DEF Lists, Climbs
<1>7. DOMAIN q = 1..Cardinality(S)
  BY <1>5 DEF Lists
<1>8. RowsAt(rows, S) = [n \in 1..Cardinality(S) |-> rows[q[n]]]
  BY <1>7 DEF RowsAt, E
<1> QED BY <1>2, <1>6, <1>8

(* What a reader may say of the rows at some positions.                    *)
LEMMA RowsAtHas ==
  ASSUME NEW R, NEW rows \in Seq(R), NEW S \in SUBSET DOMAIN rows
  PROVE  /\ RowsAt(rows, S) \in Seq(R)
         /\ \A n \in DOMAIN RowsAt(rows, S) : \E i \in S : RowsAt(rows, S)[n] = rows[i]
         /\ \A i \in S : \E n \in DOMAIN RowsAt(rows, S) : RowsAt(rows, S)[n] = rows[i]
<1>1. PICK q : Climbs(q, S) /\ RowsAt(rows, S) = [n \in 1..Cardinality(S) |-> rows[q[n]]]
  BY RowsAtIs
<1>2. Cardinality(S) \in Nat /\ q \in [1..Cardinality(S) -> S]
  BY <1>1 DEF Climbs
<1>3. \A n \in 1..Cardinality(S) : q[n] \in S /\ rows[q[n]] \in R
  BY <1>2
<1>4. RowsAt(rows, S) \in Seq(R)
  BY <1>1, <1>2, <1>3
<1>5. /\ DOMAIN RowsAt(rows, S) = 1..Cardinality(S)
      /\ \A n \in 1..Cardinality(S) : RowsAt(rows, S)[n] = rows[q[n]]
  BY <1>1
<1>6. \A i \in S : \E n \in 1..Cardinality(S) : q[n] = i
  BY <1>1 DEF Climbs
<1> QED BY <1>3, <1>4, <1>5, <1>6

-----------------------------------------------------------------------------
LEMMA KeyFacts ==
  ASSUME NEW k \in Kinds, NEW a \in StoredRow, NEW b \in StoredRow, Key(k, a) = Key(k, b)
  PROVE  a.time = b.time /\ Day(a) = Day(b)
BY DEF Key, Day, Kinds

LEMMA DayIs ==
  ASSUME NEW a \in StoredRow
  PROVE  a.time \in Nat /\ Day(a) \in Nat
BY HistoryAssumption DEF StoredRow, Day

LEMMA DaysApart ==
  ASSUME NEW a \in StoredRow, NEW b \in StoredRow, Day(a) < Day(b)
  PROVE  a.time < b.time
BY HistoryAssumption DEF StoredRow, Day

(* The rows _sort_and_dedupe() keeps: those without a later one of the key.*)
KeptOf(k, rows) ==
  {i \in DOMAIN rows : \A j \in (i + 1)..Len(rows) : Key(k, rows[j]) # Key(k, rows[i])}

Sorts(q, k, rows) ==
  /\ Cardinality(KeptOf(k, rows)) \in Nat
  /\ q \in [1..Cardinality(KeptOf(k, rows)) -> KeptOf(k, rows)]
  /\ \A i, j \in 1..Cardinality(KeptOf(k, rows)) : i < j => Precedes(rows, q[i], q[j])
  /\ \A x \in KeptOf(k, rows) : \E i \in 1..Cardinality(KeptOf(k, rows)) : q[i] = x
  /\ SortDedupe(k, rows) = [n \in 1..Cardinality(KeptOf(k, rows)) |-> rows[q[n]]]

LEMMA SortDedupeIs ==
  ASSUME NEW k \in Kinds, NEW rows \in Seq(StoredRow)
  PROVE  \E q : Sorts(q, k, rows)
<1> DEFINE S == KeptOf(k, rows)
           E == {p \in S \X S : Precedes(rows, p[1], p[2])}
           q == Arranged(S, E)
<1>1. S \subseteq 1..Len(rows) /\ Len(rows) \in Nat
  BY DEF KeptOf
<1>2. IsFiniteSet(S)
  BY <1>1, Interval, FS_Subset
<1>3. \A x, y \in S : <<x, y>> \in E <=> Precedes(rows, x, y)
  OBVIOUS
<1>4. \A x \in S : x \in Nat /\ rows[x].time \in Nat
  BY <1>1, DayIs
<1> HIDE DEF E, S
<1>5. \A x, y \in S : x # y => Precedes(rows, x, y) \/ Precedes(rows, y, x)
  BY <1>4 DEF Precedes
<1>6. \A x, y, z \in S : Precedes(rows, x, y) /\ Precedes(rows, y, z) => Precedes(rows, x, z)
  BY <1>4 DEF Precedes
<1>7. Ordering(S, E)
  BY <1>3, <1>5, <1>6, Zenon DEF Ordering
<1>8. Cardinality(S) \in Nat /\ Lists(q, S, E)
  BY <1>2, <1>7, ArrangedIs
<1>9. /\ q \in [1..Cardinality(S) -> S] /\ DOMAIN q = 1..Cardinality(S)
      /\ \A i, j \in 1..Cardinality(S) : i < j => <<q[i], q[j]>> \in E
      /\ \A x \in S : \E i \in 1..Cardinality(S) : q[i] = x
  BY <1>8 DEF Lists
<1>10. \A i, j \in 1..Cardinality(S) : i < j => Precedes(rows, q[i], q[j])
  BY <1>3, <1>9
<1>11. SortDedupe(k, rows) = [n \in 1..Cardinality(S) |-> rows[q[n]]]
  <2>1. SortDedupe(k, rows) = [n \in DOMAIN q |-> rows[q[n]]]
    BY DEF SortDedupe, S, E, KeptOf
  <2> QED BY <1>9, <2>1
<1> HIDE DEF q
<1> QED BY <1>8, <1>9, <1>10, <1>11 DEF Sorts, S

(* The last row of a key is kept.                                          *)
LEMMA LastOfKey ==
  ASSUME NEW k \in Kinds, NEW rows \in Seq(StoredRow), NEW i \in DOMAIN rows
  PROVE  \E m \in KeptOf(k, rows) : Key(k, rows[m]) = Key(k, rows[i])
<1> DEFINE P == {n \in Nat : \A j \in DOMAIN rows : Len(rows) - j = n =>
                   \E m \in KeptOf(k, rows) : Key(k, rows[m]) = Key(k, rows[j])}
<1>1. ASSUME NEW n \in Nat, \A m \in 0..(n - 1) : m \in P
      PROVE  n \in P
  <2> SUFFICES ASSUME NEW j \in DOMAIN rows, Len(rows) - j = n
               PROVE  \E m \in KeptOf(k, rows) : Key(k, rows[m]) = Key(k, rows[j])
    OBVIOUS
  <2>1. CASE j \in KeptOf(k, rows)
    BY <2>1
  <2>2. CASE j \notin KeptOf(k, rows)
    <3>1. PICK l \in (j + 1)..Len(rows) : Key(k, rows[l]) = Key(k, rows[j])
      BY <2>2 DEF KeptOf
    <3>2. l \in DOMAIN rows /\ Len(rows) - l \in 0..(n - 1)
      OBVIOUS
    <3>3. Len(rows) - l \in P
      BY <1>1, <3>2
    <3> QED BY <3>1, <3>2, <3>3
  <2> QED BY <2>1, <2>2
<1>2. \A n \in Nat : n \in P
  <2> HIDE DEF P
  <2> QED BY <1>1, Induct
<1>3. Len(rows) - i \in Nat
  OBVIOUS
<1> QED BY <1>2, <1>3

(* The rows of a partition as they should be: in order of time, no two of  *)
(* one key.                                                                *)
Tidy(k, rows) ==
  \A m, n \in DOMAIN rows :
    m < n => rows[m].time <= rows[n].time /\ Key(k, rows[m]) # Key(k, rows[n])

LEMMA KeptApart ==
  ASSUME NEW k \in Kinds, NEW rows \in Seq(StoredRow),
         NEW i \in KeptOf(k, rows), NEW j \in KeptOf(k, rows), i # j
  PROVE  Key(k, rows[i]) # Key(k, rows[j])
BY DEF KeptOf

LEMMA SortDedupeHas ==
  ASSUME NEW k \in Kinds, NEW rows \in Seq(StoredRow)
  PROVE  /\ SortDedupe(k, rows) \in Seq(StoredRow)
         /\ Tidy(k, SortDedupe(k, rows))
         /\ \A n \in DOMAIN SortDedupe(k, rows) :
              \E i \in DOMAIN rows : SortDedupe(k, rows)[n] = rows[i]
         /\ \A i \in DOMAIN rows :
              \E n \in DOMAIN SortDedupe(k, rows) : Key(k, SortDedupe(k, rows)[n]) = Key(k, rows[i])
<1> DEFINE S == KeptOf(k, rows)
           N == Cardinality(S)
           s == SortDedupe(k, rows)
<1>1. PICK q : Sorts(q, k, rows)
  BY SortDedupeIs
<1>2. /\ N \in Nat /\ q \in [1..N -> S]
      /\ \A i, j \in 1..N : i < j => Precedes(rows, q[i], q[j])
      /\ \A x \in S : \E i \in 1..N : q[i] = x
      /\ s = [n \in 1..N |-> rows[q[n]]]
  BY <1>1 DEF Sorts
<1>3. S \subseteq DOMAIN rows
  BY DEF KeptOf
<1> HIDE DEF S, N, s
<1>4. ASSUME NEW n \in 1..N PROVE q[n] \in S /\ q[n] \in DOMAIN rows /\ rows[q[n]] \in StoredRow
  BY <1>2, <1>3
<1>5. s \in Seq(StoredRow) /\ DOMAIN s = 1..N
  BY <1>2, <1>4
<1>6. Tidy(k, s)
  <2> SUFFICES ASSUME NEW m \in 1..N, NEW n \in 1..N, m < n
               PROVE  s[m].time <= s[n].time /\ Key(k, s[m]) # Key(k, s[n])
    BY <1>5 DEF Tidy
  <2>1. s[m] = rows[q[m]] /\ s[n] = rows[q[n]] /\ Precedes(rows, q[m], q[n])
    BY <1>2
  <2>2. q[m] # q[n] /\ s[m].time <= s[n].time
    BY <1>4, <2>1, DayIs DEF Precedes
  <2> QED BY <1>4, <2>1, <2>2, KeptApart DEF S
<1>7. ASSUME NEW n \in DOMAIN s PROVE \E i \in DOMAIN rows : s[n] = rows[i]
  BY <1>2, <1>4, <1>5
<1>8. ASSUME NEW i \in DOMAIN rows PROVE \E n \in DOMAIN s : Key(k, s[n]) = Key(k, rows[i])
  <2>1. PICK m \in S : Key(k, rows[m]) = Key(k, rows[i])
    BY LastOfKey DEF S
  <2>2. PICK n \in 1..N : q[n] = m
    BY <1>2
  <2> QED BY <1>2, <1>5, <2>1, <2>2
<1> QED BY <1>5, <1>6, <1>7, <1>8 DEF s

-----------------------------------------------------------------------------
DaysOf == 0..(Days - 1)

(* A row is among those of s.                                             *)
Has(s, row) == \E n \in DOMAIN s : s[n] = row

(* What is in the files: rows in their partition, in order, of one key     *)
(* each.                                                                   *)
FilesTyped ==
  /\ store \in [Kinds -> [DaysOf -> Seq(StoredRow)]]
  /\ \A k \in Kinds, d \in DaysOf :
       /\ \A i \in DOMAIN store[k][d] : Day(store[k][d][i]) = d
       /\ Tidy(k, store[k][d])

LEMMA FinitePlaces ==
  ASSUME NEW k \in Kinds, FilesTyped
  PROVE  IsFiniteSet(Places(k))
<1> DEFINE Of(d) == {<<d, i>> : i \in DOMAIN store[k][d]}
           T == {Of(d) : d \in DaysOf}
<1>1. ASSUME NEW d \in DaysOf PROVE IsFiniteSet(Of(d))
  <2>1. store[k][d] \in Seq(StoredRow)
    BY DEF FilesTyped
  <2>2. IsFiniteSet(DOMAIN store[k][d])
    BY <2>1, Interval
  <2> DEFINE f == [i \in DOMAIN store[k][d] |-> <<d, i>>]
  <2>3. f \in Surjection(DOMAIN store[k][d], Of(d))
    BY DEF Surjection
  <2> HIDE DEF f, Of
  <2> QED BY <2>2, <2>3, FS_Surjection
<1>2. IsFiniteSet(DaysOf)
  BY HistoryAssumption, FS_Interval DEF DaysOf
<1>3. IsFiniteSet(T)
  <2> DEFINE f == [d \in DaysOf |-> Of(d)]
  <2> HIDE DEF Of
  <2>1. f \in Surjection(DaysOf, T)
    BY DEF Surjection
  <2> HIDE DEF f, T
  <2> QED BY <1>2, <2>1, FS_Surjection
<1>4. \A U \in T : IsFiniteSet(U)
  <2> HIDE DEF Of
  <2> QED BY <1>1
<1>5. IsFiniteSet(UNION T)
  <2> HIDE DEF T
  <2> QED BY <1>3, <1>4, FS_UNION
<1>6. Places(k) = UNION T
  BY DEF Places, DaysOf
<1> QED BY <1>5, <1>6

(* What a reader gets of the rows at some places of the files.             *)
Reads(rows, k, places) ==
  /\ rows \in Seq(StoredRow)
  /\ Tidy(k, rows)
  /\ \A n \in DOMAIN rows : \E p \in places : rows[n] = store[k][p[1]][p[2]]
  /\ \A p \in places : \E n \in DOMAIN rows : rows[n] = store[k][p[1]][p[2]]

LEMMA PlacesAre ==
  ASSUME NEW k \in Kinds, FilesTyped, NEW p \in Places(k)
  PROVE  /\ p[1] \in DaysOf /\ p[1] \in Nat /\ p[2] \in DOMAIN store[k][p[1]] /\ p[2] \in Nat
         /\ p = <<p[1], p[2]>>
         /\ store[k][p[1]][p[2]] \in StoredRow /\ Day(store[k][p[1]][p[2]]) = p[1]
<1>1. PICK d \in DaysOf : \E i \in DOMAIN store[k][d] : p = <<d, i>>
  BY DEF Places, DaysOf
<1>2. PICK i \in DOMAIN store[k][d] : p = <<d, i>>
  BY <1>1
<1>3. store[k][d] \in Seq(StoredRow) /\ Day(store[k][d][i]) = d /\ d \in Nat
  BY HistoryAssumption DEF FilesTyped, DaysOf
<1>4. store[k][d][i] \in StoredRow /\ i \in Nat
  BY <1>3
<1> QED BY <1>2, <1>3, <1>4

LEMMA RowsOfIs ==
  ASSUME NEW k \in Kinds, FilesTyped, NEW places \in SUBSET Places(k)
  PROVE  Reads(RowsOf(k, places), k, places)
<1> DEFINE E == InFiles(places)
           q == Arranged(places, E)
           N == Cardinality(places)
           row(p) == store[k][p[1]][p[2]]
<1>1. IsFiniteSet(places)
  BY FinitePlaces, FS_Subset
<1>2. \A x, y \in places :
        <<x, y>> \in E <=> x[1] < y[1] \/ (x[1] = y[1] /\ x[2] < y[2])
  BY DEF InFiles
<1>3. ASSUME NEW p \in places
      PROVE  /\ p[1] \in DaysOf /\ p[1] \in Nat /\ p[2] \in DOMAIN store[k][p[1]] /\ p[2] \in Nat
             /\ p = <<p[1], p[2]>> /\ row(p) \in StoredRow /\ Day(row(p)) = p[1]
  BY PlacesAre
<1> HIDE DEF E, row
<1>4. \A x, y \in places : x # y => <<x, y>> \in E \/ <<y, x>> \in E
  <2> SUFFICES ASSUME NEW x \in places, NEW y \in places, x # y
               PROVE  <<x, y>> \in E \/ <<y, x>> \in E
    OBVIOUS
  <2>1. x[1] # y[1] \/ x[2] # y[2]
    BY <1>3, Zenon
  <2>2. x[1] \in Nat /\ y[1] \in Nat /\ x[2] \in Nat /\ y[2] \in Nat
    BY <1>3
  <2>3. x[1] < y[1] \/ (x[1] = y[1] /\ x[2] < y[2]) \/ y[1] < x[1] \/ (y[1] = x[1] /\ y[2] < x[2])
    BY <2>1, <2>2
  <2> QED BY <1>2, <2>3
<1>5. \A x, y, z \in places : <<x, y>> \in E /\ <<y, z>> \in E => <<x, z>> \in E
  <2> SUFFICES ASSUME NEW x \in places, NEW y \in places, NEW z \in places,
                      <<x, y>> \in E, <<y, z>> \in E
               PROVE  <<x, z>> \in E
    OBVIOUS
  <2>1. /\ x[1] \in Nat /\ y[1] \in Nat /\ z[1] \in Nat
        /\ x[2] \in Nat /\ y[2] \in Nat /\ z[2] \in Nat
    BY <1>3
  <2>2. x[1] < y[1] \/ (x[1] = y[1] /\ x[2] < y[2])
    BY <1>2
  <2>3. y[1] < z[1] \/ (y[1] = z[1] /\ y[2] < z[2])
    BY <1>2
  <2>4. x[1] < z[1] \/ (x[1] = z[1] /\ x[2] < z[2])
    BY <2>1, <2>2, <2>3
  <2> QED BY <1>2, <2>4
<1>6. N \in Nat /\ Lists(q, places, E)
  BY <1>1, <1>4, <1>5, ArrangedIs DEF Ordering
<1>7. /\ q \in [1..N -> places] /\ DOMAIN q = 1..N
      /\ \A i, j \in 1..N : i < j => <<q[i], q[j]>> \in E
      /\ \A x \in places : \E i \in 1..N : q[i] = x
  BY <1>6 DEF Lists
<1>8. RowsOf(k, places) = [n \in 1..N |-> row(q[n])]
  <2>1. RowsOf(k, places) = [n \in DOMAIN q |-> row(q[n])]
    BY DEF RowsOf, E, row
  <2> QED BY <1>7, <2>1
<1> HIDE DEF q, N
<1> DEFINE r == RowsOf(k, places)
<1>9. ASSUME NEW n \in 1..N PROVE q[n] \in places /\ r[n] = row(q[n]) /\ r[n] \in StoredRow
  BY <1>3, <1>7, <1>8
<1>10. r \in Seq(StoredRow) /\ DOMAIN r = 1..N
  BY <1>6, <1>8, <1>9
<1> HIDE DEF r
<1>11. Tidy(k, r)
  <2> SUFFICES ASSUME NEW m \in 1..N, NEW n \in 1..N, m < n
               PROVE  r[m].time <= r[n].time /\ Key(k, r[m]) # Key(k, r[n])
    BY <1>10 DEF Tidy
  <2>1. q[m][1] < q[n][1] \/ (q[m][1] = q[n][1] /\ q[m][2] < q[n][2])
    BY <1>2, <1>7, <1>9
  <2>2. /\ r[m] \in StoredRow /\ r[n] \in StoredRow
        /\ Day(r[m]) = q[m][1] /\ Day(r[n]) = q[n][1]
    BY <1>3, <1>9
  <2>3. r[m].time \in Nat /\ r[n].time \in Nat /\ Day(r[m]) \in Nat /\ Day(r[n]) \in Nat
    BY <2>2, DayIs
  <2>4. CASE q[m][1] < q[n][1]
    <3>1. r[m].time < r[n].time
      BY <2>2, <2>4, DaysApart
    <3> QED BY <2>2, <2>3, <3>1, KeyFacts
  <2>5. CASE q[m][1] = q[n][1] /\ q[m][2] < q[n][2]
    <3> DEFINE d == q[m][1]
    <3>1. /\ d \in DaysOf /\ q[m][2] \in DOMAIN store[k][d] /\ q[n][2] \in DOMAIN store[k][d]
          /\ r[m] = store[k][d][q[m][2]] /\ r[n] = store[k][d][q[n][2]]
      BY <1>3, <1>9, <2>5 DEF row
    <3>2. Tidy(k, store[k][d])
      BY <3>1 DEF FilesTyped
    <3> HIDE DEF d
    <3> QED BY <2>5, <3>1, <3>2 DEF Tidy
  <2> QED BY <2>1, <2>4, <2>5
<1>12. \A n \in DOMAIN r : \E p \in places : r[n] = row(p)
  BY <1>9, <1>10
<1>13. \A p \in places : \E n \in DOMAIN r : r[n] = row(p)
  BY <1>7, <1>9, <1>10
<1> QED BY <1>10, <1>11, <1>12, <1>13 DEF Reads, r, row

(* A range has the rows of its times, in order, none of a key twice.       *)
RangeRead(rows, k, from, until) ==
  /\ rows \in Seq(StoredRow)
  /\ Tidy(k, rows)
  /\ \A n \in DOMAIN rows :
       /\ from <= rows[n].time /\ rows[n].time < until
       /\ Day(rows[n]) \in DaysOf
       /\ Has(store[k][Day(rows[n])], rows[n])
  /\ \A d \in DaysOf : \A i \in DOMAIN store[k][d] :
       from <= store[k][d][i].time /\ store[k][d][i].time < until => Has(rows, store[k][d][i])

LEMMA ReadRangeIs ==
  ASSUME NEW k \in Kinds, FilesTyped, NEW from \in Nat, NEW until \in Nat
  PROVE  RangeRead(ReadRange(k, from, until), k, from, until)
<1> DEFINE places == {p \in Places(k) : /\ from <= store[k][p[1]][p[2]].time
                                        /\ store[k][p[1]][p[2]].time < until}
           r == ReadRange(k, from, until)
<1>1. r = RowsOf(k, places)
  BY DEF ReadRange
<1>2. \A p \in places : p \in Places(k) /\ from <= store[k][p[1]][p[2]].time
                                        /\ store[k][p[1]][p[2]].time < until
  OBVIOUS
<1>3. ASSUME NEW d \in DaysOf, NEW i \in DOMAIN store[k][d],
             from <= store[k][d][i].time, store[k][d][i].time < until
      PROVE  <<d, i>> \in places
  BY <1>3 DEF Places, DaysOf
<1>4. Reads(r, k, places)
  BY <1>1, RowsOfIs
<1> HIDE DEF places, r
<1>5. ASSUME NEW n \in DOMAIN r
      PROVE  /\ from <= r[n].time /\ r[n].time < until /\ Day(r[n]) \in DaysOf
             /\ Has(store[k][Day(r[n])], r[n])
  <2>1. PICK p \in places : r[n] = store[k][p[1]][p[2]]
    BY <1>4 DEF Reads
  <2>2. p[1] \in DaysOf /\ p[2] \in DOMAIN store[k][p[1]] /\ Day(r[n]) = p[1]
    BY <1>2, <2>1, PlacesAre
  <2> QED BY <1>2, <2>1, <2>2 DEF Has
<1>6. ASSUME NEW d \in DaysOf, NEW i \in DOMAIN store[k][d],
             from <= store[k][d][i].time, store[k][d][i].time < until
      PROVE  Has(r, store[k][d][i])
  <2>1. <<d, i>> \in places
    BY <1>3, <1>6
  <2>2. PICK n \in DOMAIN r : r[n] = store[k][<<d, i>>[1]][<<d, i>>[2]]
    BY <1>4, <2>1 DEF Reads
  <2> QED BY <2>2 DEF Has
<1> QED BY <1>4, <1>5, <1>6, Zenon DEF Reads, RangeRead, r

-----------------------------------------------------------------------------
(* The rows of l of day d that no later row took the place of.             *)
Standing(k, l, d) ==
  {i \in 1..Len(l) : Day(l[i]) = d /\ \A j \in (i + 1)..Len(l) : Key(k, l[j]) # Key(k, l[i])}

(* pos[n] is where in l, the rows ever stored, row n of partition s is.    *)
Matches(pos, k, l, d, s) ==
  /\ pos \in [DOMAIN s -> Standing(k, l, d)]
  /\ \A n \in DOMAIN s : l[pos[n]] = s[n]
  /\ \A m, n \in DOMAIN s : m < n => Precedes(l, pos[m], pos[n])
  /\ \A i \in Standing(k, l, d) : \E n \in DOMAIN s : pos[n] = i

(* What has been read, followed by new rows of the day: where its rows are *)
(* among those ever stored.                                                *)
JointAt(pos, h, l, i) == IF i <= Len(h) THEN pos[i] ELSE Len(l) + (i - Len(h))

Comes(pos, k, d, l, h, new, i) ==
  /\ JointAt(pos, h, l, i) \in 1..(Len(l) + Len(new))
  /\ (l \o new)[JointAt(pos, h, l, i)] = (h \o new)[i]
  /\ i <= Len(h) => /\ JointAt(pos, h, l, i) = pos[i] /\ pos[i] \in Standing(k, l, d)
                    /\ pos[i] \in 1..Len(l)
  /\ i > Len(h) => JointAt(pos, h, l, i) = Len(l) + (i - Len(h))

LEMMA JointIs ==
  ASSUME NEW k \in Kinds, NEW d, NEW l \in Seq(StoredRow), NEW h \in Seq(StoredRow),
         NEW new \in Seq(StoredRow), NEW pos, Matches(pos, k, l, d, h),
         NEW i \in 1..(Len(h) + Len(new))
  PROVE  Comes(pos, k, d, l, h, new, i)
<1>1. Len(h) \in Nat /\ Len(l) \in Nat /\ Len(new) \in Nat
  OBVIOUS
<1>2. CASE i <= Len(h)
  <2>1. i \in DOMAIN h
    BY <1>1, <1>2
  <2>2. pos[i] \in Standing(k, l, d) /\ l[pos[i]] = h[i]
    BY <2>1 DEF Matches
  <2>3. pos[i] \in 1..Len(l)
    BY <2>2 DEF Standing
  <2>4. JointAt(pos, h, l, i) = pos[i]
    BY <1>2 DEF JointAt
  <2>5. (l \o new)[pos[i]] = l[pos[i]] /\ (h \o new)[i] = h[i]
    BY <1>1, <1>2, <2>3
  <2> QED BY <1>1, <1>2, <2>2, <2>3, <2>4, <2>5 DEF Comes
<1>3. CASE ~(i <= Len(h))
  <2>1. JointAt(pos, h, l, i) = Len(l) + (i - Len(h))
    BY <1>3 DEF JointAt
  <2>2. (h \o new)[i] = new[i - Len(h)]
    BY <1>1, <1>3
  <2>3. (l \o new)[Len(l) + (i - Len(h))] = new[i - Len(h)]
    BY <1>1, <1>3
  <2> QED BY <1>1, <1>3, <2>1, <2>2, <2>3 DEF Comes
<1> QED BY <1>2, <1>3

(* Of two rows that precede each other in the merged file, so do those     *)
(* they come from.                                                         *)
LEMMA JointClimbs ==
  ASSUME NEW k \in Kinds, NEW d, NEW l \in Seq(StoredRow), NEW h \in Seq(StoredRow),
         NEW new \in Seq(StoredRow), NEW pos, Matches(pos, k, l, d, h),
         NEW i \in 1..(Len(h) + Len(new)), NEW j \in 1..(Len(h) + Len(new))
  PROVE  /\ Precedes(h \o new, i, j) =>
              Precedes(l \o new, JointAt(pos, h, l, i), JointAt(pos, h, l, j))
         /\ i <= Len(h) /\ j > Len(h) => JointAt(pos, h, l, i) < JointAt(pos, h, l, j)
         /\ i > Len(h) => (JointAt(pos, h, l, i) < JointAt(pos, h, l, j) <=> i < j /\ j > Len(h))
<1> DEFINE a == JointAt(pos, h, l, i)
           b == JointAt(pos, h, l, j)
           L == Len(l)
           N == Len(h)
           x == h \o new
           y == l \o new
<1>0. Comes(pos, k, d, l, h, new, i) /\ Comes(pos, k, d, l, h, new, j)
  BY JointIs
<1>1. /\ L \in Nat /\ N \in Nat /\ i \in Nat /\ j \in Nat /\ a \in Nat /\ b \in Nat
      /\ y[a] = x[i] /\ y[b] = x[j]
      /\ i <= N => a = pos[i] /\ pos[i] \in 1..L
      /\ i > N => a = L + (i - N)
      /\ j <= N => b = pos[j] /\ pos[j] \in 1..L
      /\ j > N => b = L + (j - N)
  BY <1>0 DEF Comes
<1>2. x[i] \in StoredRow /\ x[j] \in StoredRow
  OBVIOUS
<1>3. x[i].time \in Nat /\ x[j].time \in Nat
  BY <1>2, DayIs
<1>4. ASSUME i <= N, j <= N, x[i].time = x[j].time, i < j PROVE a < b
  <2>1. i \in DOMAIN h /\ j \in DOMAIN h /\ x[i] = h[i] /\ x[j] = h[j]
    BY <1>1, <1>4
  <2>2. Precedes(l, pos[i], pos[j]) /\ l[pos[i]] = h[i] /\ l[pos[j]] = h[j]
    BY <1>4, <2>1 DEF Matches
  <2> QED BY <1>1, <1>3, <1>4, <2>1, <2>2 DEF Precedes
<1> HIDE DEF a, b, L, N, x, y
<1>5. i <= N /\ j > N => a < b
  BY <1>1
<1>6. i > N => (a < b <=> i < j /\ j > N)
  BY <1>1
<1>7. ASSUME Precedes(x, i, j) PROVE Precedes(y, a, b)
  <2>1. CASE x[i].time < x[j].time
    BY <1>1, <2>1 DEF Precedes
  <2>2. CASE x[i].time = x[j].time /\ i < j
    <3>1. a < b
      BY <1>1, <1>4, <1>5, <1>6, <2>2
    <3> QED BY <1>1, <2>2, <3>1 DEF Precedes
  <2> QED BY <1>7, <2>1, <2>2 DEF Precedes
<1> QED BY <1>5, <1>6, <1>7 DEF a, b, L, N, x, y

KeepsStanding(pos, k, d, l, h, new) ==
  /\ \A i \in KeptOf(k, h \o new) : JointAt(pos, h, l, i) \in Standing(k, l \o new, d)
  /\ \A p \in Standing(k, l \o new, d) :
       \E i \in KeptOf(k, h \o new) : JointAt(pos, h, l, i) = p

(* The rows the merge keeps are those that stand.                          *)
LEMMA JointKept ==
  ASSUME NEW k \in Kinds, NEW d, NEW l \in Seq(StoredRow), NEW h \in Seq(StoredRow),
         NEW new \in Seq(StoredRow), \A n \in DOMAIN new : Day(new[n]) = d,
         NEW pos, Matches(pos, k, l, d, h)
  PROVE  KeepsStanding(pos, k, d, l, h, new)
<1> DEFINE L == Len(l)
           N == Len(h)
           M == Len(new)
           x == h \o new
           y == l \o new
           spot(i) == JointAt(pos, h, l, i)
<1>n. L \in Nat /\ N \in Nat /\ M \in Nat
  OBVIOUS
<1>1. /\ L \in Nat /\ N \in Nat /\ M \in Nat
      /\ x \in Seq(StoredRow) /\ Len(x) = N + M /\ DOMAIN x = 1..(N + M)
      /\ y \in Seq(StoredRow) /\ Len(y) = L + M /\ DOMAIN y = 1..(L + M)
  OBVIOUS
<1>2. \A i \in 1..(N + M) :
        /\ spot(i) \in 1..(L + M) /\ y[spot(i)] = x[i]
        /\ i <= N => spot(i) = pos[i] /\ pos[i] \in 1..L /\ pos[i] \in Standing(k, l, d)
        /\ i > N => spot(i) = L + (i - N)
  <2> SUFFICES ASSUME NEW i \in 1..(N + M)
               PROVE  /\ spot(i) \in 1..(L + M) /\ y[spot(i)] = x[i]
                      /\ i <= N => spot(i) = pos[i] /\ pos[i] \in 1..L /\ pos[i] \in Standing(k, l, d)
                      /\ i > N => spot(i) = L + (i - N)
    OBVIOUS
  <2>1. Comes(pos, k, d, l, h, new, i)
    BY JointIs
  <2> QED BY <2>1 DEF Comes
<1>3. \A i \in 1..L : y[i] = l[i]
  OBVIOUS
<1>4. \A m \in 1..M : x[N + m] = new[m] /\ y[L + m] = new[m] /\ Day(new[m]) = d
  OBVIOUS
<1>5. \A i \in 1..N : i \in DOMAIN h /\ x[i] = h[i]
  OBVIOUS
<1> HIDE DEF x, y, spot
<1>6. ASSUME NEW i \in KeptOf(k, x) PROVE spot(i) \in Standing(k, y, d)
  <2>1. i \in 1..(N + M) /\ \A j \in (i + 1)..(N + M) : Key(k, x[j]) # Key(k, x[i])
    BY <1>1 DEF KeptOf
  <2>2. CASE i <= N
    <3>1. /\ spot(i) \in 1..L /\ Day(l[spot(i)]) = d
          /\ \A j \in (spot(i) + 1)..L : Key(k, l[j]) # Key(k, l[spot(i)])
      BY <1>2, <2>1, <2>2 DEF Standing
    <3>2. Day(y[spot(i)]) = d
      BY <1>3, <3>1
    <3>3. ASSUME NEW j \in (spot(i) + 1)..(L + M) PROVE Key(k, y[j]) # Key(k, y[spot(i)])
      <4>1. CASE j <= L
        <5>1. j \in (spot(i) + 1)..L /\ j \in 1..L
          BY <1>1, <3>1, <4>1
        <5> QED BY <1>3, <3>1, <5>1
      <4>2. CASE j > L
        <5> DEFINE m == j - L
        <5>1. m \in 1..M /\ j = L + m /\ N + m \in (i + 1)..(N + M)
          BY <1>1, <2>1, <2>2, <4>2
        <5> HIDE DEF m
        <5>2. Key(k, x[N + m]) # Key(k, x[i]) /\ y[j] = x[N + m]
          BY <1>4, <2>1, <5>1
        <5> QED BY <1>2, <2>1, <5>2
      <4> QED BY <1>1, <3>1, <4>1, <4>2
    <3> QED BY <1>1, <1>2, <2>1, <3>2, <3>3 DEF Standing
  <2>3. CASE i > N
    <3> DEFINE m == i - N
    <3>1. m \in 1..M /\ i = N + m /\ spot(i) = L + m
      BY <1>1, <1>2, <2>1, <2>3
    <3> HIDE DEF m
    <3>2. Day(y[spot(i)]) = d
      BY <1>4, <3>1
    <3>3. ASSUME NEW j \in (spot(i) + 1)..(L + M) PROVE Key(k, y[j]) # Key(k, y[spot(i)])
      <4> DEFINE n == j - L
      <4>1. n \in 1..M /\ j = L + n /\ N + n \in (i + 1)..(N + M)
        BY <1>1, <3>1
      <4> HIDE DEF n
      <4>2. Key(k, x[N + n]) # Key(k, x[i]) /\ y[j] = x[N + n]
        BY <1>4, <2>1, <4>1
      <4> QED BY <1>2, <2>1, <4>2
    <3> QED BY <1>1, <1>2, <2>1, <3>2, <3>3 DEF Standing
  <2> QED BY <1>1, <2>1, <2>2, <2>3
<1>7. ASSUME NEW p \in Standing(k, y, d) PROVE \E i \in KeptOf(k, x) : spot(i) = p
  <2>1. /\ p \in 1..(L + M) /\ Day(y[p]) = d
        /\ \A j \in (p + 1)..(L + M) : Key(k, y[j]) # Key(k, y[p])
    BY <1>1 DEF Standing
  <2>2. CASE p <= L
    <3>1. p \in 1..L /\ y[p] = l[p]
      BY <1>1, <1>3, <2>1, <2>2
    <3>2. \A j \in (p + 1)..L : Key(k, l[j]) # Key(k, l[p])
      <4> SUFFICES ASSUME NEW j \in (p + 1)..L PROVE Key(k, l[j]) # Key(k, l[p])
        OBVIOUS
      <4>1. j \in (p + 1)..(L + M) /\ j \in 1..L
        BY <1>1, <3>1
      <4> QED BY <1>3, <2>1, <3>1, <4>1
    <3>3. p \in Standing(k, l, d)
      BY <2>1, <3>1, <3>2 DEF Standing
    <3>4. PICK i \in DOMAIN h : pos[i] = p
      BY <3>3 DEF Matches
    <3>5. i \in 1..N /\ i \in 1..(N + M) /\ spot(i) = p /\ x[i] = y[p]
      <4>1. i \in 1..N /\ i \in 1..(N + M)
        BY <1>1
      <4> QED BY <1>2, <3>4, <4>1
    <3>6. ASSUME NEW j \in (i + 1)..(N + M) PROVE Key(k, x[j]) # Key(k, x[i])
      <4>1. CASE j <= N
        <5>1. j \in 1..N /\ j \in 1..(N + M) /\ j # i /\ i < j
          BY <1>1, <3>5, <4>1
        <5>2. /\ pos[j] \in Standing(k, l, d) /\ pos[j] \in 1..L
              /\ l[pos[j]] = h[j] /\ x[j] = h[j] /\ l[p] = h[i] /\ x[i] = h[i]
              /\ Precedes(l, p, pos[j])
          BY <1>2, <1>5, <3>4, <3>5, <5>1 DEF Matches
        <5>3. p # pos[j]
          <6>1. l[p] \in StoredRow
            BY <3>1
          <6>2. l[p].time \in Nat
            BY <6>1, DayIs
          <6> QED BY <3>1, <5>2, <6>2 DEF Precedes
        <5>4. Key(k, l[pos[j]]) # Key(k, l[p])
          <6>1. CASE p < pos[j]
            <7>1. pos[j] \in (p + 1)..L
              BY <1>1, <3>1, <5>2, <6>1
            <7> QED BY <3>2, <7>1
          <6>2. CASE pos[j] < p
            <7>1. p \in (pos[j] + 1)..L
              BY <1>1, <3>1, <5>2, <6>2
            <7> QED BY <5>2, <7>1 DEF Standing
          <6> QED BY <3>1, <5>2, <5>3, <6>1, <6>2
        <5> QED BY <5>2, <5>4
      <4>2. CASE j > N
        <5> DEFINE m == j - N
        <5>1. m \in 1..M /\ j = N + m /\ L + m \in (p + 1)..(L + M)
          BY <1>n, <3>1, <3>5, <4>2
        <5> HIDE DEF m
        <5> QED BY <1>4, <2>1, <3>5, <5>1
      <4> QED BY <1>1, <3>5, <4>1, <4>2
    <3> QED BY <1>1, <3>5, <3>6 DEF KeptOf
  <2>3. CASE p > L
    <3> DEFINE m == p - L
               i == N + m
    <3>1. m \in 1..M /\ p = L + m /\ i \in 1..(N + M) /\ i > N /\ i = N + m /\ i - N = m
      BY <1>n, <2>1, <2>3
    <3> HIDE DEF m, i
    <3>2. spot(i) = p /\ x[i] = y[p]
      BY <1>2, <3>1
    <3>3. ASSUME NEW j \in (i + 1)..(N + M) PROVE Key(k, x[j]) # Key(k, x[i])
      <4> DEFINE n == j - N
      <4>1. n \in 1..M /\ j = N + n /\ L + n \in (p + 1)..(L + M)
        BY <1>1, <3>1
      <4> HIDE DEF n
      <4> QED BY <1>4, <2>1, <3>2, <4>1
    <3> QED BY <1>1, <3>1, <3>2, <3>3 DEF KeptOf
  <2> QED BY <1>1, <2>1, <2>2, <2>3
<1> QED BY <1>6, <1>7, Zenon DEF x, y, spot, KeepsStanding

(* A partition that is replaced with what was in it and new rows matches   *)
(* the rows ever stored, ...                                               *)
LEMMA MergeMatches ==
  ASSUME NEW k \in Kinds, NEW d, NEW l \in Seq(StoredRow), NEW h \in Seq(StoredRow),
         NEW new \in Seq(StoredRow), \A n \in DOMAIN new : Day(new[n]) = d,
         NEW pos, Matches(pos, k, l, d, h)
  PROVE  \E to : Matches(to, k, l \o new, d, SortDedupe(k, h \o new))
<1> DEFINE x == h \o new
           y == l \o new
           S == KeptOf(k, x)
           C == Cardinality(S)
           spot(i) == JointAt(pos, h, l, i)
           s == SortDedupe(k, x)
<1>1. x \in Seq(StoredRow) /\ y \in Seq(StoredRow)
  OBVIOUS
<1>2. PICK q : Sorts(q, k, x)
  BY <1>1, SortDedupeIs
<1>3. /\ C \in Nat /\ q \in [1..C -> S]
      /\ \A i, j \in 1..C : i < j => Precedes(x, q[i], q[j])
      /\ \A i \in S : \E n \in 1..C : q[n] = i
      /\ s = [n \in 1..C |-> x[q[n]]]
  BY <1>2 DEF Sorts
<1>4. S \subseteq DOMAIN x
  BY DEF KeptOf
<1>5. \A i \in DOMAIN x : y[spot(i)] = x[i]
  <2>0. DOMAIN x = 1..(Len(h) + Len(new))
    OBVIOUS
  <2> SUFFICES ASSUME NEW i \in 1..(Len(h) + Len(new)) PROVE y[spot(i)] = x[i]
    BY <2>0
  <2>1. Comes(pos, k, d, l, h, new, i)
    BY JointIs
  <2> QED BY <2>1 DEF Comes
<1>6. /\ \A i \in S : spot(i) \in Standing(k, y, d)
      /\ \A p \in Standing(k, y, d) : \E i \in S : spot(i) = p
  <2>1. KeepsStanding(pos, k, d, l, h, new)
    BY JointKept
  <2> QED BY <2>1, Zenon DEF KeepsStanding
<1>7. \A i, j \in DOMAIN x : Precedes(x, i, j) => Precedes(y, spot(i), spot(j))
  <2>1. DOMAIN x = 1..(Len(h) + Len(new))
    OBVIOUS
  <2> QED BY <2>1, JointClimbs, Zenon
<1> DEFINE to == [n \in 1..C |-> spot(q[n])]
<1> HIDE DEF x, y, S, C, spot, s
<1>8. DOMAIN s = 1..C /\ \A n \in 1..C : q[n] \in S /\ q[n] \in DOMAIN x /\ to[n] = spot(q[n]) /\ s[n] = x[q[n]]
  BY <1>3, <1>4
<1>9. to \in [1..C -> Standing(k, y, d)]
  BY <1>6, <1>8
<1> HIDE DEF to
<1>10. \A n \in 1..C : y[to[n]] = s[n]
  BY <1>5, <1>8
<1>11. \A m, n \in 1..C : m < n => Precedes(y, to[m], to[n])
  BY <1>3, <1>7, <1>8
<1>12. \A p \in Standing(k, y, d) : \E n \in 1..C : to[n] = p
  <2> SUFFICES ASSUME NEW p \in Standing(k, y, d) PROVE \E n \in 1..C : to[n] = p
    OBVIOUS
  <2>1. PICK i \in S : spot(i) = p
    BY <1>6
  <2>2. PICK n \in 1..C : q[n] = i
    BY <1>3
  <2> QED BY <1>8, <2>1, <2>2
<1>13. Matches(to, k, y, d, s)
  BY <1>8, <1>9, <1>10, <1>11, <1>12 DEF Matches
<1> QED BY <1>13 DEF x, y, s

(* ... and so do the partitions of other days.                             *)
LEMMA OtherMatches ==
  ASSUME NEW k \in Kinds, NEW d, NEW e, d # e, NEW l \in Seq(StoredRow), NEW s,
         NEW new \in Seq(StoredRow), \A n \in DOMAIN new : Day(new[n]) = d,
         NEW pos, Matches(pos, k, l, e, s)
  PROVE  Matches(pos, k, l \o new, e, s)
<1> DEFINE L == Len(l)
           M == Len(new)
           y == l \o new
<1>1. L \in Nat /\ M \in Nat /\ y \in Seq(StoredRow) /\ Len(y) = L + M
  OBVIOUS
<1>2. \A i \in 1..L : y[i] = l[i] /\ l[i] \in StoredRow
  OBVIOUS
<1>3. \A i \in (L + 1)..(L + M) : y[i] \in StoredRow /\ Day(y[i]) = d
  <2> SUFFICES ASSUME NEW i \in (L + 1)..(L + M) PROVE y[i] \in StoredRow /\ Day(y[i]) = d
    OBVIOUS
  <2>1. i - L \in DOMAIN new /\ y[i] = new[i - L]
    OBVIOUS
  <2> QED BY <2>1
<1> HIDE DEF y, L, M
<1>4. ASSUME NEW i \in 1..L, Day(l[i]) = e, NEW j \in (L + 1)..(L + M)
      PROVE  Key(k, y[j]) # Key(k, y[i])
  BY <1>2, <1>3, <1>4, KeyFacts
<1>5. Standing(k, y, e) = Standing(k, l, e)
  <2>1. ASSUME NEW i \in Standing(k, y, e) PROVE i \in Standing(k, l, e)
    <3>1. /\ i \in 1..(L + M) /\ Day(y[i]) = e
          /\ \A j \in (i + 1)..(L + M) : Key(k, y[j]) # Key(k, y[i])
      BY <1>1 DEF Standing
    <3>2. i \in 1..L
      BY <1>1, <1>3, <3>1
    <3>3. \A j \in (i + 1)..L : Key(k, l[j]) # Key(k, l[i])
      <4> SUFFICES ASSUME NEW j \in (i + 1)..L PROVE Key(k, l[j]) # Key(k, l[i])
        OBVIOUS
      <4>1. j \in (i + 1)..(L + M) /\ j \in 1..L
        BY <1>1, <3>2
      <4> QED BY <1>2, <3>1, <3>2, <4>1
    <3> QED BY <1>2, <3>1, <3>2, <3>3 DEF Standing, L
  <2>2. ASSUME NEW i \in Standing(k, l, e) PROVE i \in Standing(k, y, e)
    <3>1. /\ i \in 1..L /\ Day(l[i]) = e
          /\ \A j \in (i + 1)..L : Key(k, l[j]) # Key(k, l[i])
      BY DEF Standing, L
    <3>2. \A j \in (i + 1)..(L + M) : Key(k, y[j]) # Key(k, y[i])
      <4> SUFFICES ASSUME NEW j \in (i + 1)..(L + M) PROVE Key(k, y[j]) # Key(k, y[i])
        OBVIOUS
      <4>1. CASE j <= L
        <5>1. j \in (i + 1)..L /\ j \in 1..L
          BY <1>1, <3>1, <4>1
        <5> QED BY <1>2, <3>1, <5>1
      <4>2. CASE j > L
        <5>1. j \in (L + 1)..(L + M)
          BY <1>1, <3>1, <4>2
        <5> QED BY <1>4, <3>1, <5>1
      <4> QED BY <1>1, <3>1, <4>1, <4>2
    <3>3. i \in 1..(L + M)
      BY <1>1, <3>1
    <3> QED BY <1>1, <1>2, <3>1, <3>2, <3>3 DEF Standing
  <2> QED BY <2>1, <2>2
<1>6. \A n \in DOMAIN s : pos[n] \in 1..L
  BY DEF Matches, Standing, L
<1>7. \A n \in DOMAIN s : y[pos[n]] = l[pos[n]]
  BY <1>2, <1>6
<1>8. \A m, n \in DOMAIN s : Precedes(l, pos[m], pos[n]) => Precedes(y, pos[m], pos[n])
  BY <1>7 DEF Precedes
<1>9. Matches(pos, k, y, e, s)
  BY <1>5, <1>7, <1>8 DEF Matches
<1> QED BY <1>9 DEF y

-----------------------------------------------------------------------------
JobRecords ==
  [at : {"idle", "busy", "reading", "done", "failed"}, next : Nat,
   batch : Seq(StoredRow), held : Seq(StoredRow), runs : Nat]

(* What an import has taken of its file is at hand or stored, in l.        *)
JobGood(j, w, l) ==
  /\ j \in JobRecords
  /\ j.next \in 1..(Len(Rows(w)) + 1)
  /\ \A n \in DOMAIN j.batch : Day(j.batch[n]) \in DaysOf
  /\ j.at = "reading" =>
       j.batch # <<>> /\ \A n \in DOMAIN j.held : Day(j.held[n]) = Day(Head(j.batch))
  /\ j.at = "done" => j.batch = <<>> /\ j.next = Len(Rows(w)) + 1
  /\ j.at \in {"busy", "reading", "done"} =>
       \A i \in DOMAIN Rows(w) : i < j.next => Has(j.batch, Rows(w)[i]) \/ Has(l, Rows(w)[i])

JobsInv ==
  /\ job \in [Imports -> JobRecords]
  /\ \A w \in Imports : JobGood(job[w], w, log[Source[w].kind])

(* A partition has the rows that stand, in order, unless an import         *)
(* replaced it under another.                                              *)
FilesMatch ==
  \A k \in Kinds : ~lost[k] =>
    \A d \in DaysOf : \E pos : Matches(pos, k, log[k], d, store[k][d])

ImportInv ==
  /\ FilesTyped
  /\ log \in [Kinds -> Seq(StoredRow)] /\ lost \in [Kinds -> BOOLEAN]
  /\ JobsInv
  /\ FilesMatch

LEMMA RowsAre ==
  ASSUME NEW w \in Imports
  PROVE  /\ Source[w].kind \in Kinds /\ Rows(w) \in Seq(StoredRow) /\ Len(Rows(w)) \in Nat
         /\ \A i \in DOMAIN Rows(w) : Rows(w)[i] \in StoredRow /\ Day(Rows(w)[i]) \in DaysOf
<1>1. /\ Source[w].kind \in Kinds /\ Rows(w) \in Seq(StoredRow) /\ Days \in Nat
      /\ \A i \in DOMAIN Rows(w) : Day(Rows(w)[i]) < Days
  BY HistoryAssumption
<1> HIDE DEF Rows
<1>2. ASSUME NEW i \in DOMAIN Rows(w) PROVE Rows(w)[i] \in StoredRow /\ Day(Rows(w)[i]) \in DaysOf
  <2>1. Rows(w)[i] \in StoredRow
    BY <1>1
  <2>2. Day(Rows(w)[i]) \in Nat
    BY <2>1, DayIs
  <2> QED BY <1>1, <2>1, <2>2 DEF DaysOf
<1> QED BY <1>1, <1>2

(* A step of one import that stores nothing.                               *)
LEMMA OneJob ==
  ASSUME ImportInv, NEW w \in Imports, NEW j, JobGood(j, w, log[Source[w].kind]),
         job' = [job EXCEPT ![w] = j], UNCHANGED <<store, log, lost>>
  PROVE  ImportInv'
<1>1. FilesTyped' /\ FilesMatch' /\ log' \in [Kinds -> Seq(StoredRow)] /\ lost' \in [Kinds -> BOOLEAN]
  BY DEF ImportInv, FilesTyped, FilesMatch
<1>2. j \in JobRecords /\ job \in [Imports -> JobRecords]
  BY DEF JobGood, ImportInv, JobsInv
<1>3. job' \in [Imports -> JobRecords]
  BY <1>2
<1>4. ASSUME NEW u \in Imports PROVE JobGood(job'[u], u, log'[Source[u].kind])
  <2>1. log' = log
    OBVIOUS
  <2>2. job'[u] = IF u = w THEN j ELSE job[u]
    BY <1>2
  <2>3. JobGood(job[u], u, log[Source[u].kind])
    BY DEF ImportInv, JobsInv
  <2> QED BY <2>1, <2>2, <2>3
<1> QED BY <1>1, <1>3, <1>4 DEF ImportInv, JobsInv

LEMMA JobSteps ==
  ASSUME ImportInv, NEW w \in Imports,
         BeginImport(w) \/ NextBatch(w) \/ ReadDay(w) \/ FinishImport(w) \/ KillImport(w)
  PROVE  ImportInv'
<1> DEFINE l == log[Source[w].kind]
           R == Rows(w)
           N == Len(R)
<1>0. /\ job[w] \in JobRecords /\ job \in [Imports -> JobRecords] /\ JobGood(job[w], w, l)
      /\ job[w].next \in Nat /\ job[w].batch \in Seq(StoredRow) /\ job[w].held \in Seq(StoredRow)
      /\ job[w].runs \in Nat
  BY DEF ImportInv, JobsInv, JobRecords
<1>r. /\ R \in Seq(StoredRow) /\ N \in Nat /\ DOMAIN R = 1..N /\ Source[w].kind \in Kinds
      /\ \A i \in DOMAIN R : R[i] \in StoredRow /\ Day(R[i]) \in DaysOf
  BY RowsAre
<1>k. /\ \A n \in DOMAIN job[w].batch : Day(job[w].batch[n]) \in DaysOf
      /\ job[w].at \in {"busy", "reading", "done"} =>
           \A i \in DOMAIN R : i < job[w].next => Has(job[w].batch, R[i]) \/ Has(l, R[i])
  BY <1>0 DEF JobGood
<1>n. N \in Nat /\ job[w].next \in 1..(N + 1)
  BY <1>0, <1>r DEF JobGood
<1> HIDE DEF l, R, N
<1>1. ASSUME BeginImport(w) PROVE ImportInv'
  <2>1. PICK to \in {"busy", "failed"} :
          job' = [job EXCEPT ![w] = [at |-> to, next |-> 1, batch |-> <<>>, held |-> <<>>,
                                     runs |-> job[w].runs + 1]]
    BY <1>1 DEF BeginImport
  <2> DEFINE j == [at |-> to, next |-> 1, batch |-> <<>>, held |-> <<>>, runs |-> job[w].runs + 1]
  <2>2. j \in JobRecords
    BY <1>0 DEF JobRecords
  <2>3. j.next = 1 /\ j.batch = <<>> /\ j.at = to
    OBVIOUS
  <2> HIDE DEF j
  <2>4. JobGood(j, w, log[Source[w].kind])
    BY <1>r, <2>2, <2>3 DEF JobGood, R, N
  <2> QED BY <1>1, <2>1, <2>4, OneJob DEF BeginImport, j
<1>2. ASSUME NextBatch(w) PROVE ImportInv'
  <2> DEFINE size == IF Source[w].kind = "ticks" THEN BatchSize ELSE N
             last == IF job[w].next + size - 1 < N THEN job[w].next + size - 1 ELSE N
             j == [job[w] EXCEPT !.batch = SubSeq(R, job[w].next, last), !.next = last + 1]
  <2>1. /\ job[w].at = "busy" /\ job[w].batch = <<>> /\ job[w].next <= N
        /\ job' = [job EXCEPT ![w].batch = SubSeq(R, job[w].next, last), ![w].next = last + 1]
        /\ UNCHANGED <<store, log, lost>>
    BY <1>2 DEF NextBatch, R, N
  <2>2. job[w].next \in 1..N
    BY <1>n, <2>1
  <2>3. size \in Nat \ {0}
    BY <1>n, <2>2, HistoryAssumption
  <2> HIDE DEF size
  <2>4. last \in job[w].next..N
    BY <1>n, <2>2, <2>3
  <2> HIDE DEF last
  <2> DEFINE a == job[w].next
             b == SubSeq(R, a, last)
  <2>5. /\ b \in Seq(StoredRow) /\ Len(b) = last - a + 1
        /\ \A n \in 1..(last - a + 1) : b[n] = R[a + n - 1]
    <3>1. a \in 1..N /\ last \in a..N
      BY <2>2, <2>4
    <3> HIDE DEF a
    <3> QED BY <1>r, <3>1 DEF N
  <2>6. job' = [job EXCEPT ![w] = j]
    BY <1>0, <2>1
  <2>7. j \in JobRecords /\ j.batch = b /\ j.next = last + 1 /\ j.at = "busy"
    <3>1. last + 1 \in Nat
      BY <2>2, <2>4
    <3> HIDE DEF b
    <3>2. b = SubSeq(R, job[w].next, last)
      BY DEF b
    <3> QED BY <1>0, <2>1, <2>5, <3>1, <3>2 DEF JobRecords
  <2> HIDE DEF j, b
  <2>8. \A n \in DOMAIN j.batch : Day(j.batch[n]) \in DaysOf
    <3> SUFFICES ASSUME NEW n \in DOMAIN b PROVE Day(b[n]) \in DaysOf
      BY <2>7
    <3>1. n \in 1..(last - a + 1) /\ a + n - 1 \in 1..N
      <4>1. DOMAIN b = 1..(last - a + 1)
        BY <1>n, <2>2, <2>4, <2>5
      <4> QED BY <1>n, <2>2, <2>4, <4>1
    <3> QED BY <1>r, <2>5, <3>1
  <2>9. ASSUME NEW i \in DOMAIN R, i < last + 1 PROVE Has(b, R[i]) \/ Has(l, R[i])
    <3>1. CASE i < a
      <4>1. ~Has(job[w].batch, R[i])
        BY <2>1 DEF Has
      <4> QED BY <1>0, <1>k, <2>1, <3>1, <4>1
    <3>2. CASE ~(i < a)
      <4> DEFINE n == i - a + 1
      <4>1. n \in 1..(last - a + 1) /\ a + n - 1 = i /\ DOMAIN b = 1..(last - a + 1)
        BY <1>r, <2>2, <2>4, <2>5, <2>9, <3>2, SMTT(30)
      <4> HIDE DEF n
      <4> QED BY <2>5, <4>1 DEF Has
    <3> QED BY <3>1, <3>2
  <2>10. j.next \in 1..(N + 1)
    BY <1>n, <2>2, <2>4, <2>7
  <2>11. JobGood(j, w, log[Source[w].kind])
    BY <2>7, <2>8, <2>9, <2>10 DEF JobGood, R, N, l
  <2> QED BY <2>1, <2>6, <2>11, OneJob
<1>3. ASSUME ReadDay(w) PROVE ImportInv'
  <2> DEFINE d == Day(Head(job[w].batch))
             h == store[Source[w].kind][d]
             j == [job[w] EXCEPT !.at = "reading", !.held = h]
  <2>1. /\ job[w].at = "busy" /\ job[w].batch # <<>>
        /\ job' = [job EXCEPT ![w].at = "reading", ![w].held = h]
        /\ UNCHANGED <<store, log, lost>>
    BY <1>3 DEF ReadDay
  <2>2. d \in DaysOf
    <3>1. 1 \in DOMAIN job[w].batch /\ Head(job[w].batch) = job[w].batch[1]
      BY <1>0, <2>1
    <3> QED BY <1>0, <1>k, <3>1
  <2> HIDE DEF d
  <2>3. h \in Seq(StoredRow) /\ \A n \in DOMAIN h : Day(h[n]) = d
    BY <1>r, <2>2 DEF ImportInv, FilesTyped
  <2> HIDE DEF h
  <2>4. job' = [job EXCEPT ![w] = j]
    BY <1>0, <2>1
  <2>5. /\ j \in JobRecords /\ j.batch = job[w].batch /\ j.next = job[w].next
        /\ j.at = "reading" /\ j.held = h
    BY <1>0, <2>3 DEF JobRecords
  <2> HIDE DEF j
  <2>6. JobGood(j, w, log[Source[w].kind])
    BY <1>k, <1>n, <2>1, <2>3, <2>5 DEF JobGood, R, N, l, d
  <2> QED BY <2>1, <2>4, <2>6, OneJob
<1>4. ASSUME FinishImport(w) PROVE ImportInv'
  <2> DEFINE j == [job[w] EXCEPT !.at = "done"]
  <2>1. /\ job[w].at = "busy" /\ job[w].batch = <<>> /\ job[w].next > N
        /\ job' = [job EXCEPT ![w].at = "done"]
        /\ UNCHANGED <<store, log, lost>>
    BY <1>4 DEF FinishImport, R, N
  <2>2. job' = [job EXCEPT ![w] = j]
    BY <1>0, <2>1
  <2>3. /\ j \in JobRecords /\ j.batch = job[w].batch /\ j.next = job[w].next /\ j.at = "done"
    BY <1>0 DEF JobRecords
  <2> HIDE DEF j
  <2>4. j.next = N + 1
    BY <1>n, <2>1, <2>3
  <2>5. JobGood(j, w, log[Source[w].kind])
    BY <1>k, <1>n, <2>1, <2>3, <2>4 DEF JobGood, R, N, l
  <2> QED BY <2>1, <2>2, <2>5, OneJob
<1>5. ASSUME KillImport(w) PROVE ImportInv'
  <2> DEFINE j == [job[w] EXCEPT !.at = "failed", !.batch = <<>>, !.held = <<>>]
  <2>1. job' = [job EXCEPT ![w] = j] /\ UNCHANGED <<store, log, lost>>
    BY <1>5 DEF KillImport
  <2>2. j \in JobRecords /\ j.batch = <<>> /\ j.next = job[w].next /\ j.at = "failed"
    <3> DEFINE e == <<>>
    <3>1. e \in Seq(StoredRow)
      OBVIOUS
    <3> HIDE DEF e
    <3>2. [job[w] EXCEPT !.at = "failed", !.batch = e, !.held = e] \in JobRecords
      BY <1>0, <3>1 DEF JobRecords
    <3>3. \A r \in JobRecords : LET c == [r EXCEPT !.at = "failed", !.batch = e, !.held = e]
                               IN  c.batch = e /\ c.next = r.next /\ c.at = "failed"
      BY ONLY DEF JobRecords
    <3> QED BY <1>0, <3>2, <3>3 DEF e
  <2> HIDE DEF j
  <2>3. JobGood(j, w, log[Source[w].kind])
    BY <1>k, <1>n, <2>2 DEF JobGood, R, N, l
  <2> QED BY <2>1, <2>3, OneJob
<1> QED BY <1>1, <1>2, <1>3, <1>4, <1>5

(* What ReplaceDay() does: of the batch, the rows of the day of its first  *)
(* are merged into the partition and the rest is left.                     *)
Merges(w, d, new, rest) ==
  LET k == Source[w].kind IN
  /\ d \in DaysOf
  /\ new \in Seq(StoredRow) /\ \A n \in DOMAIN new : Day(new[n]) = d
  /\ rest \in Seq(StoredRow) /\ \A n \in DOMAIN rest : Day(rest[n]) \in DaysOf
  /\ job[w].held \in Seq(StoredRow) /\ \A n \in DOMAIN job[w].held : Day(job[w].held[n]) = d
  /\ \A n \in DOMAIN job[w].batch : Has(new, job[w].batch[n]) \/ Has(rest, job[w].batch[n])
  /\ store' = [store EXCEPT ![k][d] = SortDedupe(k, job[w].held \o new)]
  /\ job' = [job EXCEPT ![w] = [job[w] EXCEPT !.at = "busy", !.held = <<>>, !.batch = rest]]
  /\ log' = [log EXCEPT ![k] = log[k] \o new]
  /\ lost' = [lost EXCEPT ![k] = @ \/ store[k][d] # job[w].held]
  /\ replay' = [replay EXCEPT !.raced = @ \/ store[k][d] # job[w].held]
  /\ UNCHANGED <<emitted, before>>

LEMMA ReplaceDayIs ==
  ASSUME ImportInv, NEW w \in Imports, ReplaceDay(w)
  PROVE  /\ job[w].at = "reading"
         /\ \E d, new, rest : Merges(w, d, new, rest)
<1> DEFINE k == Source[w].kind
           b == job[w].batch
           d == Day(Head(b))
           ofDay == {i \in DOMAIN b : Day(b[i]) = d}
           new == RowsAt(b, ofDay)
           rest == RowsAt(b, DOMAIN b \ ofDay)
<1>1. /\ job[w].at = "reading"
      /\ store' = [store EXCEPT ![k][d] = SortDedupe(k, job[w].held \o new)]
      /\ job' = [job EXCEPT ![w] = [job[w] EXCEPT !.at = "busy", !.held = <<>>, !.batch = rest]]
      /\ log' = [log EXCEPT ![k] = log[k] \o new]
      /\ lost' = [lost EXCEPT ![k] = @ \/ store[k][d] # job[w].held]
      /\ replay' = [replay EXCEPT !.raced = @ \/ store[k][d] # job[w].held]
      /\ UNCHANGED <<emitted, before>>
  <2>1. /\ job[w].at = "reading" /\ UNCHANGED <<emitted, before>>
        /\ log' = [log EXCEPT ![k] = log[k] \o new]
    BY DEF ReplaceDay
  <2>2. store' = [store EXCEPT ![k][d] = SortDedupe(k, job[w].held \o new)]
    BY DEF ReplaceDay
  <2>3. job' = [job EXCEPT ![w] = [job[w] EXCEPT !.at = "busy", !.held = <<>>, !.batch = rest]]
    BY Zenon DEF ReplaceDay
  <2>4. lost' = [lost EXCEPT ![k] = @ \/ store[k][d] # job[w].held]
    BY Zenon DEF ReplaceDay
  <2>5. replay' = [replay EXCEPT !.raced = @ \/ store[k][d] # job[w].held]
    BY Zenon DEF ReplaceDay
  <2> QED BY <2>1, <2>2, <2>3, <2>4, <2>5
<1>2. /\ job[w] \in JobRecords
      /\ \A n \in DOMAIN b : Day(b[n]) \in DaysOf
      /\ b # <<>> /\ \A n \in DOMAIN job[w].held : Day(job[w].held[n]) = d
  BY <1>1 DEF ImportInv, JobsInv, JobGood
<1>3. b \in Seq(StoredRow) /\ job[w].held \in Seq(StoredRow)
  BY <1>2 DEF JobRecords
<1> HIDE DEF b
<1>4. d \in DaysOf
  <2>1. 1 \in DOMAIN b /\ Head(b) = b[1]
    BY <1>2, <1>3
  <2> QED BY <1>2, <2>1
<1> HIDE DEF d
<1>5. ofDay \in SUBSET DOMAIN b /\ DOMAIN b \ ofDay \in SUBSET DOMAIN b
  OBVIOUS
<1>6. /\ new \in Seq(StoredRow)
      /\ \A n \in DOMAIN new : \E i \in ofDay : new[n] = b[i]
      /\ \A i \in ofDay : \E n \in DOMAIN new : new[n] = b[i]
  BY <1>3, <1>5, RowsAtHas
<1>7. /\ rest \in Seq(StoredRow)
      /\ \A n \in DOMAIN rest : \E i \in DOMAIN b \ ofDay : rest[n] = b[i]
      /\ \A i \in DOMAIN b \ ofDay : \E n \in DOMAIN rest : rest[n] = b[i]
  BY <1>3, <1>5, RowsAtHas
<1>8. \A i \in ofDay : Day(b[i]) = d
  OBVIOUS
<1> HIDE DEF new, rest, ofDay
<1>9. \A n \in DOMAIN new : Day(new[n]) = d
  BY <1>6, <1>8
<1>10. \A n \in DOMAIN rest : Day(rest[n]) \in DaysOf
  BY <1>2, <1>7
<1>11. \A n \in DOMAIN b : Has(new, b[n]) \/ Has(rest, b[n])
  BY <1>6, <1>7 DEF Has
<1>12. Merges(w, d, new, rest)
  BY <1>1, <1>2, <1>3, <1>4, <1>6, <1>7, <1>9, <1>10, <1>11, Zenon DEF Merges, b
<1> QED BY <1>1, <1>12

LEMMA MergedFiles ==
  ASSUME ImportInv, NEW w \in Imports, NEW d, NEW new, NEW rest, Merges(w, d, new, rest)
  PROVE  /\ FilesTyped'
         /\ store'[Source[w].kind][d] = SortDedupe(Source[w].kind, job[w].held \o new)
         /\ \A k \in Kinds, e \in DaysOf :
              k # Source[w].kind \/ e # d => store'[k][e] = store[k][e]
<1> DEFINE K == Source[w].kind
           s == SortDedupe(K, job[w].held \o new)
           x == job[w].held \o new
<1>1. /\ d \in DaysOf /\ new \in Seq(StoredRow) /\ job[w].held \in Seq(StoredRow)
      /\ \A n \in DOMAIN new : Day(new[n]) = d
      /\ \A n \in DOMAIN job[w].held : Day(job[w].held[n]) = d
      /\ store' = [store EXCEPT ![K][d] = s]
  BY DEF Merges
<1>2. K \in Kinds
  BY RowsAre
<1>3. x \in Seq(StoredRow)
  BY <1>1
<1>4. ASSUME NEW i \in DOMAIN x PROVE Day(x[i]) = d
  <2>1. i \in 1..(Len(job[w].held) + Len(new))
    BY <1>1
  <2>2. CASE i <= Len(job[w].held)
    BY <1>1, <2>1, <2>2
  <2>3. CASE ~(i <= Len(job[w].held))
    <3>1. i - Len(job[w].held) \in DOMAIN new /\ x[i] = new[i - Len(job[w].held)]
      BY <1>1, <2>1, <2>3
    <3> QED BY <1>1, <3>1
  <2> QED BY <2>2, <2>3
<1>5. /\ s \in Seq(StoredRow) /\ Tidy(K, s)
      /\ \A n \in DOMAIN s : \E i \in DOMAIN x : s[n] = x[i]
  BY <1>2, <1>3, SortDedupeHas
<1> HIDE DEF s, K, x
<1>6. store \in [Kinds -> [DaysOf -> Seq(StoredRow)]]
  BY DEF ImportInv, FilesTyped
<1>7. /\ store' \in [Kinds -> [DaysOf -> Seq(StoredRow)]]
      /\ store'[K][d] = s
      /\ \A k \in Kinds, e \in DaysOf : k # K \/ e # d => store'[k][e] = store[k][e]
  BY <1>1, <1>2, <1>5, <1>6
<1>8. ASSUME NEW k \in Kinds, NEW e \in DaysOf
      PROVE  /\ \A i \in DOMAIN store'[k][e] : Day(store'[k][e][i]) = e
             /\ Tidy(k, store'[k][e])
  <2>1. CASE k = K /\ e = d
    BY <1>4, <1>5, <1>7, <2>1
  <2>2. CASE ~(k = K /\ e = d)
    <3>1. store'[k][e] = store[k][e]
      BY <1>7, <2>2
    <3> QED BY <3>1 DEF ImportInv, FilesTyped
  <2> QED BY <2>1, <2>2
<1>9. FilesTyped'
  BY <1>7, <1>8 DEF FilesTyped, Tidy
<1> QED BY <1>7, <1>9 DEF s, K

LEMMA MergeSteps ==
  ASSUME ImportInv, NEW w \in Imports, ReplaceDay(w)
  PROVE  ImportInv'
<1> DEFINE K == Source[w].kind
<1>1. job[w].at = "reading"
  BY ReplaceDayIs
<1>2. PICK d, new, rest : Merges(w, d, new, rest)
  BY ReplaceDayIs
<1>3. /\ d \in DaysOf /\ new \in Seq(StoredRow) /\ job[w].held \in Seq(StoredRow)
      /\ rest \in Seq(StoredRow) /\ \A n \in DOMAIN rest : Day(rest[n]) \in DaysOf
      /\ \A n \in DOMAIN new : Day(new[n]) = d
      /\ \A n \in DOMAIN job[w].batch : Has(new, job[w].batch[n]) \/ Has(rest, job[w].batch[n])
      /\ job' = [job EXCEPT ![w] = [job[w] EXCEPT !.at = "busy", !.held = <<>>, !.batch = rest]]
      /\ log' = [log EXCEPT ![K] = log[K] \o new]
      /\ lost' = [lost EXCEPT ![K] = @ \/ store[K][d] # job[w].held]
  BY <1>2 DEF Merges
<1>4. /\ FilesTyped'
      /\ store'[K][d] = SortDedupe(K, job[w].held \o new)
      /\ \A k \in Kinds, e \in DaysOf : k # K \/ e # d => store'[k][e] = store[k][e]
  BY <1>2, MergedFiles
<1>5. /\ K \in Kinds /\ log \in [Kinds -> Seq(StoredRow)] /\ lost \in [Kinds -> BOOLEAN]
      /\ job \in [Imports -> JobRecords] /\ job[w] \in JobRecords
  BY RowsAre DEF ImportInv, JobsInv
<1> HIDE DEF K
<1>6. /\ log[K] \in Seq(StoredRow) /\ log[K] \o new \in Seq(StoredRow)
  BY <1>3, <1>5
<1>7. /\ log' \in [Kinds -> Seq(StoredRow)] /\ log'[K] = log[K] \o new
      /\ \A k \in Kinds : k # K => log'[k] = log[k]
  BY <1>3, <1>5, <1>6
<1>8. /\ lost' \in [Kinds -> BOOLEAN]
      /\ \A k \in Kinds : k # K => lost'[k] = lost[k]
      /\ ~lost'[K] => ~lost[K] /\ store[K][d] = job[w].held
  BY <1>3, <1>5, Zenon
<1>9. FilesMatch'
  <2> SUFFICES ASSUME NEW k \in Kinds, ~lost'[k], NEW e \in DaysOf
               PROVE  \E pos : Matches(pos, k, log'[k], e, store'[k][e])
    BY DEF FilesMatch, Matches
  <2>1. ~lost[k]
    BY <1>8
  <2>2. PICK pos : Matches(pos, k, log[k], e, store[k][e])
    BY <2>1 DEF ImportInv, FilesMatch
  <2>3. CASE k # K
    BY <1>4, <1>7, <2>2, <2>3
  <2>4. CASE k = K /\ e # d
    <3>1. Matches(pos, K, log[K] \o new, e, store[K][e])
      BY <1>3, <1>5, <1>6, <2>2, <2>4, OtherMatches
    <3> QED BY <1>4, <1>7, <2>4, <3>1
  <2>5. CASE k = K /\ e = d
    <3>1. Matches(pos, K, log[K], d, job[w].held)
      BY <1>8, <2>2, <2>5
    <3>2. \E to : Matches(to, K, log[K] \o new, d, SortDedupe(K, job[w].held \o new))
      BY <1>3, <1>5, <1>6, <3>1, MergeMatches
    <3> QED BY <1>4, <1>7, <2>5, <3>2
  <2> QED BY <2>3, <2>4, <2>5
<1> DEFINE j == [job[w] EXCEPT !.at = "busy", !.held = <<>>, !.batch = rest]
<1>10. j \in JobRecords /\ j.batch = rest /\ j.next = job[w].next /\ j.at = "busy"
  <2> DEFINE e == <<>>
  <2>1. e \in Seq(StoredRow)
    OBVIOUS
  <2> HIDE DEF e
  <2>2. \A r \in JobRecords, b \in Seq(StoredRow) :
          LET c == [r EXCEPT !.at = "busy", !.held = e, !.batch = b]
          IN  c \in JobRecords /\ c.batch = b /\ c.next = r.next /\ c.at = "busy"
    BY ONLY <2>1 DEF JobRecords
  <2> QED BY <1>3, <1>5, <2>2 DEF e
<1> HIDE DEF j
<1>11. job' \in [Imports -> JobRecords] /\ job'[w] = j /\ \A u \in Imports \ {w} : job'[u] = job[u]
  BY <1>3, <1>5, <1>10 DEF j
<1>12. ASSUME NEW u \in Imports, NEW row, Has(log[Source[u].kind], row)
       PROVE  Has(log'[Source[u].kind], row)
  <2>1. CASE Source[u].kind = K
    <3>1. PICK n \in DOMAIN log[K] : log[K][n] = row
      BY <1>12, <2>1 DEF Has
    <3>2. n \in DOMAIN (log[K] \o new) /\ (log[K] \o new)[n] = row
      BY <1>3, <1>6, <3>1
    <3> QED BY <1>7, <2>1, <3>2 DEF Has
  <2>2. CASE Source[u].kind # K
    BY <1>7, <1>12, <2>2, RowsAre
  <2> QED BY <2>1, <2>2
<1>13. ASSUME NEW row, Has(new, row) PROVE Has(log'[K], row)
  <2>1. PICK n \in DOMAIN new : new[n] = row
    BY <1>13 DEF Has
  <2>2. Len(log[K]) + n \in DOMAIN (log[K] \o new) /\ (log[K] \o new)[Len(log[K]) + n] = row
    BY <1>3, <1>6, <2>1
  <2> QED BY <1>7, <2>2 DEF Has
<1>14. ASSUME NEW u \in Imports PROVE JobGood(job'[u], u, log'[Source[u].kind])
  <2>1. JobGood(job[u], u, log[Source[u].kind])
    BY DEF ImportInv, JobsInv
  <2>2. CASE u # w
    <3>1. job'[u] = job[u]
      BY <1>11, <2>2
    <3> QED BY <1>12, <2>1, <3>1 DEF JobGood
  <2>3. CASE u = w
    <3>1. ASSUME NEW i \in DOMAIN Rows(w), i < j.next
          PROVE  Has(rest, Rows(w)[i]) \/ Has(log'[K], Rows(w)[i])
      <4>1. Has(job[w].batch, Rows(w)[i]) \/ Has(log[K], Rows(w)[i])
        BY <1>1, <1>10, <2>1, <2>3, <3>1 DEF JobGood, K
      <4>2. CASE Has(log[K], Rows(w)[i])
        BY <1>12, <4>2 DEF K
      <4>3. CASE Has(job[w].batch, Rows(w)[i])
        <5>1. Has(new, Rows(w)[i]) \/ Has(rest, Rows(w)[i])
          BY <1>3, <4>3 DEF Has
        <5> QED BY <1>13, <5>1
      <4> QED BY <4>1, <4>2, <4>3
    <3>2. j.next \in 1..(Len(Rows(w)) + 1)
      BY <1>10, <2>1, <2>3 DEF JobGood
    <3>3. JobGood(j, w, log'[K])
      BY <1>3, <1>10, <3>1, <3>2 DEF JobGood
    <3> QED BY <1>11, <2>3, <3>3 DEF K
  <2> QED BY <2>2, <2>3
<1> QED BY <1>4, <1>7, <1>8, <1>9, <1>11, <1>14 DEF ImportInv, JobsInv

(* What of the files and of the imports the properties need.               *)
LEMMA MatchesKept ==
  ASSUME NEW k \in Kinds, NEW d \in DaysOf, FilesTyped, log \in [Kinds -> Seq(StoredRow)],
         NEW pos, Matches(pos, k, log[k], d, store[k][d])
  PROVE  LET kept == {i \in 1..Len(log[k]) : Day(log[k][i]) = d /\ Stands(k, i)}
             spot(n) == CHOOSE i \in kept : log[k][i] = store[k][d][n]
         IN  /\ DuplicateCount(k, d) = 0
             /\ {log[k][i] : i \in kept} = ToSet(store[k][d])
             /\ \A m, n \in DOMAIN store[k][d] : m < n => Precedes(log[k], spot(m), spot(n))
<1> DEFINE kept == {i \in 1..Len(log[k]) : Day(log[k][i]) = d /\ Stands(k, i)}
           spot(n) == CHOOSE i \in kept : log[k][i] = store[k][d][n]
           l == log[k]
           s == store[k][d]
           N == Len(s)
<1>1. l \in Seq(StoredRow) /\ s \in Seq(StoredRow) /\ N \in Nat /\ DOMAIN s = 1..N /\ Tidy(k, s)
  BY DEF FilesTyped
<1>2. kept = Standing(k, l, d)
  BY DEF Standing, Stands
<1>3. /\ pos \in [1..N -> kept]
      /\ \A n \in 1..N : l[pos[n]] = s[n]
      /\ \A m, n \in 1..N : m < n => Precedes(l, pos[m], pos[n])
      /\ \A i \in kept : \E n \in 1..N : pos[n] = i
  BY <1>1, <1>2 DEF Matches
<1>4. \A i, j \in kept : Key(k, l[i]) = Key(k, l[j]) => i = j
  <2> SUFFICES ASSUME NEW i \in kept, NEW j \in kept, i < j PROVE Key(k, l[i]) # Key(k, l[j])
    OBVIOUS
  <2>1. j \in (i + 1)..Len(l)
    BY <1>1
  <2> QED BY <2>1 DEF Stands
<1> HIDE DEF kept, l, s
<1>5. ASSUME NEW n \in 1..N PROVE spot(n) = pos[n]
  <2>1. pos[n] \in kept /\ l[pos[n]] = s[n]
    BY <1>3
  <2>2. \A i \in kept : l[i] = s[n] => i = pos[n]
    BY <1>4, <2>1
  <2>3. spot(n) = CHOOSE i \in kept : l[i] = s[n]
    BY DEF l, s
  <2> QED BY <2>1, <2>2, <2>3, Zenon
<1> HIDE DEF spot
<1>6. \A m, n \in 1..N : m < n => Precedes(l, spot(m), spot(n))
  BY <1>3, <1>5
<1>7. {l[i] : i \in kept} = {s[n] : n \in 1..N}
  <2>1. \A i \in kept : \E n \in 1..N : l[i] = s[n]
    BY <1>3
  <2>2. \A n \in 1..N : pos[n] \in kept /\ l[pos[n]] = s[n]
    BY <1>3
  <2> QED BY <2>1, <2>2
<1>8. ToSet(s) = {s[n] : n \in 1..N}
  BY <1>1 DEF ToSet
<1>9. \A m, n \in 1..N : m # n => Key(k, s[m]) # Key(k, s[n])
  <2> SUFFICES ASSUME NEW m \in 1..N, NEW n \in 1..N, m # n PROVE Key(k, s[m]) # Key(k, s[n])
    OBVIOUS
  <2>1. m < n \/ n < m
    OBVIOUS
  <2> QED BY <1>1, <2>1 DEF Tidy
<1> DEFINE keys == {Key(k, s[i]) : i \in 1..N}
           f == [i \in 1..N |-> Key(k, s[i])]
<1>10. DuplicateCount(k, d) = N - Cardinality(keys)
  BY <1>1 DEF DuplicateCount, s
<1>11. Cardinality(keys) = N
  <2>1. f \in [1..N -> keys]
    OBVIOUS
  <2>2. \A m, n \in 1..N : f[m] = f[n] => m = n
    BY <1>9
  <2>3. \A x \in keys : \E n \in 1..N : f[n] = x
    OBVIOUS
  <2> HIDE DEF f, keys
  <2>4. f \in Bijection(1..N, keys)
    BY <2>1, <2>2, <2>3 DEF Bijection, Injection, Surjection, IsInjective
  <2>5. ExistsBijection(1..N, keys)
    BY <2>4 DEF ExistsBijection
  <2>6. IsFiniteSet(1..N) /\ Cardinality(1..N) = N
    BY <1>1, Interval
  <2> QED BY <2>5, <2>6, FS_Bijection
<1> HIDE DEF N, keys
<1>12. DuplicateCount(k, d) = 0
  BY <1>1, <1>10, <1>11
<1>13. {l[i] : i \in kept} = ToSet(s)
  BY <1>7, <1>8
<1>14. \A m, n \in DOMAIN s : m < n => Precedes(l, spot(m), spot(n))
  BY <1>1, <1>6
<1> QED BY <1>12, <1>13, <1>14, Zenon DEF kept, spot, l, s

LEMMA ImportInvKept ==
  ASSUME ImportInv
  PROVE  ImportKept
<1> SUFFICES ASSUME NEW k \in Kinds, ~lost[k]
             PROVE  /\ \A d \in DaysOf :
                         LET kept == {i \in 1..Len(log[k]) : Day(log[k][i]) = d /\ Stands(k, i)}
                             spot(n) == CHOOSE i \in kept : log[k][i] = store[k][d][n]
                         IN  /\ DuplicateCount(k, d) = 0
                             /\ {log[k][i] : i \in kept} = ToSet(store[k][d])
                             /\ \A m, n \in DOMAIN store[k][d] : m < n => Precedes(log[k], spot(m), spot(n))
                    /\ \A w \in Imports : job[w].at = "done" /\ Source[w].kind = k =>
                         \A i \in DOMAIN Rows(w) :
                           \E row \in ToSet(store[k][Day(Rows(w)[i])]) : Key(k, row) = Key(k, Rows(w)[i])
  BY Zenon DEF ImportKept, DaysOf
<1>1. \A d \in DaysOf : \E pos : Matches(pos, k, log[k], d, store[k][d])
  BY DEF ImportInv, FilesMatch
<1>2. FilesTyped /\ log \in [Kinds -> Seq(StoredRow)] /\ log[k] \in Seq(StoredRow)
  BY DEF ImportInv
<1>3. ASSUME NEW d \in DaysOf
      PROVE  LET kept == {i \in 1..Len(log[k]) : Day(log[k][i]) = d /\ Stands(k, i)}
                 spot(n) == CHOOSE i \in kept : log[k][i] = store[k][d][n]
             IN  /\ DuplicateCount(k, d) = 0
                 /\ {log[k][i] : i \in kept} = ToSet(store[k][d])
                 /\ \A m, n \in DOMAIN store[k][d] : m < n => Precedes(log[k], spot(m), spot(n))
  <2>1. PICK pos : Matches(pos, k, log[k], d, store[k][d])
    BY <1>1
  <2> QED BY <1>2, <2>1, MatchesKept
<1>4. ASSUME NEW w \in Imports, job[w].at = "done", Source[w].kind = k, NEW i \in DOMAIN Rows(w)
      PROVE  \E row \in ToSet(store[k][Day(Rows(w)[i])]) : Key(k, row) = Key(k, Rows(w)[i])
  <2> DEFINE r == Rows(w)[i]
             d == Day(r)
  <2>1. r \in StoredRow /\ d \in DaysOf /\ i < Len(Rows(w)) + 1
    BY RowsAre
  <2>2. JobGood(job[w], w, log[k])
    BY <1>4 DEF ImportInv, JobsInv
  <2>3. job[w].batch = <<>> /\ (Has(job[w].batch, r) \/ Has(log[k], r))
    BY <1>4, <2>1, <2>2 DEF JobGood
  <2>4. Has(log[k], r)
    BY <2>3 DEF Has
  <2> HIDE DEF r, d
  <2>5. PICK n \in DOMAIN log[k] : log[k][n] = r
    BY <2>4 DEF Has
  <2>6. PICK m \in KeptOf(k, log[k]) : Key(k, log[k][m]) = Key(k, r)
    BY <1>2, <2>5, LastOfKey
  <2>7. log[k][m] \in StoredRow /\ m \in 1..Len(log[k])
    BY <1>2 DEF KeptOf
  <2>8. Day(log[k][m]) = d
    BY <2>1, <2>6, <2>7, KeyFacts DEF d
  <2>9. m \in Standing(k, log[k], d)
    BY <2>7, <2>8 DEF Standing, KeptOf
  <2>10. PICK pos : Matches(pos, k, log[k], d, store[k][d])
    BY <1>1, <2>1
  <2>11. PICK p \in DOMAIN store[k][d] : pos[p] = m
    BY <2>9, <2>10 DEF Matches
  <2>12. store[k][d][p] = log[k][m]
    BY <2>10, <2>11 DEF Matches
  <2>13. store[k][d][p] \in ToSet(store[k][d])
    BY DEF ToSet
  <2> QED BY <2>6, <2>12, <2>13 DEF r, d
<1> QED BY <1>3, <1>4, Zenon

-----------------------------------------------------------------------------
HasKey(k, rows, row) == \E n \in DOMAIN rows : Key(k, rows[n]) = Key(k, row)

(* A row that was stored when the replay began is still to come or has     *)
(* been published, unless an import replaced a partition under another.    *)
ReplayInv ==
  /\ replay \in [at : {"idle", "reading"}, cursor : Nat, end : Nat, kind : Kinds, raced : BOOLEAN]
  /\ replay.cursor <= replay.end /\ replay.end <= Days * DayLength
  /\ emitted \in Seq(StoredRow) /\ Tidy(replay.kind, emitted)
  /\ \A n \in DOMAIN emitted : emitted[n].time < replay.cursor
  /\ \A row \in before : row \in StoredRow /\ Day(row) \in DaysOf
  /\ ~replay.raced => \A row \in before :
       /\ row.time < replay.cursor => HasKey(replay.kind, emitted, row)
       /\ replay.cursor <= row.time => HasKey(replay.kind, store[replay.kind][Day(row)], row)

LEMMA Horizon == Days * DayLength \in Nat
BY HistoryAssumption

(* A replaced partition has every key it had, if the import saw it all.    *)
LEMMA KeysKept ==
  ASSUME ImportInv, NEW w \in Imports, ReplaceDay(w), NEW k \in Kinds, NEW e \in DaysOf,
         NEW row, HasKey(k, store[k][e], row), ~replay'.raced,
         replay \in [at : {"idle", "reading"}, cursor : Nat, end : Nat, kind : Kinds, raced : BOOLEAN]
  PROVE  HasKey(k, store'[k][e], row) /\ replay' = replay
<1> DEFINE K == Source[w].kind
<1>1. PICK d, new, rest : Merges(w, d, new, rest)
  BY ReplaceDayIs
<1>2. /\ store'[K][d] = SortDedupe(K, job[w].held \o new)
      /\ k # K \/ e # d => store'[k][e] = store[k][e]
  BY <1>1, MergedFiles
<1>3. /\ new \in Seq(StoredRow) /\ job[w].held \in Seq(StoredRow)
      /\ replay' = [replay EXCEPT !.raced = @ \/ store[K][d] # job[w].held]
  BY <1>1 DEF Merges
<1>4. K \in Kinds
  BY RowsAre
<1> HIDE DEF K
<1>5. ~replay.raced /\ store[K][d] = job[w].held
  BY <1>3, Zenon
<1>6. replay' = replay
  <2>1. (replay.raced \/ store[K][d] # job[w].held) = replay.raced
    BY <1>5
  <2> QED BY <1>3, <2>1
<1>7. CASE k # K \/ e # d
  BY <1>2, <1>6, <1>7
<1>8. CASE k = K /\ e = d
  <2>1. PICK n \in DOMAIN job[w].held : Key(K, job[w].held[n]) = Key(K, row)
    BY <1>5, <1>8 DEF HasKey
  <2> DEFINE x == job[w].held \o new
  <2>2. x \in Seq(StoredRow) /\ n \in DOMAIN x /\ x[n] = job[w].held[n]
    BY <1>3
  <2> HIDE DEF x
  <2>3. PICK m \in DOMAIN SortDedupe(K, x) : Key(K, SortDedupe(K, x)[m]) = Key(K, x[n])
    BY <1>4, <2>2, SortDedupeHas
  <2> QED BY <1>2, <1>6, <1>8, <2>1, <2>2, <2>3 DEF HasKey, x
<1> QED BY <1>7, <1>8

LEMMA ReplayUnderImports ==
  ASSUME ImportInv, ReplayInv, NEW w \in Imports, ReplaceDay(w)
  PROVE  ReplayInv'
<1>1. PICK d, new, rest : Merges(w, d, new, rest)
  BY ReplaceDayIs
<1>2. /\ replay' = [replay EXCEPT !.raced = @ \/ store[Source[w].kind][d] # job[w].held]
      /\ UNCHANGED <<emitted, before>>
  BY <1>1 DEF Merges
<1>3. /\ replay' \in [at : {"idle", "reading"}, cursor : Nat, end : Nat, kind : Kinds, raced : BOOLEAN]
      /\ replay'.cursor = replay.cursor /\ replay'.end = replay.end /\ replay'.kind = replay.kind
  <2>1. \A b \in BOOLEAN, r \in [at : {"idle", "reading"}, cursor : Nat, end : Nat, kind : Kinds, raced : BOOLEAN] :
          LET c == [r EXCEPT !.raced = b]
          IN  /\ c \in [at : {"idle", "reading"}, cursor : Nat, end : Nat, kind : Kinds, raced : BOOLEAN]
              /\ c.cursor = r.cursor /\ c.end = r.end /\ c.kind = r.kind
    OBVIOUS
  <2>2. (replay.raced \/ store[Source[w].kind][d] # job[w].held) \in BOOLEAN
    OBVIOUS
  <2>3. replay \in [at : {"idle", "reading"}, cursor : Nat, end : Nat, kind : Kinds, raced : BOOLEAN]
    BY DEF ReplayInv
  <2> QED BY <1>2, <2>1, <2>2, <2>3, Zenon
<1>4. ASSUME ~replay'.raced, NEW row \in before
      PROVE  /\ row.time < replay.cursor => HasKey(replay.kind, emitted, row)
             /\ replay.cursor <= row.time => HasKey(replay.kind, store'[replay.kind][Day(row)], row)
  <2>1. ~replay.raced
    <3>1. replay'.raced = (replay.raced \/ store[Source[w].kind][d] # job[w].held)
      BY <1>2 DEF ReplayInv
    <3> QED BY <1>4, <3>1, Zenon
  <2>2. /\ row.time < replay.cursor => HasKey(replay.kind, emitted, row)
        /\ replay.cursor <= row.time => HasKey(replay.kind, store[replay.kind][Day(row)], row)
        /\ Day(row) \in DaysOf /\ replay.kind \in Kinds
    BY <2>1 DEF ReplayInv
  <2>3. replay \in [at : {"idle", "reading"}, cursor : Nat, end : Nat, kind : Kinds, raced : BOOLEAN]
    BY DEF ReplayInv
  <2>4. HasKey(replay.kind, store[replay.kind][Day(row)], row) =>
          HasKey(replay.kind, store'[replay.kind][Day(row)], row)
    BY <1>4, <2>2, <2>3, KeysKept, Zenon
  <2> QED BY <2>2, <2>4
<1>5. /\ replay.cursor <= replay.end /\ replay.end <= Days * DayLength
      /\ emitted \in Seq(StoredRow) /\ Tidy(replay.kind, emitted)
      /\ \A n \in DOMAIN emitted : emitted[n].time < replay.cursor
      /\ \A row \in before : row \in StoredRow /\ Day(row) \in DaysOf
  BY DEF ReplayInv
<1>6. emitted' = emitted /\ before' = before
  BY <1>2
<1> QED BY <1>3, <1>4, <1>5, <1>6 DEF ReplayInv, HasKey, Tidy

LEMMA ReplayBegins ==
  ASSUME FilesTyped, ReplayInv, BeginReplay
  PROVE  ReplayInv'
<1>1. PICK k \in Kinds, range \in Ranges :
        /\ replay' = [at |-> "reading", cursor |-> range[1], end |-> range[2], kind |-> k, raced |-> FALSE]
        /\ before' = ToSet(ReadRange(k, range[1], range[2]))
        /\ emitted' = <<>> /\ UNCHANGED store
  BY DEF BeginReplay
<1> DEFINE a == range[1]
           b == range[2]
           r == ReadRange(k, a, b)
<1>2. a \in Nat /\ b \in Nat /\ a <= b /\ b <= Days * DayLength
  BY HistoryAssumption, Horizon
<1> HIDE DEF a, b
<1>3. /\ r \in Seq(StoredRow)
      /\ \A n \in DOMAIN r : /\ a <= r[n].time /\ Day(r[n]) \in DaysOf
                             /\ Has(store[k][Day(r[n])], r[n])
  <2>1. RangeRead(r, k, a, b)
    BY <1>2, ReadRangeIs
  <2> QED BY <2>1 DEF RangeRead
<1> HIDE DEF r
<1>4. /\ replay' \in [at : {"idle", "reading"}, cursor : Nat, end : Nat, kind : Kinds, raced : BOOLEAN]
      /\ replay'.cursor = a /\ replay'.end = b /\ replay'.kind = k
  BY <1>1, <1>2 DEF a, b
<1>5. ASSUME NEW row \in before'
      PROVE  /\ row \in StoredRow /\ Day(row) \in DaysOf /\ a <= row.time
             /\ HasKey(k, store[k][Day(row)], row)
  <2>1. PICK n \in DOMAIN r : row = r[n]
    BY <1>1, <1>5 DEF ToSet, r, a, b
  <2> QED BY <1>3, <2>1 DEF Has, HasKey
<1>6. ASSUME NEW row \in before' PROVE ~(row.time < a)
  BY <1>2, <1>5, DayIs
<1>7. emitted' \in Seq(StoredRow) /\ DOMAIN emitted' = {} /\ store' = store
  BY <1>1
<1>8. Tidy(k, emitted')
  BY <1>7 DEF Tidy
<1> QED BY <1>2, <1>4, <1>5, <1>6, <1>7, <1>8 DEF ReplayInv, HasKey, Tidy

LEMMA NextMidnight ==
  ASSUME NEW t \in Nat, NEW length \in Nat \ {0}
  PROVE  /\ (t \div length + 1) * length \in Nat
         /\ t < (t \div length + 1) * length
<1>1. t \div length \in Nat
  OBVIOUS
<1>2. t < (t \div length + 1) * length
  BY ONLY TRUE
<1>3. \A q \in Nat : (q + 1) * length \in Nat
  BY ONLY TRUE
<1> QED BY <1>1, <1>2, <1>3, Zenon

LEMMA ReplayGoesOn ==
  ASSUME FilesTyped, ReplayInv, ReplayChunk
  PROVE  ReplayInv'
<1> DEFINE k == replay.kind
           a == replay.cursor
           midnight == (a \div DayLength + 1) * DayLength
           b == IF k = "ticks" /\ midnight < replay.end THEN midnight ELSE replay.end
           r == ReadRange(k, a, b)
           N == Len(emitted)
<1>1. /\ a < replay.end /\ emitted' = emitted \o r
      /\ replay' = [replay EXCEPT !.cursor = b]
      /\ UNCHANGED <<store, before>>
  BY DEF ReplayChunk
<1>2. /\ replay \in [at : {"idle", "reading"}, cursor : Nat, end : Nat, kind : Kinds, raced : BOOLEAN]
      /\ a \in Nat /\ replay.end \in Nat /\ k \in Kinds
      /\ replay.end <= Days * DayLength
  BY DEF ReplayInv
<1>3. midnight \in Nat /\ a < midnight
  <2>1. DayLength \in Nat \ {0} /\ a \in Nat
    BY <1>2, HistoryAssumption
  <2> HIDE DEF a
  <2> QED BY <2>1, NextMidnight
<1> HIDE DEF midnight
<1>4. b \in Nat /\ a < b /\ b <= replay.end
  BY <1>1, <1>2, <1>3
<1> HIDE DEF a, b
<1>5. /\ r \in Seq(StoredRow) /\ Tidy(k, r)
      /\ \A n \in DOMAIN r : a <= r[n].time /\ r[n].time < b
      /\ \A d \in DaysOf : \A i \in DOMAIN store[k][d] :
           a <= store[k][d][i].time /\ store[k][d][i].time < b => Has(r, store[k][d][i])
  <2>1. a \in Nat /\ b \in Nat /\ k \in Kinds
    BY <1>2, <1>4 DEF a
  <2> HIDE DEF k
  <2>2. RangeRead(r, k, a, b)
    BY <2>1, ReadRangeIs
  <2> QED BY <2>2 DEF RangeRead
<1>6. /\ emitted \in Seq(StoredRow) /\ Tidy(k, emitted)
      /\ \A n \in DOMAIN emitted : emitted[n].time < a
      /\ \A row \in before : row \in StoredRow /\ Day(row) \in DaysOf
      /\ ~replay.raced => \A row \in before :
           /\ row.time < a => HasKey(k, emitted, row)
           /\ a <= row.time => HasKey(k, store[k][Day(row)], row)
  BY DEF ReplayInv, a
<1> HIDE DEF r
<1>7. /\ replay' \in [at : {"idle", "reading"}, cursor : Nat, end : Nat, kind : Kinds, raced : BOOLEAN]
      /\ replay'.cursor = b /\ replay'.end = replay.end /\ replay'.kind = k
      /\ replay'.raced = replay.raced
  BY <1>1, <1>2, <1>4
<1> HIDE DEF k
<1> DEFINE s == emitted \o r
<1>8. /\ s \in Seq(StoredRow) /\ N \in Nat /\ Len(r) \in Nat /\ DOMAIN s = 1..(N + Len(r))
      /\ DOMAIN r = 1..Len(r) /\ DOMAIN emitted = 1..N
      /\ \A n \in 1..N : s[n] = emitted[n]
      /\ \A n \in 1..Len(r) : s[N + n] = r[n]
  BY <1>5, <1>6
<1> HIDE DEF s, N
<1>9. ASSUME NEW n \in DOMAIN s
      PROVE  \/ n \in 1..N /\ s[n] = emitted[n] /\ s[n].time < a
             \/ n - N \in 1..Len(r) /\ n > N /\ s[n] = r[n - N] /\ a <= s[n].time /\ s[n].time < b
  <2>1. CASE n <= N
    <3>1. n \in 1..N
      BY <1>8, <2>1
    <3> QED BY <1>6, <1>8, <3>1
  <2>2. CASE n > N
    <3> DEFINE m == n - N
    <3>1. m \in 1..Len(r) /\ n = N + m
      BY <1>8, <2>2
    <3> HIDE DEF m
    <3>2. s[n] = r[m]
      BY <1>8, <3>1
    <3> QED BY <1>5, <1>8, <2>2, <3>1, <3>2 DEF m
  <2> QED BY <1>8, <2>1, <2>2
<1>t. ASSUME NEW n \in DOMAIN s PROVE s[n] \in StoredRow /\ s[n].time \in Nat
  BY <1>8, DayIs
<1>an. a \in Nat
  BY <1>2 DEF a
<1>10. \A n \in DOMAIN s : s[n].time < b
  <2> SUFFICES ASSUME NEW n \in DOMAIN s PROVE s[n].time < b
    OBVIOUS
  <2>1. s[n].time < a \/ s[n].time < b
    BY <1>9
  <2> QED BY <1>4, <1>t, <1>an, <2>1
<1>11. Tidy(k, s)
  <2> SUFFICES ASSUME NEW m \in DOMAIN s, NEW n \in DOMAIN s, m < n
               PROVE  s[m].time <= s[n].time /\ Key(k, s[m]) # Key(k, s[n])
    BY DEF Tidy
  <2>0. m \in Nat /\ m >= 1 /\ n \in Nat /\ N \in Nat
    BY <1>8
  <2>1. CASE n \in 1..N
    <3>1. m \in 1..N
      BY <2>0, <2>1
    <3> QED BY <1>6, <1>8, <2>1, <3>1 DEF Tidy
  <2>2. CASE m \in 1..N /\ n \notin 1..N
    <3>1. s[m].time < a /\ a <= s[n].time
      BY <1>9, <2>0, <2>2
    <3>2. s[m].time < s[n].time
      BY <1>t, <1>an, <3>1
    <3>3. k \in Kinds
      BY <1>2 DEF k
    <3> QED BY <1>t, <3>2, <3>3, KeyFacts
  <2>3. CASE m \notin 1..N /\ n \notin 1..N
    <3>1. /\ m - N \in 1..Len(r) /\ s[m] = r[m - N]
          /\ n - N \in 1..Len(r) /\ s[n] = r[n - N]
      BY <1>9, <2>3
    <3>2. m - N < n - N
      BY <2>0
    <3> QED BY <1>5, <1>8, <3>1, <3>2 DEF Tidy
  <2>4. m \in 1..N \/ n \notin 1..N \/ n \in 1..N
    OBVIOUS
  <2> QED BY <2>1, <2>2, <2>3
<1>12. ASSUME ~replay.raced, NEW row \in before
       PROVE  /\ row.time < b => HasKey(k, s, row)
              /\ b <= row.time => HasKey(k, store[k][Day(row)], row)
  <2>1. /\ row.time \in Nat /\ Day(row) \in DaysOf /\ row \in StoredRow
        /\ row.time < a => HasKey(k, emitted, row)
        /\ a <= row.time => HasKey(k, store[k][Day(row)], row)
    BY <1>6, <1>12, DayIs
  <2>2. CASE row.time < a
    <3>1. PICK n \in DOMAIN emitted : Key(k, emitted[n]) = Key(k, row)
      BY <2>1, <2>2 DEF HasKey
    <3>2. n \in DOMAIN s /\ s[n] = emitted[n]
      BY <1>8, <3>1
    <3>3. HasKey(k, s, row)
      BY <3>1, <3>2 DEF HasKey
    <3> QED BY <1>4, <1>an, <2>1, <2>2, <3>3
  <2>3. CASE a <= row.time /\ row.time < b
    <3>1. PICK i \in DOMAIN store[k][Day(row)] : Key(k, store[k][Day(row)][i]) = Key(k, row)
      BY <2>1, <2>3 DEF HasKey
    <3> DEFINE x == store[k][Day(row)][i]
    <3>2. x \in StoredRow /\ k \in Kinds
      BY <1>2, <2>1 DEF FilesTyped, k
    <3>3. x.time = row.time
      BY <2>1, <3>1, <3>2, KeyFacts
    <3>4. PICK n \in DOMAIN r : r[n] = x
      BY <1>5, <2>1, <2>3, <3>3 DEF Has
    <3>5. N + n \in DOMAIN s /\ s[N + n] = x
      BY <1>8, <3>4
    <3> HIDE DEF x
    <3>6. HasKey(k, s, row)
      BY <3>1, <3>5 DEF HasKey, x
    <3> QED BY <1>4, <2>1, <2>3, <3>6
  <2>4. CASE b <= row.time
    BY <1>4, <1>an, <2>1, <2>4
  <2> QED BY <1>4, <1>an, <2>1, <2>2, <2>3, <2>4
<1>13. emitted' = s /\ before' = before /\ store' = store
  BY <1>1 DEF s
<1> QED BY <1>2, <1>4, <1>6, <1>7, <1>8, <1>10, <1>11, <1>12, <1>13 DEF ReplayInv, HasKey, Tidy

HistoryInv == ImportInv /\ ReplayInv

LEMMA HistorySteps ==
  ASSUME HistoryInv, HistoryNext
  PROVE  HistoryInv'
<1>1. ASSUME NEW w \in Imports,
             BeginImport(w) \/ NextBatch(w) \/ ReadDay(w) \/ FinishImport(w) \/ KillImport(w)
      PROVE  HistoryInv'
  <2>1. ImportInv'
    BY <1>1, JobSteps DEF HistoryInv
  <2>2. UNCHANGED <<replay, emitted, before, store>>
    BY <1>1 DEF BeginImport, NextBatch, ReadDay, FinishImport, KillImport
  <2>3. ReplayInv'
    BY <2>2 DEF HistoryInv, ReplayInv, HasKey, Tidy
  <2> QED BY <2>1, <2>3 DEF HistoryInv
<1>2. ASSUME NEW w \in Imports, ReplaceDay(w) PROVE HistoryInv'
  BY <1>2, MergeSteps, ReplayUnderImports DEF HistoryInv
<1>3. ASSUME UNCHANGED <<store, job, log, lost>> PROVE ImportInv'
  BY <1>3 DEF HistoryInv, ImportInv, FilesTyped, FilesMatch, JobsInv
<1>4. CASE BeginReplay
  BY <1>3, <1>4, ReplayBegins DEF HistoryInv, ImportInv, BeginReplay
<1>5. CASE ReplayChunk
  BY <1>3, <1>5, ReplayGoesOn DEF HistoryInv, ImportInv, ReplayChunk
<1>6. CASE EndReplay
  <2>1. ImportInv'
    BY <1>3, <1>6 DEF EndReplay
  <2>2. replay' = Off /\ emitted' = <<>> /\ before' = {}
    BY <1>6 DEF EndReplay
  <2>3. Off \in [at : {"idle", "reading"}, cursor : Nat, end : Nat, kind : Kinds, raced : BOOLEAN]
    BY DEF Off, Kinds
  <2>4. Off.cursor = 0 /\ Off.end = 0
    BY DEF Off
  <2>5. ReplayInv'
    BY <2>2, <2>3, <2>4, Horizon DEF ReplayInv, Tidy
  <2> QED BY <2>1, <2>5 DEF HistoryInv
<1> QED BY <1>1, <1>2, <1>4, <1>5, <1>6 DEF HistoryNext

LEMMA HistoryStarts ==
  ASSUME HistoryInit
  PROVE  HistoryInv
<1>1. /\ store = [k \in Kinds |-> [d \in DaysOf |-> <<>>]]
      /\ job = [w \in Imports |-> [at |-> "idle", next |-> 1, batch |-> <<>>, held |-> <<>>, runs |-> 0]]
      /\ replay = Off /\ emitted = <<>> /\ before = {}
      /\ log = [k \in Kinds |-> <<>>] /\ lost = [k \in Kinds |-> FALSE]
  BY DEF HistoryInit, DaysOf
<1>2. FilesTyped
  BY <1>1 DEF FilesTyped, Tidy
<1>3. JobsInv
  <2> DEFINE j == [at |-> "idle", next |-> 1, batch |-> <<>>, held |-> <<>>, runs |-> 0]
  <2>1. j \in JobRecords /\ j.at = "idle" /\ j.next = 1 /\ j.batch = <<>>
    BY DEF JobRecords
  <2> HIDE DEF j
  <2>2. ASSUME NEW w \in Imports PROVE JobGood(j, w, log[Source[w].kind])
    BY <2>1, RowsAre DEF JobGood
  <2>3. job = [w \in Imports |-> j]
    BY <1>1 DEF j
  <2> QED BY <2>1, <2>2, <2>3 DEF JobsInv
<1>4. FilesMatch
  <2> SUFFICES ASSUME NEW k \in Kinds, NEW d \in DaysOf PROVE Matches(<<>>, k, <<>>, d, <<>>)
    BY <1>1 DEF FilesMatch
  <2>1. Standing(k, <<>>, d) = {}
    BY DEF Standing
  <2> QED BY <2>1 DEF Matches
<1>5. ImportInv
  BY <1>1, <1>2, <1>3, <1>4 DEF ImportInv
<1>6. ReplayInv
  <2>1. Off \in [at : {"idle", "reading"}, cursor : Nat, end : Nat, kind : Kinds, raced : BOOLEAN]
    BY DEF Off, Kinds
  <2>2. Off.cursor = 0 /\ Off.end = 0
    BY DEF Off
  <2> QED BY <1>1, <2>1, <2>2, Horizon DEF ReplayInv, Tidy
<1> QED BY <1>5, <1>6 DEF HistoryInv

LEMMA HistoryInvSound ==
  ASSUME HistoryInv
  PROVE  FilesSound /\ ReplaySound
<1>1. HistoryTypeOK
  <2>1. \A k \in Kinds, d \in 0..(Days - 1) : \A i \in DOMAIN store[k][d] : Day(store[k][d][i]) = d
    BY DEF HistoryInv, ImportInv, FilesTyped, DaysOf
  <2>2. ASSUME NEW w \in Imports
        PROVE  /\ job[w].at \in {"idle", "busy", "reading", "done", "failed"}
               /\ job[w].next \in 1..(Len(Rows(w)) + 1)
               /\ job[w].runs \in Nat
    BY DEF HistoryInv, ImportInv, JobsInv, JobGood, JobRecords
  <2>3. replay.cursor \in 0..(Days * DayLength)
    BY Horizon DEF HistoryInv, ReplayInv
  <2>4. lost \in [Kinds -> BOOLEAN]
    BY DEF HistoryInv, ImportInv
  <2> QED BY <2>1, <2>2, <2>3, <2>4 DEF HistoryTypeOK
<1>2. ImportKept
  BY ImportInvKept DEF HistoryInv
<1>3. ReplaySound
  <2>1. \A m, n \in DOMAIN emitted : m < n =>
          emitted[m].time <= emitted[n].time /\ Key(replay.kind, emitted[m]) # Key(replay.kind, emitted[n])
    BY DEF HistoryInv, ReplayInv, Tidy
  <2>2. ~replay.raced => \A row \in before :
          row.time < replay.cursor => \E n \in DOMAIN emitted : Key(replay.kind, emitted[n]) = Key(replay.kind, row)
    BY DEF HistoryInv, ReplayInv, HasKey
  <2> QED BY <2>1, <2>2 DEF ReplaySound
<1> QED BY <1>1, <1>2, <1>3 DEF FilesSound

LEMMA HistoryHolds == Spec => []HistoryInv
<1>1. Init => HistoryInv
  BY HistoryStarts DEF Init
<1>2. HistoryInv /\ [Next]_vars => HistoryInv'
  <2>1. ASSUME HistoryInv, UNCHANGED historyVars PROVE HistoryInv'
    <3>1. ImportInv'
      BY <2>1 DEF historyVars, HistoryInv, ImportInv, FilesTyped, FilesMatch, JobsInv
    <3>2. ReplayInv'
      BY <2>1 DEF historyVars, HistoryInv, ReplayInv, HasKey, Tidy
    <3> QED BY <3>1, <3>2 DEF HistoryInv
  <2>2. [Next]_vars => HistoryNext \/ UNCHANGED historyVars
    BY DEF Next, vars, Is, SameBut
  <2> QED BY <2>1, <2>2, HistorySteps
<1> QED BY <1>1, <1>2, PTL DEF Spec

(* Imports leave every partition with exactly the rows no later one took   *)
(* the place of, in order and none twice, and all rows of an import that   *)
(* ended, as long as no two replace one partition at once                  *)
(* (data/parquet_store.py:157-173), for any files, days and batches.       *)
THEOREM ImportsKept == Spec => []FilesSound
<1>1. HistoryInv => FilesSound
  BY HistoryInvSound
<1> QED BY <1>1, HistoryHolds, PTL

(* A replay publishes rows in order of time and none twice, and every row  *)
(* that was stored when it began and is due, whatever is imported while it *)
(* reads (backtest/file_backtester.py:342-440), for any range and chunks.  *)
THEOREM RowsReplayed == Spec => []ReplaySound
<1>1. HistoryInv => ReplaySound
  BY HistoryInvSound
<1> QED BY <1>1, HistoryHolds, PTL

-----------------------------------------------------------------------------
(* Arithmetic of the mixed radix of a grid.                                *)

(* Division by a positive natural number.                                  *)
LEMMA Quotient ==
  ASSUME NEW x \in Nat, NEW d \in Nat \ {0}
  PROVE  /\ x \div d \in Nat /\ x % d \in 0..(d - 1)
         /\ d * (x \div d) + (x % d) = x
<1>1. x \div d \in Int /\ x % d \in 0..(d - 1)
  OBVIOUS
<1>2. d * (x \div d) + (x % d) = x
  OBVIOUS
<1>3. x \div d >= 0
  OBVIOUS
<1> QED BY <1>1, <1>2, <1>3

(* The quotient is the number of times the divisor fits.                   *)
LEMMA QuotientIs ==
  ASSUME NEW x \in Nat, NEW d \in Nat \ {0}, NEW q \in Nat, NEW r \in 0..(d - 1), x = d * q + r
  PROVE  x \div d = q /\ x % d = r
<1> DEFINE p == x \div d
           t == x % d
<1>1. p \in Nat /\ t \in 0..(d - 1) /\ d * p + t = x
  BY Quotient
<1> HIDE DEF p, t
<1>2. d * (p - q) = r - t
  BY <1>1
<1>3. ASSUME NEW k \in Int, k >= 1 PROVE d * k >= d
  BY <1>3
<1>4. ~(p - q >= 1)
  BY <1>1, <1>2, <1>3
<1>5. ~(q - p >= 1)
  <2>1. d * (q - p) = t - r
    BY <1>1
  <2> QED BY <1>1, <2>1, <1>3
<1>6. p = q
  BY <1>1, <1>4, <1>5
<1>7. t = r
  BY <1>1, <1>6
<1> QED BY <1>6, <1>7 DEF p, t

LEMMA ProductIs ==
  ASSUME NEW a \in Nat \ {0}, NEW b \in Nat \ {0}
  PROVE  a * b \in Nat \ {0}
OBVIOUS

(* To divide by a product is to divide by one factor, then by the other.   *)
LEMMA DivideTwice ==
  ASSUME NEW x \in Nat, NEW a \in Nat \ {0}, NEW b \in Nat \ {0}
  PROVE  x \div (a * b) = (x \div b) \div a
<1> DEFINE y == x \div b
           u == x % b
<1>1. y \in Nat /\ u \in 0..(b - 1) /\ b * y + u = x
  BY Quotient
<1> HIDE DEF y, u
<1> DEFINE z == y \div a
           v == y % a
<1>2. z \in Nat /\ v \in 0..(a - 1) /\ a * z + v = y
  BY <1>1, Quotient
<1> HIDE DEF z, v
<1> DEFINE r == b * v + u
<1>3. b * (a * z + v) + u = (a * b) * z + (b * v + u)
  <2>1. b * (a * z + v) = (a * b) * z + b * v
    BY <1>1, <1>2
  <2> QED BY <1>1, <1>2, <2>1
<1>4. r \in 0..(a * b - 1)
  <2>1. v + 1 <= a /\ v \in Nat /\ u <= b - 1 /\ u \in Nat
    BY <1>1, <1>2
  <2>2. b * (v + 1) <= b * a
    BY <2>1
  <2>3. b * (v + 1) = b * v + b /\ b * v \in Nat
    BY <2>1
  <2>4. b * a = a * b /\ a * b \in Nat
    OBVIOUS
  <2> QED BY <2>1, <2>2, <2>3, <2>4
<1> HIDE DEF r
<1>5. x = (a * b) * z + r
  BY <1>1, <1>2, <1>3 DEF r
<1>6. a * b \in Nat \ {0}
  BY ProductIs
<1>7. x \div (a * b) = z
  BY <1>2, <1>4, <1>5, <1>6, QuotientIs
<1> QED BY <1>7 DEF z, y

(* Division is monotonous.                                                 *)
LEMMA QuotientsClimb ==
  ASSUME NEW x \in Nat, NEW y \in Nat, NEW d \in Nat \ {0}, x <= y
  PROVE  x \div d <= y \div d
<1> DEFINE p == x \div d
           q == y \div d
<1>1. p \in Nat /\ q \in Nat /\ x % d \in 0..(d - 1) /\ y % d \in 0..(d - 1)
      /\ d * p + (x % d) = x /\ d * q + (y % d) = y
  BY Quotient
<1> DEFINE r == x % d
           t == y % d
<1> HIDE DEF p, q, r, t
<1>2. r \in 0..(d - 1) /\ t \in 0..(d - 1) /\ d * p + r = x /\ d * q + t = y /\ p \in Nat /\ q \in Nat
  BY <1>1 DEF p, q, r, t
<1>3. SUFFICES ASSUME p >= q + 1 PROVE FALSE
  BY <1>2 DEF p, q
<1>4. d * p >= d * (q + 1)
  BY <1>2, <1>3
<1>5. d * (q + 1) = d * q + d
  BY <1>2
<1> QED BY <1>2, <1>4, <1>5

(* d more is one more.                                                     *)
LEMMA QuotientOneMore ==
  ASSUME NEW x \in Nat, NEW d \in Nat \ {0}
  PROVE  (x + d) \div d = x \div d + 1
<1> DEFINE p == x \div d
           r == x % d
<1>1. p \in Nat /\ r \in 0..(d - 1) /\ d * p + r = x
  BY Quotient
<1> HIDE DEF p, r
<1>2. x + d = d * (p + 1) + r
  BY <1>1
<1>3. (x + d) \div d = p + 1
  BY <1>1, <1>2, QuotientIs
<1> QED BY <1>3 DEF p

-----------------------------------------------------------------------------
(* The parameter search.                                                   *)

Depth == Len(NameOrder)
Width(k) == Len(Grid[NameOrder[k]])

LEMMA GridTyped ==
  /\ Depth \in Nat \ {0} /\ DOMAIN NameOrder = 1..Depth
  /\ \A k \in 1..Depth : NameOrder[k] \in Names /\ Place(NameOrder[k]) = k
  /\ \A n \in Names : Place(n) \in 1..Depth /\ NameOrder[Place(n)] = n
  /\ \A n \in Names : /\ Len(Grid[n]) \in Nat \ {0} /\ DOMAIN Grid[n] = 1..Len(Grid[n])
                      /\ \A i \in 1..Len(Grid[n]) : Grid[n][i] \in ToSet(Grid[n])
<1>1. Depth \in Nat \ {0} /\ DOMAIN NameOrder = 1..Depth
  BY SearchAssumption DEF Depth
<1>2. ASSUME NEW k \in 1..Depth PROVE NameOrder[k] \in Names
  BY <1>1, <1>2 DEF Names, ToSet
<1>3. ASSUME NEW n \in Names PROVE Place(n) \in 1..Depth /\ NameOrder[Place(n)] = n
  <2>1. PICK k \in 1..Depth : NameOrder[k] = n
    BY <1>1, <1>3 DEF Names, ToSet
  <2> QED BY <1>1, <2>1 DEF Place
<1>4. ASSUME NEW k \in 1..Depth PROVE Place(NameOrder[k]) = k
  <2>1. Place(NameOrder[k]) \in 1..Depth /\ NameOrder[Place(NameOrder[k])] = NameOrder[k]
    BY <1>2, <1>3
  <2>2. \A x, y \in DOMAIN NameOrder : NameOrder[x] = NameOrder[y] => x = y
    BY SearchAssumption
  <2> QED BY <1>1, <2>1, <2>2
<1>5. ASSUME NEW n \in Names
      PROVE  /\ Len(Grid[n]) \in Nat \ {0} /\ DOMAIN Grid[n] = 1..Len(Grid[n])
             /\ \A i \in 1..Len(Grid[n]) : Grid[n][i] \in ToSet(Grid[n])
  <2>1. Grid[n] \in Seq(ToSet(Grid[n])) /\ Grid[n] # <<>>
    BY <1>5, SearchAssumption
  <2> QED BY <2>1
<1> QED BY <1>1, <1>2, <1>3, <1>4, <1>5

LEMMA WidthsArePositive == \A k \in 1..Depth : Width(k) \in Nat \ {0}
BY GridTyped DEF Width

(* What defines SizeFrom, for the parameters from the m-th on.             *)
Sizes(f, m) ==
  /\ f \in [1..(Depth + 1) -> Nat \ {0}]
  /\ \A k \in m..(Depth + 1) : f[k] = IF k > Depth THEN 1 ELSE Width(k) * f[k + 1]

LEMMA SizesExist == \E f : Sizes(f, 1)
<1> DEFINE P == {n \in Nat : n <= Depth => \E f : Sizes(f, Depth + 1 - n)}
<1>0. Depth \in Nat \ {0}
  BY GridTyped
<1>1. ASSUME NEW n \in Nat, \A m \in 0..(n - 1) : m \in P
      PROVE  n \in P
  <2> SUFFICES ASSUME n <= Depth PROVE \E f : Sizes(f, Depth + 1 - n)
    OBVIOUS
  <2>1. CASE n = 0
    <3>1. Sizes([k \in 1..(Depth + 1) |-> 1], Depth + 1 - n)
      BY <1>0, <2>1 DEF Sizes
    <3> QED BY <3>1
  <2>2. CASE n # 0
    <3>1. n - 1 \in P /\ n - 1 <= Depth
      BY <1>0, <1>1, <2>2
    <3>2. PICK g : Sizes(g, Depth + 1 - (n - 1))
      BY <3>1
    <3> DEFINE m == Depth + 1 - n
               f == [g EXCEPT ![m] = Width(m) * g[m + 1]]
    <3>3. m \in 1..Depth /\ m + 1 = Depth + 1 - (n - 1) /\ m + 1 \in 1..(Depth + 1)
      BY <1>0, <2>2
    <3> HIDE DEF m
    <3>4. g \in [1..(Depth + 1) -> Nat \ {0}]
      BY <3>2 DEF Sizes
    <3>5. Width(m) * g[m + 1] \in Nat \ {0}
      BY <3>3, <3>4, WidthsArePositive, ProductIs
    <3>6. f \in [1..(Depth + 1) -> Nat \ {0}] /\ f[m] = Width(m) * g[m + 1]
          /\ \A k \in (m + 1)..(Depth + 1) : f[k] = g[k]
      BY <1>0, <3>3, <3>4, <3>5
    <3> HIDE DEF f
    <3>7. \A k \in (m + 1)..(Depth + 1) : g[k] = IF k > Depth THEN 1 ELSE Width(k) * g[k + 1]
      BY <3>2, <3>3 DEF Sizes
    <3>8. ASSUME NEW k \in m..(Depth + 1)
          PROVE  f[k] = IF k > Depth THEN 1 ELSE Width(k) * f[k + 1]
      <4>1. CASE k = m
        <5>1. f[m + 1] = g[m + 1] /\ ~(m > Depth)
          BY <1>0, <3>3, <3>6
        <5> QED BY <3>6, <4>1, <5>1
      <4>2. CASE k # m
        <5>1. k \in (m + 1)..(Depth + 1) /\ (k <= Depth => k + 1 \in (m + 1)..(Depth + 1))
          BY <1>0, <3>3, <4>2
        <5>2. CASE k > Depth
          BY <3>6, <3>7, <5>1, <5>2
        <5>3. CASE ~(k > Depth)
          <6>1. f[k] = g[k] /\ f[k + 1] = g[k + 1]
            BY <1>0, <3>3, <3>6, <5>1, <5>3
          <6> QED BY <3>7, <5>1, <5>3, <6>1
        <5> QED BY <5>2, <5>3
      <4> QED BY <4>1, <4>2
    <3>9. Sizes(f, m)
      BY <3>6, <3>8 DEF Sizes
    <3> QED BY <3>9 DEF m
  <2> QED BY <2>1, <2>2
<1>2. \A n \in Nat : n \in P
  <2> HIDE DEF P
  <2> QED BY <1>1, Induct
<1>3. Depth \in P /\ Depth + 1 - Depth = 1
  BY <1>0, <1>2
<1> QED BY <1>0, <1>3

LEMMA SizesAre ==
  /\ \A k \in 1..(Depth + 1) : SizeFrom[k] \in Nat \ {0}
  /\ SizeFrom[Depth + 1] = 1
  /\ \A k \in 1..Depth : SizeFrom[k] = Width(k) * SizeFrom[k + 1]
<1>0. Depth \in Nat \ {0}
  BY GridTyped
<1>1. PICK f : Sizes(f, 1)
  BY SizesExist
<1>2. f = [k \in 1..(Depth + 1) |-> IF k > Depth THEN 1 ELSE Width(k) * f[k + 1]]
  BY <1>0, <1>1 DEF Sizes
<1>3. SizeFrom = [k \in 1..(Depth + 1) |-> IF k > Depth THEN 1 ELSE Width(k) * SizeFrom[k + 1]]
  <2>1. f = [k \in 1..(Len(NameOrder) + 1) |->
               IF k > Len(NameOrder) THEN 1 ELSE Len(Grid[NameOrder[k]]) * f[k + 1]]
    BY <1>2 DEF Depth, Width
  <2>2. SizeFrom = [k \in 1..(Len(NameOrder) + 1) |->
                      IF k > Len(NameOrder) THEN 1 ELSE Len(Grid[NameOrder[k]]) * SizeFrom[k + 1]]
    BY <2>1, Zenon DEF SizeFrom
  <2> QED BY <2>2 DEF Depth, Width
<1>4. SizeFrom[Depth + 1] = 1 /\ \A k \in 1..Depth : SizeFrom[k] = Width(k) * SizeFrom[k + 1]
  BY <1>0, <1>3
<1>5. \A k \in 1..(Depth + 1) : SizeFrom[k] \in Nat \ {0}
  <2> DEFINE P == {n \in Nat : n <= Depth => SizeFrom[Depth + 1 - n] \in Nat \ {0}}
  <2>1. ASSUME NEW n \in Nat, \A m \in 0..(n - 1) : m \in P
        PROVE  n \in P
    <3> SUFFICES ASSUME n <= Depth PROVE SizeFrom[Depth + 1 - n] \in Nat \ {0}
      OBVIOUS
    <3>1. CASE n = 0
      BY <1>0, <1>4, <3>1
    <3>2. CASE n # 0
      <4>1. n - 1 \in P /\ n - 1 <= Depth
        BY <1>0, <2>1, <3>2
      <4>2. SizeFrom[Depth + 1 - (n - 1)] \in Nat \ {0}
        BY <4>1
      <4>3. Depth + 1 - n \in 1..Depth /\ (Depth + 1 - n) + 1 = Depth + 1 - (n - 1)
        BY <1>0, <3>2
      <4>4. SizeFrom[Depth + 1 - n] = Width(Depth + 1 - n) * SizeFrom[Depth + 1 - (n - 1)]
        BY <1>4, <4>3
      <4> QED BY <4>2, <4>3, <4>4, WidthsArePositive, ProductIs
    <3> QED BY <3>1, <3>2
  <2>2. \A n \in Nat : n \in P
    <3> HIDE DEF P
    <3> QED BY <2>1, Induct
  <2>3. ASSUME NEW k \in 1..(Depth + 1) PROVE SizeFrom[k] \in Nat \ {0}
    <3>1. Depth + 1 - k \in P /\ Depth + 1 - (Depth + 1 - k) = k /\ Depth + 1 - k <= Depth
      BY <1>0, <2>2
    <3> QED BY <3>1
  <2> QED BY <2>3
<1> QED BY <1>4, <1>5

(* The candidate of the k-th parameter is what the combinations of those   *)
(* up to it leave over.                                                    *)
LEMMA CandidateIs ==
  ASSUME NEW i \in 1..GridSize
  PROVE  /\ i - 1 \in Nat /\ (i - 1) \div GridSize = 0
         /\ \A k \in 1..Depth :
              /\ (i - 1) \div SizeFrom[k + 1] \in Nat
              /\ (i - 1) \div SizeFrom[k] = ((i - 1) \div SizeFrom[k + 1]) \div Width(k)
              /\ Candidate(i, NameOrder[k]) = 1 + (((i - 1) \div SizeFrom[k + 1]) % Width(k))
              /\ Candidate(i, NameOrder[k]) \in 1..Width(k)
<1>0. Depth \in Nat \ {0} /\ GridSize = SizeFrom[1] /\ GridSize \in Nat \ {0}
  BY GridTyped, SizesAre DEF GridSize
<1>1. i - 1 \in Nat /\ i - 1 \in 0..(GridSize - 1) /\ i - 1 = GridSize * 0 + (i - 1)
  BY <1>0
<1>2. (i - 1) \div GridSize = 0
  BY <1>0, <1>1, QuotientIs
<1>3. ASSUME NEW k \in 1..Depth
      PROVE  /\ (i - 1) \div SizeFrom[k + 1] \in Nat
             /\ (i - 1) \div SizeFrom[k] = ((i - 1) \div SizeFrom[k + 1]) \div Width(k)
             /\ Candidate(i, NameOrder[k]) = 1 + (((i - 1) \div SizeFrom[k + 1]) % Width(k))
             /\ Candidate(i, NameOrder[k]) \in 1..Width(k)
  <2>1. /\ SizeFrom[k + 1] \in Nat \ {0} /\ Width(k) \in Nat \ {0}
        /\ SizeFrom[k] = Width(k) * SizeFrom[k + 1]
    BY <1>0, SizesAre, WidthsArePositive
  <2>2. (i - 1) \div SizeFrom[k + 1] \in Nat
    BY <1>1, <2>1, Quotient
  <2>3. ((i - 1) \div SizeFrom[k + 1]) % Width(k) \in 0..(Width(k) - 1)
    BY <2>1, <2>2, Quotient
  <2>4. (i - 1) \div SizeFrom[k] = ((i - 1) \div SizeFrom[k + 1]) \div Width(k)
    BY <1>1, <2>1, DivideTwice
  <2>5. Candidate(i, NameOrder[k]) = 1 + (((i - 1) \div SizeFrom[k + 1]) % Width(k))
    <3>1. Place(NameOrder[k]) = k
      BY GridTyped
    <3> QED BY <3>1 DEF Candidate, Width
  <2>6. \A w \in Nat \ {0} : \A t \in 0..(w - 1) : 1 + t \in 1..w
    OBVIOUS
  <2>7. Candidate(i, NameOrder[k]) \in 1..Width(k)
    BY <2>1, <2>3, <2>5, <2>6
  <2> QED BY <2>2, <2>4, <2>5, <2>7
<1> QED BY <1>1, <1>2, <1>3

(* The candidates of the i-th suggestion.                                  *)
ComboAt(i) == [n \in Names |-> Candidate(i, n)]

LEMMA CombosDiffer ==
  ASSUME NEW i \in 1..GridSize, NEW j \in 1..GridSize, ComboAt(i) = ComboAt(j)
  PROVE  i = j
<1> DEFINE P == {k \in Nat : k <= Depth => (i - 1) \div SizeFrom[k + 1] = (j - 1) \div SizeFrom[k + 1]}
<1>0. Depth \in Nat \ {0} /\ GridSize = SizeFrom[1] /\ GridSize \in Nat \ {0}
  BY GridTyped, SizesAre DEF GridSize
<1>1. ASSUME NEW k \in Nat, \A m \in 0..(k - 1) : m \in P
      PROVE  k \in P
  <2> SUFFICES ASSUME k <= Depth
               PROVE  (i - 1) \div SizeFrom[k + 1] = (j - 1) \div SizeFrom[k + 1]
    OBVIOUS
  <2>1. CASE k = 0
    BY <1>0, <2>1, CandidateIs
  <2>2. CASE k # 0
    <3> DEFINE x == (i - 1) \div SizeFrom[k + 1]
               y == (j - 1) \div SizeFrom[k + 1]
               w == Width(k)
    <3>1. k \in 1..Depth /\ k - 1 \in P /\ (k - 1) + 1 = k /\ k - 1 <= Depth
      BY <1>0, <1>1, <2>2
    <3>2. (i - 1) \div SizeFrom[k] = (j - 1) \div SizeFrom[k]
      BY <3>1
    <3>3. x \in Nat /\ y \in Nat /\ w \in Nat \ {0}
      BY <3>1, CandidateIs, WidthsArePositive
    <3>4. x \div w = y \div w
      BY <3>1, <3>2, CandidateIs
    <3>5. x % w = y % w
      <4>1. Candidate(i, NameOrder[k]) = Candidate(j, NameOrder[k])
        <5>1. NameOrder[k] \in Names
          BY <3>1, GridTyped
        <5>2. ComboAt(i)[NameOrder[k]] = ComboAt(j)[NameOrder[k]]
          OBVIOUS
        <5> QED BY <5>1, <5>2 DEF ComboAt
      <4>2. 1 + (x % w) = 1 + (y % w)
        BY <3>1, <4>1, CandidateIs
      <4>3. x % w \in 0..(w - 1) /\ y % w \in 0..(w - 1)
        BY <3>3, Quotient
      <4> HIDE DEF x, y, w
      <4>4. x % w \in Int /\ y % w \in Int
        BY <3>3, <4>3
      <4> QED BY <4>2, <4>4
    <3>6. w * (x \div w) + (x % w) = x /\ w * (y \div w) + (y % w) = y
      BY <3>3, Quotient
    <3>7. x = y
      BY <3>4, <3>5, <3>6
    <3> QED BY <3>7
  <2> QED BY <2>1, <2>2
<1>2. \A k \in Nat : k \in P
  <2> HIDE DEF P
  <2> QED BY <1>1, Induct
<1>3. (i - 1) \div 1 = (j - 1) \div 1
  <2>1. Depth \in P /\ SizeFrom[Depth + 1] = 1
    BY <1>0, <1>2, SizesAre
  <2> QED BY <1>0, <2>1
<1>4. i \in Int /\ j \in Int /\ i >= 1 /\ j >= 1
  BY <1>0
<1> QED BY <1>3, <1>4

LEMMA CombosReached ==
  ASSUME NEW c \in Combos
  PROVE  \E i \in 1..GridSize : ComboAt(i) = c
<1> DEFINE Digits(x, k) == \A l \in 1..k : (x \div SizeFrom[l + 1]) % Width(l) = c[NameOrder[l]] - 1
           Found(q, k) == /\ (q + 1) * SizeFrom[k + 1] <= GridSize
                          /\ \A x \in Nat : x \div SizeFrom[k + 1] = q => Digits(x, k)
           P == {k \in Nat : k <= Depth => \E q \in Nat : Found(q, k)}
<1>0. Depth \in Nat \ {0} /\ GridSize = SizeFrom[1] /\ GridSize \in Nat \ {0}
  BY GridTyped, SizesAre DEF GridSize
<1>1. ASSUME NEW k \in 1..Depth
      PROVE  c[NameOrder[k]] - 1 \in 0..(Width(k) - 1) /\ c[NameOrder[k]] \in Int
  <2>1. NameOrder[k] \in Names /\ DOMAIN Grid[NameOrder[k]] = 1..Width(k) /\ Width(k) \in Nat \ {0}
    BY GridTyped DEF Width
  <2>2. c[NameOrder[k]] \in 1..Width(k)
    BY <2>1 DEF Combos
  <2> QED BY <2>1, <2>2
<1>2. ASSUME NEW k \in Nat, \A m \in 0..(k - 1) : m \in P
      PROVE  k \in P
  <2> SUFFICES ASSUME k <= Depth PROVE \E q \in Nat : Found(q, k)
    OBVIOUS
  <2>1. CASE k = 0
    <3>1. (0 + 1) * SizeFrom[1] <= GridSize
      BY <1>0
    <3>2. \A x \in Nat : Digits(x, 0)
      OBVIOUS
    <3>3. k + 1 = 1
      BY <2>1
    <3> HIDE DEF Digits
    <3>4. Found(0, k)
      BY <2>1, <3>1, <3>2, <3>3
    <3> QED BY <3>4
  <2>2. CASE k # 0
    <3>1. k \in 1..Depth /\ k - 1 \in P /\ (k - 1) + 1 = k /\ k - 1 <= Depth
      <4> HIDE DEF P
      <4>1. k - 1 \in 0..(k - 1)
        BY <2>2
      <4>2. k \in 1..Depth /\ (k - 1) + 1 = k /\ k - 1 <= Depth
        BY <1>0, <2>2
      <4> QED BY <1>2, <4>1, <4>2
    <3>2. PICK q \in Nat : Found(q, k - 1)
      BY <3>1
    <3> DEFINE w == Width(k)
               s == SizeFrom[k + 1]
               d == c[NameOrder[k]] - 1
               p == w * q + d
    <3>3. w \in Nat \ {0} /\ s \in Nat \ {0} /\ d \in 0..(w - 1) /\ SizeFrom[k] = w * s
      BY <1>0, <1>1, <3>1, SizesAre, WidthsArePositive
    <3>4. (q + 1) * (w * s) <= GridSize /\ \A x \in Nat : x \div (w * s) = q => Digits(x, k - 1)
      BY <3>1, <3>2, <3>3
    <3>5. p \in Nat /\ p + 1 <= w * (q + 1)
      <4> HIDE DEF w, d
      <4>1. w * (q + 1) = w * q + w /\ w * q \in Nat
        BY <3>3
      <4> QED BY <3>3, <4>1
    <3>6. (p + 1) * s <= GridSize
      <4> HIDE DEF w, d, s, p
      <4>1. (p + 1) * s <= (w * (q + 1)) * s
        <5>1. w * (q + 1) \in Nat
          BY <3>3
        <5>2. \A a, b \in Nat : a <= b => a * s <= b * s
          BY <3>3
        <5> QED BY <3>5, <5>1, <5>2
      <4>2. (w * (q + 1)) * s = (q + 1) * (w * s)
        BY <3>3
      <4>3. (p + 1) * s \in Int /\ (q + 1) * (w * s) \in Int
        BY <3>3, <3>5
      <4> QED BY <1>0, <3>4, <4>1, <4>2, <4>3
    <3>7. ASSUME NEW x \in Nat, x \div s = p PROVE Digits(x, k)
      <4>1. x \div (w * s) = (x \div s) \div w
        BY <3>3, DivideTwice
      <4>2. p \div w = q /\ p % w = d
        <5> HIDE DEF w, d
        <5> QED BY <3>3, <3>5, QuotientIs
      <4>3. Digits(x, k - 1)
        BY <3>4, <3>7, <4>1, <4>2
      <4>4. (x \div SizeFrom[k + 1]) % Width(k) = c[NameOrder[k]] - 1
        BY <3>7, <4>2
      <4>5. \A l \in 1..k : l = k \/ l \in 1..(k - 1)
        BY <3>1
      <4> QED BY <4>3, <4>4, <4>5
    <3>8. Found(p, k)
      BY <3>6, <3>7
    <3> QED BY <3>5, <3>8
  <2> QED BY <2>1, <2>2
<1>3. \A k \in Nat : k \in P
  <2> HIDE DEF P
  <2> QED BY <1>2, Induct
<1>4. PICK q \in Nat : Found(q, Depth)
  <2>1. Depth \in P
    BY <1>0, <1>3
  <2> QED BY <1>0, <2>1
<1>5. SizeFrom[Depth + 1] = 1 /\ q \div 1 = q /\ (q + 1) * 1 = q + 1
  BY SizesAre
<1>6. q + 1 \in 1..GridSize /\ Digits(q, Depth)
  BY <1>0, <1>4, <1>5
<1>7. ComboAt(q + 1) = c
  <2>1. (q + 1) - 1 = q
    OBVIOUS
  <2>2. ASSUME NEW n \in Names PROVE Candidate(q + 1, n) = c[n]
    <3>1. Place(n) \in 1..Depth /\ NameOrder[Place(n)] = n
      BY <2>2, GridTyped
    <3>2. Candidate(q + 1, n) = 1 + ((q \div SizeFrom[Place(n) + 1]) % Width(Place(n)))
      BY <1>6, <2>1, <3>1, CandidateIs
    <3>3. (q \div SizeFrom[Place(n) + 1]) % Width(Place(n)) = c[n] - 1
      BY <1>6, <3>1
    <3>4. c[n] \in Int
      BY <1>1, <3>1
    <3> QED BY <3>2, <3>3, <3>4
  <2>3. c = [n \in Names |-> c[n]]
    BY DEF Combos
  <2> QED BY <2>2, <2>3, Zenon DEF ComboAt
<1> QED BY <1>6, <1>7

LEMMA ComboTyped ==
  ASSUME NEW i \in 1..GridSize
  PROVE  ComboAt(i) \in Combos /\ GridPoint(i) \in Params
<1>1. ASSUME NEW n \in Names PROVE Candidate(i, n) \in DOMAIN Grid[n] /\ Grid[n][Candidate(i, n)] \in ToSet(Grid[n])
  <2>1. Place(n) \in 1..Depth /\ NameOrder[Place(n)] = n
    BY <1>1, GridTyped
  <2>2. Candidate(i, n) \in 1..Width(Place(n)) /\ Width(Place(n)) = Len(Grid[n])
    BY <2>1, CandidateIs DEF Width
  <2> QED BY <1>1, <2>2, GridTyped
<1>2. ComboAt(i) \in Combos
  BY <1>1 DEF ComboAt, Combos
<1>3. GridPoint(i) \in Params
  BY <1>1 DEF GridPoint, Params
<1> QED BY <1>2, <1>3

(* Parameters are suggested as often as there are candidates giving them.  *)
LEMMA GridCovers ==
  ASSUME NEW p \in Params
  PROVE  Cardinality({i \in 1..GridSize : GridPoint(i) = p}) =
         Cardinality({c \in Combos : \A n \in Names : Grid[n][c[n]] = p[n]})
<1> DEFINE S == {i \in 1..GridSize : GridPoint(i) = p}
           T == {c \in Combos : \A n \in Names : Grid[n][c[n]] = p[n]}
           f == [i \in S |-> ComboAt(i)]
<1>1. ASSUME NEW i \in 1..GridSize
      PROVE  GridPoint(i) = p <=> \A n \in Names : Grid[n][ComboAt(i)[n]] = p[n]
  <2>1. p = [n \in Names |-> p[n]]
    BY DEF Params
  <2>2. \A n \in Names : ComboAt(i)[n] = Candidate(i, n)
    BY DEF ComboAt
  <2>3. \A n \in Names : GridPoint(i)[n] = Grid[n][Candidate(i, n)]
    BY DEF GridPoint
  <2>4. GridPoint(i) = [n \in Names |-> GridPoint(i)[n]]
    BY DEF GridPoint
  <2> QED BY <2>1, <2>2, <2>3, <2>4
<1>2. f \in [S -> T]
  <2>1. ASSUME NEW i \in S PROVE ComboAt(i) \in T
    BY <1>1, ComboTyped
  <2> QED BY <2>1
<1>3. \A i, j \in S : f[i] = f[j] => i = j
  BY CombosDiffer
<1>4. ASSUME NEW c \in T PROVE \E i \in S : f[i] = c
  <2>1. PICK i \in 1..GridSize : ComboAt(i) = c
    BY CombosReached
  <2>2. i \in S
    BY <1>1, <2>1
  <2> QED BY <2>1, <2>2
<1>5. IsFiniteSet(S)
  <2>1. GridSize \in Nat
    BY GridTyped, SizesAre DEF GridSize
  <2>2. IsFiniteSet(1..GridSize)
    BY <2>1, FS_Interval
  <2>3. S \subseteq 1..GridSize
    OBVIOUS
  <2> QED BY <2>2, <2>3, FS_Subset
<1> HIDE DEF S, T, f
<1>6. f \in Bijection(S, T)
  BY <1>2, <1>3, <1>4 DEF Bijection, Injection, Surjection, IsInjective
<1>7. ExistsBijection(S, T)
  BY <1>6 DEF ExistsBijection
<1>8. Cardinality(T) = Cardinality(S)
  BY <1>5, <1>7, FS_Bijection
<1> QED BY <1>8 DEF S, T
-----------------------------------------------------------------------------
(* The folds of a walk-forward, in units of which NFolds * InSampleOf make *)
(* one of time.                                                            *)
Length == WindowEnd - WindowStart
Scaled(y) == y \div (NFolds * InSampleOf)

LEMMA LengthsTyped ==
  /\ WindowStart \in Nat /\ Length \in Nat /\ NFolds \in Nat \ {0} /\ InSampleOf \in Nat \ {0}
  /\ InSample \in Nat \ {0} /\ NFolds * InSampleOf \in Nat \ {0}
  /\ InSample * Length \in Nat /\ InSample * Length >= NFolds * InSampleOf
<1>1. /\ WindowStart \in Nat /\ WindowEnd \in Nat /\ NFolds \in Nat \ {0} /\ InSampleOf \in Nat
      /\ WindowStart < WindowEnd /\ InSample \in 1..(InSampleOf - 1)
      /\ InSample * Length >= NFolds * InSampleOf
  BY SearchAssumption DEF Length
<1>2. Length \in Nat /\ InSampleOf \in Nat \ {0} /\ InSample \in Nat \ {0}
  BY <1>1 DEF Length
<1>3. NFolds * InSampleOf \in Nat \ {0} /\ InSample * Length \in Nat
  BY <1>1, <1>2, ProductIs
<1> QED BY <1>1, <1>2, <1>3

LEMMA EdgesAre ==
  ASSUME NEW i \in Nat
  PROVE  /\ (i * Length) * InSampleOf \in Nat
         /\ WindowEdge(i) = WindowStart + Scaled((i * Length) * InSampleOf)
<1>1. i * Length \in Nat /\ (i * Length) * InSampleOf \in Nat
  BY LengthsTyped
<1> DEFINE x == i * Length
           o == InSampleOf
<1>2. x \in Nat /\ o \in Nat \ {0} /\ x * o \in Nat
  BY <1>1, LengthsTyped
<1> HIDE DEF x, o
<1>3. x * o = o * x + 0 /\ 0 \in 0..(o - 1)
  BY <1>2
<1>4. (x * o) \div o = x
  BY <1>2, <1>3, QuotientIs
<1>5. (x * o) \div (NFolds * o) = ((x * o) \div o) \div NFolds
  BY <1>2, LengthsTyped, DivideTwice
<1> QED BY <1>1, <1>4, <1>5 DEF WindowEdge, Scaled, Length, x, o

LEMMA InSampleEndIs ==
  ASSUME NEW i \in Nat \ {0}
  PROVE  /\ ((i - 1) * Length) * InSampleOf + InSample * Length \in Nat
         /\ InSampleEnd(i) = WindowStart + Scaled(((i - 1) * Length) * InSampleOf + InSample * Length)
<1>1. (i - 1) * InSampleOf + InSample \in Nat /\ i - 1 \in Nat
  BY LengthsTyped
<1>2. \A a, b, c, d \in Nat : (a * b + c) * d = (a * d) * b + c * d /\ (a * d) * b + c * d \in Nat
  OBVIOUS
<1>3. /\ ((i - 1) * InSampleOf + InSample) * Length = ((i - 1) * Length) * InSampleOf + InSample * Length
      /\ ((i - 1) * Length) * InSampleOf + InSample * Length \in Nat
  BY <1>1, <1>2, LengthsTyped
<1> QED BY <1>3 DEF InSampleEnd, Scaled, Length

LEMMA ScaledClimbs ==
  ASSUME NEW x \in Nat, NEW y \in Nat, x <= y
  PROVE  Scaled(x) \in Nat /\ Scaled(y) \in Nat /\ Scaled(x) <= Scaled(y)
BY LengthsTyped, QuotientsClimb, Quotient DEF Scaled

LEMMA FoldsApart ==
  ASSUME NEW i \in Nat \ {0}, NEW j \in Nat \ {0}, NEW s
  PROVE  /\ FoldOf(i, s).inSample[1] < FoldOf(i, s).inSample[2]
         /\ i <= j => FoldOf(i, s).inSample[2] <= FoldOf(j, s).outOfSample[1]
         /\ i < j => FoldOf(i, s).outOfSample[2] <= FoldOf(j, s).outOfSample[1]
<1> DEFINE E(n) == (n * Length) * InSampleOf
           part == InSample * Length
<1>1. ASSUME NEW n \in Nat
      PROVE  E(n) \in Nat /\ WindowEdge(n) = WindowStart + Scaled(E(n))
  BY EdgesAre
<1>2. part \in Nat /\ part >= NFolds * InSampleOf /\ NFolds * InSampleOf \in Nat \ {0}
  BY LengthsTyped
<1>3. ASSUME NEW n \in Nat \ {0}
      PROVE  InSampleEnd(n) = WindowStart + Scaled(E(n - 1) + part)
  BY InSampleEndIs
<1>4. ASSUME NEW m \in Nat, NEW n \in Nat, m <= n PROVE E(m) <= E(n)
  <2>1. \A a, b, c \in Nat : a <= b => a * c <= b * c /\ a * c \in Nat /\ b * c \in Nat
    OBVIOUS
  <2>2. m * Length <= n * Length /\ m * Length \in Nat /\ n * Length \in Nat
    BY <1>4, <2>1, LengthsTyped
  <2> QED BY <2>1, <2>2, LengthsTyped
<1> HIDE DEF E, part
<1>5. WindowStart \in Nat /\ i - 1 \in Nat /\ j - 1 \in Nat
  BY LengthsTyped
<1>6. Scaled(E(i - 1)) \in Nat /\ Scaled(E(i - 1) + part) \in Nat /\ Scaled(E(i - 1)) < Scaled(E(i - 1) + part)
  <2> DEFINE d == NFolds * InSampleOf
  <2>1. E(i - 1) \in Nat /\ d \in Nat \ {0}
    BY <1>1, <1>2, <1>5
  <2>2. Scaled(E(i - 1) + d) = Scaled(E(i - 1)) + 1
    BY <2>1, QuotientOneMore DEF Scaled
  <2> HIDE DEF d
  <2>3. E(i - 1) + d \in Nat /\ E(i - 1) + part \in Nat /\ E(i - 1) + d <= E(i - 1) + part
    BY <1>2, <2>1 DEF d
  <2>4. Scaled(E(i - 1) + d) <= Scaled(E(i - 1) + part) /\ Scaled(E(i - 1) + part) \in Nat
    BY <2>3, ScaledClimbs
  <2>5. Scaled(E(i - 1)) \in Nat
    BY <2>1, ScaledClimbs
  <2> QED BY <2>2, <2>4, <2>5
<1>7. FoldOf(i, s).inSample[1] < FoldOf(i, s).inSample[2]
  <2>1. FoldOf(i, s).inSample[1] = IF s = "expanding" THEN WindowStart ELSE WindowEdge(i - 1)
    BY DEF FoldOf
  <2>2. FoldOf(i, s).inSample[2] = InSampleEnd(i)
    BY DEF FoldOf
  <2>3. WindowEdge(i - 1) = WindowStart + Scaled(E(i - 1)) /\ InSampleEnd(i) = WindowStart + Scaled(E(i - 1) + part)
    BY <1>1, <1>3, <1>5
  <2> QED BY <1>5, <1>6, <2>1, <2>2, <2>3
<1>8. ASSUME i <= j PROVE FoldOf(i, s).inSample[2] <= FoldOf(j, s).outOfSample[1]
  <2>1. FoldOf(i, s).inSample[2] = InSampleEnd(i) /\ FoldOf(j, s).outOfSample[1] = InSampleEnd(j)
    BY DEF FoldOf
  <2>2. E(i - 1) \in Nat /\ E(j - 1) \in Nat /\ E(i - 1) <= E(j - 1)
    BY <1>1, <1>4, <1>5, <1>8
  <2>3. E(i - 1) + part \in Nat /\ E(j - 1) + part \in Nat /\ E(i - 1) + part <= E(j - 1) + part
    BY <1>2, <2>2
  <2>4. Scaled(E(i - 1) + part) \in Nat /\ Scaled(E(j - 1) + part) \in Nat
        /\ Scaled(E(i - 1) + part) <= Scaled(E(j - 1) + part)
    BY <2>3, ScaledClimbs
  <2> QED BY <1>3, <1>5, <2>1, <2>4
<1>9. ASSUME i < j PROVE FoldOf(i, s).outOfSample[2] <= FoldOf(j, s).outOfSample[1]
  <2>1. FoldOf(i, s).outOfSample[2] = WindowEdge(i) /\ FoldOf(j, s).outOfSample[1] = InSampleEnd(j)
    BY DEF FoldOf
  <2>2. E(i) \in Nat /\ E(j - 1) \in Nat /\ E(i) <= E(j - 1)
    BY <1>1, <1>4, <1>5, <1>9
  <2>3. E(j - 1) + part \in Nat /\ E(i) <= E(j - 1) + part
    BY <1>2, <2>2
  <2>4. Scaled(E(i)) \in Nat /\ Scaled(E(j - 1) + part) \in Nat /\ Scaled(E(i)) <= Scaled(E(j - 1) + part)
    BY <2>2, <2>3, ScaledClimbs
  <2> QED BY <1>1, <1>3, <1>5, <2>1, <2>4
<1> QED BY <1>7, <1>8, <1>9

-----------------------------------------------------------------------------
(* No member of S is above i.                                              *)
Tops(S, below) == {i \in S : \A j \in S : <<i, j>> \notin below}

(* Where nothing is above itself and above chains, some set member is top. *)
LEMMA TopExists ==
  ASSUME NEW n \in Nat, NEW below,
         \A i \in 1..n : <<i, i>> \notin below,
         \A i, j, k \in 1..n : <<i, j>> \in below /\ <<j, k>> \in below => <<i, k>> \in below,
         NEW S \in SUBSET (1..n), S # {}
  PROVE  Tops(S, below) # {}
<1> DEFINE P == {m \in Nat : m <= n => \A U \in SUBSET (1..m) : U # {} => Tops(U, below) # {}}
<1>1. ASSUME NEW m \in Nat, \A l \in 0..(m - 1) : l \in P
      PROVE  m \in P
  <2> SUFFICES ASSUME m <= n, NEW U \in SUBSET (1..m), U # {} PROVE \E i \in U : \A j \in U : <<i, j>> \notin below
    BY DEF Tops
  <2>0. m # 0 /\ m - 1 \in Nat /\ m - 1 <= n /\ m \in 1..n /\ 1..m \subseteq 1..n
    <3>1. PICK i : i \in U
      OBVIOUS
    <3>2. i \in 1..m
      BY <3>1
    <3> QED BY <3>2
  <2>1. CASE m \notin U
    <3>1. U \in SUBSET (1..(m - 1)) /\ m - 1 \in P
      BY <1>1, <2>0, <2>1
    <3>2. Tops(U, below) # {}
      BY <2>0, <3>1
    <3> QED BY <3>2 DEF Tops
  <2>2. CASE m \in U /\ U \ {m} = {}
    BY <2>0, <2>2
  <2>3. CASE m \in U /\ U \ {m} # {}
    <3>1. U \ {m} \in SUBSET (1..(m - 1)) /\ m - 1 \in P
      BY <1>1, <2>0
    <3>2. Tops(U \ {m}, below) # {}
      BY <2>0, <2>3, <3>1
    <3>3. PICK i \in U \ {m} : \A j \in U \ {m} : <<i, j>> \notin below
      BY <3>2 DEF Tops
    <3>4. CASE <<i, m>> \notin below
      BY <3>3, <3>4
    <3>5. CASE <<i, m>> \in below
      <4>1. ASSUME NEW j \in U, <<m, j>> \in below PROVE FALSE
        <5>1. i \in 1..n /\ j \in 1..n
          BY <2>0
        <5>2. <<i, j>> \in below /\ j # m
          BY <2>0, <3>5, <4>1, <5>1
        <5> QED BY <3>3, <5>2
      <4> QED BY <2>3, <4>1
    <3> QED BY <3>4, <3>5
  <2> QED BY <2>1, <2>2, <2>3
<1>2. \A m \in Nat : m \in P
  <2> HIDE DEF P
  <2> QED BY <1>1, Induct
<1> QED BY <1>2

(* A greatest of n integers.                                               *)
LEMMA GreatestExists ==
  ASSUME NEW n \in Nat \ {0}, NEW h \in [1..n -> Int]
  PROVE  \E i \in 1..n : \A j \in 1..n : h[j] <= h[i]
<1> DEFINE below == {p \in (1..n) \X (1..n) : h[p[1]] < h[p[2]]}
<1>1. \A i, j \in 1..n : <<i, j>> \in below <=> h[i] < h[j]
  OBVIOUS
<1> HIDE DEF below
<1>2. \A i \in 1..n : h[i] \in Int
  OBVIOUS
<1>3. \A i \in 1..n : <<i, i>> \notin below
  BY <1>1, <1>2
<1>4. \A i, j, k \in 1..n : <<i, j>> \in below /\ <<j, k>> \in below => <<i, k>> \in below
  BY <1>1, <1>2
<1>5. 1..n # {} /\ 1..n \in SUBSET (1..n) /\ n \in Nat
  OBVIOUS
<1>6. Tops(1..n, below) # {}
  BY <1>3, <1>4, <1>5, TopExists
<1>7. PICK i \in 1..n : \A j \in 1..n : <<i, j>> \notin below
  BY <1>6 DEF Tops
<1>8. ASSUME NEW j \in 1..n PROVE h[j] <= h[i]
  <2>1. ~(h[i] < h[j]) /\ h[i] \in Int /\ h[j] \in Int
    BY <1>1, <1>2, <1>7
  <2> QED BY <2>1
<1> QED BY <1>8

(* The metrics of a report, as the frontier compares them.                 *)
Merit(a, obj) ==
  IF obj.dir = "max" THEN Coerce(a[obj.metric], obj.dir) ELSE -Coerce(a[obj.metric], obj.dir)

LEMMA MetricTyped ==
  ASSUME NEW r \in Reports, NEW name \in DOMAIN Metrics[r]
  PROVE  Metrics[r][name] # None =>
           /\ Metrics[r][name] \in Int
           /\ Worst <= Metrics[r][name] /\ Metrics[r][name] <= -Worst
<1>1. Metrics[r] = MetricsOf(r)
  BY DEF Metrics
<1>2. \A q \in Reports : \A m \in DOMAIN MetricsOf(q) :
        MetricsOf(q)[m] # None => /\ MetricsOf(q)[m] \in Int
                                  /\ Worst <= MetricsOf(q)[m] /\ MetricsOf(q)[m] <= -Worst
  BY SearchAssumption, Zenon
<1> QED BY <1>1, <1>2

Measured == {Metrics[r] : r \in Reports}

LEMMA MeritTyped ==
  ASSUME NEW a \in Measured, NEW obj \in Objectives
  PROVE  Merit(a, obj) \in Int
<1>1. PICK r \in Reports : a = Metrics[r]
  BY DEF Measured
<1>2. obj.metric \in DOMAIN Metrics[r] /\ Worst \in Int
  BY SearchAssumption DEF Metrics
<1>3. a[obj.metric] # None => a[obj.metric] \in Int
  BY <1>1, <1>2, MetricTyped
<1>4. Coerce(a[obj.metric], obj.dir) \in Int
  BY <1>2, <1>3 DEF Coerce
<1> QED BY <1>4 DEF Merit

LEMMA BetterIs ==
  ASSUME NEW a \in Measured, NEW b \in Measured, NEW obj \in Objectives
  PROVE  Better(a, b, obj) <=> Merit(a, obj) > Merit(b, obj)
<1>1. obj.dir \in {"max", "min"}
  BY SearchAssumption
<1>2. Merit(a, obj) \in Int /\ Merit(b, obj) \in Int
  BY MeritTyped
<1>3. CASE obj.dir = "max"
  BY <1>3 DEF Better, Merit
<1>4. CASE obj.dir = "min"
  <2> DEFINE x == Coerce(a[obj.metric], obj.dir)
             y == Coerce(b[obj.metric], obj.dir)
  <2>1. Merit(a, obj) = -x /\ Merit(b, obj) = -y
    BY <1>4 DEF Merit
  <2>2. Better(a, b, obj) <=> x < y
    BY <1>4 DEF Better
  <2>3. x \in Int /\ y \in Int
    <3>1. PICK q, r \in Reports : a = Metrics[q] /\ b = Metrics[r]
      BY DEF Measured
    <3>2. obj.metric \in DOMAIN Metrics[q] /\ obj.metric \in DOMAIN Metrics[r] /\ Worst \in Int
      BY SearchAssumption DEF Metrics
    <3>3. (a[obj.metric] # None => a[obj.metric] \in Int) /\ (b[obj.metric] # None => b[obj.metric] \in Int)
      BY <3>1, <3>2, MetricTyped
    <3> QED BY <3>2, <3>3 DEF Coerce
  <2> HIDE DEF x, y
  <2> QED BY <2>1, <2>2, <2>3
<1> QED BY <1>1, <1>3, <1>4

LEMMA DominationIs ==
  ASSUME NEW a \in Measured, NEW b \in Measured
  PROVE  Dominates(a, b, Objectives) <=>
           /\ \A obj \in Objectives : Merit(b, obj) <= Merit(a, obj)
           /\ \E obj \in Objectives : Merit(a, obj) > Merit(b, obj)
<1>1. \A obj \in Objectives : Merit(a, obj) \in Int /\ Merit(b, obj) \in Int
  BY MeritTyped
<1>2. \A obj \in Objectives : Better(a, b, obj) <=> Merit(a, obj) > Merit(b, obj)
  BY BetterIs
<1>3. \A obj \in Objectives : ~Better(b, a, obj) <=> Merit(b, obj) <= Merit(a, obj)
  <2>1. \A obj \in Objectives : Better(b, a, obj) <=> Merit(b, obj) > Merit(a, obj)
    BY BetterIs
  <2> QED BY <1>1, <2>1
<1> QED BY <1>2, <1>3 DEF Dominates

(* Chains of domination end on the frontier.                               *)
LEMMA FrontierReached ==
  ASSUME NEW n \in Nat \ {0}, NEW cells \in [1..n -> Measured]
  PROVE  /\ \A obj \in Objectives : \E i \in Frontier(cells, Objectives) :
              \A j \in 1..n : ~Better(cells[j], cells[i], obj)
         /\ \A j \in (1..n) \ Frontier(cells, Objectives) : \E i \in Frontier(cells, Objectives) :
              Dominates(cells[i], cells[j], Objectives)
<1> DEFINE below == {p \in (1..n) \X (1..n) : Dominates(cells[p[2]], cells[p[1]], Objectives)}
           h(i, obj) == Merit(cells[i], obj)
           f == Frontier(cells, Objectives)
<1>1. \A i \in 1..n : cells[i] \in Measured
  OBVIOUS
<1>2. \A i, j \in 1..n : <<i, j>> \in below <=> Dominates(cells[j], cells[i], Objectives)
  OBVIOUS
<1>3. ASSUME NEW i \in 1..n, NEW obj \in Objectives PROVE h(i, obj) \in Int
  BY <1>1, MeritTyped
<1>4. ASSUME NEW i \in 1..n, NEW j \in 1..n
      PROVE  <<i, j>> \in below <=> /\ \A obj \in Objectives : h(i, obj) <= h(j, obj)
                                    /\ \E obj \in Objectives : h(j, obj) > h(i, obj)
  <2>1. cells[i] \in Measured /\ cells[j] \in Measured
    OBVIOUS
  <2> QED BY <1>2, <2>1, DominationIs
<1>5. f = {i \in 1..n : \A j \in 1..n : <<i, j>> \notin below}
  <2>1. DOMAIN cells = 1..n
    OBVIOUS
  <2> QED BY <1>2, <2>1 DEF Frontier
<1> HIDE DEF below, h, f
<1>6. \A i \in 1..n : <<i, i>> \notin below
  <2> SUFFICES ASSUME NEW i \in 1..n, <<i, i>> \in below PROVE FALSE
    OBVIOUS
  <2>1. PICK obj \in Objectives : h(i, obj) > h(i, obj)
    BY <1>4
  <2> QED BY <1>3, <2>1
<1>7. \A i, j, k \in 1..n : <<i, j>> \in below /\ <<j, k>> \in below => <<i, k>> \in below
  <2> SUFFICES ASSUME NEW i \in 1..n, NEW j \in 1..n, NEW k \in 1..n,
                      <<i, j>> \in below, <<j, k>> \in below
               PROVE  <<i, k>> \in below
    OBVIOUS
  <2>1. \A obj \in Objectives : h(i, obj) <= h(j, obj) /\ h(j, obj) <= h(k, obj)
    BY <1>4
  <2>2. PICK o \in Objectives : h(j, o) > h(i, o)
    BY <1>4
  <2>3. \A obj \in Objectives : h(i, obj) \in Int /\ h(j, obj) \in Int /\ h(k, obj) \in Int
    BY <1>3
  <2>4. \A obj \in Objectives : h(i, obj) <= h(k, obj)
    BY <2>1, <2>3
  <2>5. h(k, o) > h(i, o)
    BY <2>1, <2>2, <2>3
  <2> QED BY <1>4, <2>4, <2>5
<1>8. ASSUME NEW S \in SUBSET (1..n), S # {}
      PROVE  \E i \in S : \A j \in S : <<i, j>> \notin below
  <2>1. Tops(S, below) # {}
    BY <1>6, <1>7, <1>8, TopExists
  <2> QED BY <2>1 DEF Tops
<1>9. ASSUME NEW obj \in Objectives
      PROVE  \E i \in f : \A j \in 1..n : ~Better(cells[j], cells[i], obj)
  <2> DEFINE S == {i \in 1..n : \A j \in 1..n : h(j, obj) <= h(i, obj)}
             g == [i \in 1..n |-> h(i, obj)]
  <2>1. S # {}
    <3>1. g \in [1..n -> Int]
      BY <1>3
    <3>2. PICK i \in 1..n : \A j \in 1..n : g[j] <= g[i]
      BY <3>1, GreatestExists
    <3>3. i \in S
      BY <3>2
    <3> QED BY <3>3
  <2>2. PICK i \in S : \A j \in S : <<i, j>> \notin below
    BY <1>8, <2>1
  <2>3. ASSUME NEW j \in 1..n, <<i, j>> \in below PROVE FALSE
    <3>1. h(i, obj) <= h(j, obj) /\ h(j, obj) \in Int /\ h(i, obj) \in Int
      BY <1>3, <1>4, <2>3
    <3>2. ASSUME NEW k \in 1..n PROVE h(k, obj) <= h(j, obj)
      <4>1. h(k, obj) <= h(i, obj) /\ h(k, obj) \in Int
        BY <1>3
      <4> QED BY <3>1, <4>1
    <3>3. j \in S
      BY <3>2
    <3> QED BY <2>2, <2>3, <3>3
  <2>4. i \in f
    BY <1>5, <2>3
  <2>5. ASSUME NEW j \in 1..n PROVE ~Better(cells[j], cells[i], obj)
    <3>1. h(j, obj) <= h(i, obj) /\ h(i, obj) \in Int /\ h(j, obj) \in Int
      BY <1>3
    <3>2. Better(cells[j], cells[i], obj) <=> h(j, obj) > h(i, obj)
      <4>1. cells[i] \in Measured /\ cells[j] \in Measured
        BY <1>1
      <4> QED BY <4>1, BetterIs DEF h
    <3> QED BY <3>1, <3>2
  <2> QED BY <2>4, <2>5
<1>10. ASSUME NEW j \in (1..n) \ f
       PROVE  \E i \in f : Dominates(cells[i], cells[j], Objectives)
  <2> DEFINE S == {i \in 1..n : <<j, i>> \in below}
  <2>1. S # {}
    BY <1>5
  <2>2. PICK i \in S : \A k \in S : <<i, k>> \notin below
    BY <1>8, <2>1
  <2>3. ASSUME NEW k \in 1..n, <<i, k>> \in below PROVE FALSE
    <3>1. k \in S
      BY <1>7, <2>3
    <3> QED BY <2>2, <2>3, <3>1
  <2>4. i \in f
    BY <1>5, <2>3
  <2> QED BY <1>2, <2>4
<1> QED BY <1>9, <1>10 DEF f

-----------------------------------------------------------------------------
(* What a search has at each point of a sweep.                             *)
CellRecords == {[params |-> p, report |-> r, metrics |-> Metrics[r]] : p \in Params, r \in Reports}
FoldRecords == [index : Nat, params : Params]
Swept == at \in {"rank", "ranked", "raised", "done"}

(* The suggestions are the cells run and the one under way.                *)
CellsInv ==
  /\ at \in {"suggest", "run", "rank", "raised", "ranked", "done"}
  /\ algo \in {"grid", "random", "optuna", "genetic"} /\ fold \in 1..NFolds
  /\ results \in Seq(CellRecords) /\ asked = Len(results) + (IF at = "run" THEN 1 ELSE 0)
  /\ at = "run" => cell \in Params
  /\ \A p \in DOMAIN outcome : outcome[p] \in Reports

GridInv ==
  algo = "grid" =>
    /\ asked <= GridSize /\ (Swept => asked = GridSize)
    /\ \A i \in 1..Len(results) : results[i].params = GridPoint(i)
    /\ at = "run" => cell = GridPoint(asked)

DrawInv == algo \in {"random", "optuna"} => asked <= NTrials /\ (Swept => asked = NTrials)

BreedInv ==
  /\ algo # "genetic" => gen = 0 /\ inGen = 0 /\ pop = <<>>
  /\ algo = "genetic" /\ ~Swept =>
       /\ gen \in 0..(Generations - 1) /\ inGen \in 0..PopSize /\ asked = gen * PopSize + inGen
       /\ pop \in [1..PopSize -> Params]
  /\ algo = "genetic" /\ Swept =>
       gen = Generations /\ inGen = 0 /\ pop = <<>> /\ asked = Generations * PopSize

(* The score of a report when cells are ranked by a metric.                *)
ScoreBy(name, r) ==
  IF ~(\A q \in Reports : name \in DOMAIN Metrics[q]) THEN 0
  ELSE IF Metrics[r][name] = None THEN Worst
  ELSE IF name = "max_drawdown" THEN -Metrics[r][name] ELSE Metrics[r][name]

(* The first of a bred generation scored what the best before it did.      *)
ScoreInv ==
  algo = "genetic" /\ ~Swept =>
    /\ \A p \in DOMAIN scores : p \in DOMAIN outcome /\ scores[p] = ScoreBy(rankBy, outcome[p])
    /\ \A i \in 1..(IF at = "run" THEN inGen - 1 ELSE inGen) : pop[i] \in DOMAIN scores
    /\ at = "run" => inGen >= 1 /\ cell = pop[inGen]
    /\ gen = 0 => best = Worst
    /\ best \in Int
    /\ gen > 0 /\ Elite > 0 => pop[1] \in DOMAIN outcome /\ best <= ScoreBy(rankBy, outcome[pop[1]])

FoldsInv ==
  /\ folds \in Seq(FoldRecords) /\ \A i \in 1..Len(folds) : folds[i].index = i
  /\ Len(folds) = IF at = "done" THEN fold ELSE fold - 1

SearchInv == CellsInv /\ GridInv /\ DrawInv /\ BreedInv /\ ScoreInv /\ FoldsInv

LEMMA SearchConstants ==
  /\ NTrials \in Nat \ {0} /\ PopSize \in Nat \ {0} /\ Generations \in Nat \ {0}
  /\ Elite \in 0..(PopSize - 1) /\ NFolds \in Nat \ {0} /\ GridSize \in Nat \ {0}
  /\ Worst \in Int /\ Worst < 0 /\ Algos \subseteq {"grid", "random", "optuna", "genetic"}
<1>1. GridSize \in Nat \ {0}
  BY GridTyped, SizesAre DEF GridSize
<1>2. /\ {NTrials, PopSize, Generations, Elite, NFolds} \subseteq Nat
      /\ NTrials >= 1 /\ PopSize >= 2 /\ Generations >= 1 /\ Elite < PopSize /\ NFolds >= 1
      /\ Worst \in Int /\ Worst < 0 /\ Algos \subseteq {"grid", "random", "optuna", "genetic"}
  BY SearchAssumption
<1> QED BY <1>1, <1>2

LEMMA ScoreIs == ASSUME NEW r PROVE ScoreOf(r) = ScoreBy(rankBy, r)
BY DEF ScoreOf, ScoreBy, Known, Minimize

LEMMA ScoreTyped ==
  ASSUME NEW r \in Reports
  PROVE  ScoreOf(r) \in Int /\ Worst <= ScoreOf(r)
<1>1. Worst \in Int /\ Worst < 0
  BY SearchConstants
<1>2. CASE ~Known(rankBy)
  BY <1>1, <1>2 DEF ScoreOf
<1>3. CASE Known(rankBy)
  <2>1. rankBy \in DOMAIN Metrics[r]
    BY <1>3 DEF Known
  <2>2. Metrics[r][rankBy] # None => /\ Metrics[r][rankBy] \in Int
                                     /\ Worst <= Metrics[r][rankBy] /\ Metrics[r][rankBy] <= -Worst
    BY <2>1, MetricTyped
  <2> QED BY <1>1, <1>3, <2>2 DEF ScoreOf
<1> QED BY <1>2, <1>3

(* The individuals of a generation, best first.                            *)
LEMMA FitnessTyped ==
  ASSUME CellsInv, ScoreInv, algo = "genetic", ~Swept, NEW i \in 1..PopSize
  PROVE  /\ Fitness(i) \in Int /\ Worst <= Fitness(i)
         /\ pop[i] \in DOMAIN scores =>
              /\ Fitness(i) = scores[pop[i]] /\ pop[i] \in DOMAIN outcome
              /\ Fitness(i) = ScoreBy(rankBy, outcome[pop[i]])
<1>1. Worst \in Int
  BY SearchConstants
<1>2. CASE pop[i] \in DOMAIN scores
  <2>1. Fitness(i) = scores[pop[i]]
    BY <1>2 DEF Fitness
  <2>2. pop[i] \in DOMAIN outcome /\ scores[pop[i]] = ScoreBy(rankBy, outcome[pop[i]])
    BY <1>2 DEF ScoreInv
  <2>3. outcome[pop[i]] \in Reports
    BY <2>2 DEF CellsInv
  <2> QED BY <2>1, <2>2, <2>3, ScoreTyped, ScoreIs
<1>3. CASE pop[i] \notin DOMAIN scores
  BY <1>1, <1>3 DEF Fitness
<1> QED BY <1>2, <1>3

LEMMA BestIsFirst ==
  ASSUME CellsInv, ScoreInv, algo = "genetic", ~Swept
  PROVE  /\ ByScore \in [1..PopSize -> 1..PopSize]
         /\ BestFitness = Fitness(ByScore[1])
         /\ \A i \in 1..PopSize : Fitness(i) <= BestFitness
<1> DEFINE N == PopSize
           h == [i \in 1..N |-> Fitness(i)]
           first(i, j) == h[i] > h[j] \/ (h[i] = h[j] /\ i < j)
           earlier == {p \in (1..N) \X (1..N) : first(p[1], p[2])}
           Sorted(s) == /\ \A i, j \in 1..N : i < j => \/ Fitness(s[i]) > Fitness(s[j])
                                                       \/ Fitness(s[i]) = Fitness(s[j]) /\ s[i] < s[j]
                        /\ \A i \in 1..N : \E j \in 1..N : s[j] = i
<1>0. N \in Nat \ {0} /\ h \in [1..N -> Int] /\ \A i \in 1..N : h[i] \in Int
  BY SearchConstants, FitnessTyped
<1>1. \A i, j \in 1..N : <<i, j>> \in earlier <=> first(i, j)
  OBVIOUS
<1>2. \A i \in 1..N : h[i] = Fitness(i)
  OBVIOUS
<1>3. ByScore = CHOOSE s \in [1..N -> 1..N] : Sorted(s)
  BY DEF ByScore
<1>4. BestFitness = CHOOSE x \in {Fitness(i) : i \in 1..N} : \A y \in {Fitness(i) : i \in 1..N} : x >= y
  BY DEF BestFitness, Max
<1> HIDE DEF N, h, earlier
<1>5. Ordering(1..N, earlier)
  <2>1. ASSUME NEW x \in 1..N, NEW y \in 1..N, x # y PROVE first(x, y) \/ first(y, x)
    <3>1. h[x] \in Int /\ h[y] \in Int /\ x \in Int /\ y \in Int
      BY <1>0
    <3>2. (h[x] > h[y] \/ h[y] > h[x] \/ h[x] = h[y]) /\ (x < y \/ y < x)
      BY <2>1, <3>1
    <3> QED BY <3>2
  <2>2. ASSUME NEW x \in 1..N, NEW y \in 1..N, NEW z \in 1..N, first(x, y), first(y, z) PROVE first(x, z)
    BY <1>0, <2>2
  <2> HIDE DEF first
  <2> QED BY <1>1, <2>1, <2>2 DEF Ordering
<1>6. IsFiniteSet(1..N) /\ Cardinality(1..N) = N
  BY <1>0, FS_Interval
<1>7. PICK t : Lists(t, 1..N, earlier)
  BY <1>5, <1>6, ListsExist
<1>8. /\ t \in [1..N -> 1..N]
      /\ \A i, j \in 1..N : i < j => <<t[i], t[j]>> \in earlier
      /\ \A x \in 1..N : \E i \in 1..N : t[i] = x
  BY <1>6, <1>7 DEF Lists
<1>9. \A i, j \in 1..N : i < j => \/ Fitness(t[i]) > Fitness(t[j])
                                  \/ Fitness(t[i]) = Fitness(t[j]) /\ t[i] < t[j]
  <2> SUFFICES ASSUME NEW i \in 1..N, NEW j \in 1..N, i < j
               PROVE  \/ Fitness(t[i]) > Fitness(t[j])
                      \/ Fitness(t[i]) = Fitness(t[j]) /\ t[i] < t[j]
    OBVIOUS
  <2>1. t[i] \in 1..N /\ t[j] \in 1..N /\ <<t[i], t[j]>> \in earlier
    BY <1>8
  <2>2. first(t[i], t[j])
    BY <1>1, <2>1
  <2> QED BY <1>2, <2>1, <2>2
<1>10. /\ ByScore \in [1..N -> 1..N]
       /\ \A i, j \in 1..N : i < j => \/ Fitness(ByScore[i]) > Fitness(ByScore[j])
                                      \/ Fitness(ByScore[i]) = Fitness(ByScore[j]) /\ ByScore[i] < ByScore[j]
       /\ \A i \in 1..N : \E j \in 1..N : ByScore[j] = i
  <2>1. Sorted(t)
    BY <1>8, <1>9
  <2> HIDE DEF Sorted
  <2>2. ByScore \in [1..N -> 1..N] /\ Sorted(ByScore)
    BY <1>3, <1>8, <2>1, Zenon
  <2> QED BY <2>2 DEF Sorted
<1>11. 1 \in 1..N /\ ByScore[1] \in 1..N /\ \A i \in 1..N : Fitness(i) \in Int
  BY <1>0, <1>2, <1>10
<1>12. ASSUME NEW i \in 1..N PROVE Fitness(i) <= Fitness(ByScore[1])
  <2>1. PICK j \in 1..N : ByScore[j] = i
    BY <1>10
  <2>2. CASE j = 1
    BY <1>11, <2>1, <2>2
  <2>3. CASE j # 1
    <3>1. 1 < j
      BY <1>0, <2>3
    <3>2. Fitness(ByScore[1]) > Fitness(i) \/ Fitness(ByScore[1]) = Fitness(i)
      BY <1>10, <1>11, <2>1, <3>1
    <3> QED BY <1>11, <3>2
  <2> QED BY <2>2, <2>3
<1>13. BestFitness = Fitness(ByScore[1])
  <2> DEFINE F == {Fitness(i) : i \in 1..N}
  <2>1. Fitness(ByScore[1]) \in F /\ \A y \in F : y \in Int /\ Fitness(ByScore[1]) >= y
    BY <1>11, <1>12
  <2>2. \A x \in F : (\A y \in F : x >= y) => x = Fitness(ByScore[1])
    BY <2>1
  <2>3. BestFitness \in F /\ \A y \in F : BestFitness >= y
    BY <1>4, <2>1, Zenon
  <2> QED BY <2>2, <2>3
<1> QED BY <1>10, <1>12, <1>13 DEF N

LEMMA SweepBegins ==
  ASSUME FreshSweep, UNCHANGED setup, algo \in {"grid", "random", "optuna", "genetic"}, fold' \in 1..NFolds
  PROVE  CellsInv' /\ GridInv' /\ DrawInv' /\ BreedInv' /\ ScoreInv' /\ at' = "suggest"
<1>1. /\ at' = "suggest" /\ asked' = 0 /\ gen' = 0 /\ inGen' = 0 /\ scores' = <<>> /\ results' = <<>>
      /\ outcome' = <<>> /\ best' = Worst /\ algo' = algo /\ rankBy' = rankBy
      /\ pop' \in (IF algo = "genetic" THEN [1..PopSize -> Params] ELSE {<<>>})
  BY DEF FreshSweep, setup
<1>2. DOMAIN <<>> = {} /\ Len(<<>>) = 0 /\ <<>> \in Seq(CellRecords)
  OBVIOUS
<1>3. CellsInv'
  BY <1>1, <1>2 DEF CellsInv
<1>4. GridInv' /\ DrawInv'
  BY <1>1, <1>2, SearchConstants DEF GridInv, DrawInv, Swept
<1>5. BreedInv'
  <2>1. 0 \in 0..(Generations - 1) /\ 0 \in 0..PopSize /\ 0 = 0 * PopSize + 0
    BY SearchConstants
  <2> QED BY <1>1, <2>1 DEF BreedInv, Swept
<1>6. ScoreInv'
  <2>1. \A i \in 1..0 : FALSE
    OBVIOUS
  <2>2. best' \in Int
    BY <1>1, SearchConstants
  <2> QED BY <1>1, <1>2, <2>1, <2>2 DEF ScoreInv, Swept
<1> QED BY <1>1, <1>3, <1>4, <1>5, <1>6

LEMMA FoldsKept ==
  ASSUME FoldsInv, UNCHANGED <<fold, folds>>, (at' = "done") = (at = "done")
  PROVE  FoldsInv'
BY DEF FoldsInv

LEMMA GridSteps ==
  ASSUME SearchInv, SuggestGrid
  PROVE  SearchInv'
<1>1. /\ at = "suggest" /\ algo = "grid"
      /\ UNCHANGED <<algo, rankBy, fold, gen, pop, inGen, scores, results, outcome, best, folds>>
  BY DEF SuggestGrid, setup
<1>2. \/ asked < GridSize /\ cell' = GridPoint(asked + 1) /\ at' = "run" /\ asked' = asked + 1
      \/ ~(asked < GridSize) /\ at' = "rank" /\ cell' = cell /\ asked' = asked
  BY DEF SuggestGrid, Suggested
<1>3. Len(results) \in Nat /\ asked = Len(results) /\ results \in Seq(CellRecords)
      /\ (\A p \in DOMAIN outcome : outcome[p] \in Reports) /\ fold \in 1..NFolds
  BY <1>1 DEF SearchInv, CellsInv
<1>4. /\ asked <= GridSize /\ GridSize \in Nat
      /\ \A i \in 1..Len(results) : results[i].params = GridPoint(i)
  BY <1>1, SearchConstants DEF SearchInv, GridInv
<1>5. CellsInv' /\ GridInv'
  <2>1. CASE at' = "run"
    <3>1. asked' = Len(results) + 1 /\ cell' = GridPoint(asked') /\ asked' \in 1..GridSize
      BY <1>2, <1>3, <1>4, <2>1
    <3>2. cell' \in Params
      BY <3>1, ComboTyped
    <3>3. CellsInv'
      BY <1>1, <1>3, <2>1, <3>1, <3>2 DEF CellsInv
    <3>4. GridInv'
      BY <1>1, <1>4, <2>1, <3>1 DEF GridInv, Swept
    <3> QED BY <3>3, <3>4
  <2>2. CASE at' = "rank"
    <3>1. asked' = Len(results) /\ asked' = GridSize
      BY <1>2, <1>3, <1>4, <2>2
    <3>2. CellsInv'
      BY <1>1, <1>3, <2>2, <3>1 DEF CellsInv
    <3>3. GridInv'
      BY <1>1, <1>4, <2>2, <3>1 DEF GridInv, Swept
    <3> QED BY <3>2, <3>3
  <2> QED BY <1>2, <2>1, <2>2
<1>6. DrawInv' /\ BreedInv' /\ ScoreInv'
  BY <1>1 DEF SearchInv, DrawInv, BreedInv, ScoreInv
<1>7. FoldsInv'
  <2>1. (at' = "done") = (at = "done")
    BY <1>1, <1>2
  <2> QED BY <1>1, <2>1, FoldsKept DEF SearchInv
<1> QED BY <1>5, <1>6, <1>7 DEF SearchInv

LEMMA DrawSteps ==
  ASSUME SearchInv, SuggestDrawn
  PROVE  SearchInv'
<1>1. /\ at = "suggest" /\ algo \in {"random", "optuna"}
      /\ UNCHANGED <<algo, rankBy, fold, gen, pop, inGen, scores, results, outcome, best, folds>>
  BY DEF SuggestDrawn, setup
<1>2. \/ asked < NTrials /\ cell' \in Params /\ at' = "run" /\ asked' = asked + 1
      \/ ~(asked < NTrials) /\ at' = "rank" /\ cell' = cell /\ asked' = asked
  BY DEF SuggestDrawn, Suggested, DrawnSoFar
<1>3. Len(results) \in Nat /\ asked = Len(results) /\ results \in Seq(CellRecords)
      /\ (\A p \in DOMAIN outcome : outcome[p] \in Reports) /\ fold \in 1..NFolds
  BY <1>1 DEF SearchInv, CellsInv
<1>4. asked <= NTrials /\ NTrials \in Nat
  BY <1>1, SearchConstants DEF SearchInv, DrawInv
<1>5. CellsInv'
  BY <1>1, <1>2, <1>3 DEF CellsInv
<1>6. DrawInv'
  BY <1>1, <1>2, <1>3, <1>4 DEF DrawInv, Swept
<1>7. GridInv' /\ BreedInv' /\ ScoreInv'
  BY <1>1 DEF SearchInv, GridInv, BreedInv, ScoreInv
<1>8. FoldsInv'
  <2>1. (at' = "done") = (at = "done")
    BY <1>1, <1>2
  <2> QED BY <1>1, <2>1, FoldsKept DEF SearchInv
<1> QED BY <1>5, <1>6, <1>7, <1>8 DEF SearchInv

LEMMA RankSteps ==
  ASSUME SearchInv, Rank
  PROVE  SearchInv'
<1>1. /\ at = "rank" /\ at' \in {"raised", "ranked"}
      /\ UNCHANGED <<algo, rankBy, fold, cell, asked, gen, pop, inGen, scores, results, outcome, best, folds>>
  BY DEF Rank, setup
<1>2. CellsInv'
  BY <1>1 DEF SearchInv, CellsInv
<1>3. GridInv' /\ DrawInv' /\ BreedInv' /\ ScoreInv'
  BY <1>1 DEF SearchInv, GridInv, DrawInv, BreedInv, ScoreInv, Swept
<1>4. FoldsInv'
  <2>1. (at' = "done") = (at = "done")
    BY <1>1
  <2> QED BY <1>1, <2>1, FoldsKept DEF SearchInv
<1> QED BY <1>2, <1>3, <1>4 DEF SearchInv

LEMMA BreedSteps ==
  ASSUME SearchInv, SuggestGenetic
  PROVE  SearchInv'
<1>1. /\ at = "suggest" /\ algo = "genetic" /\ ~Swept
      /\ UNCHANGED <<algo, rankBy, fold, results, outcome, folds>>
  BY DEF SuggestGenetic, setup, Swept
<1>2. /\ Len(results) \in Nat /\ asked = Len(results) /\ results \in Seq(CellRecords)
      /\ (\A p \in DOMAIN outcome : outcome[p] \in Reports) /\ fold \in 1..NFolds
  BY <1>1 DEF SearchInv, CellsInv
<1>3. /\ gen \in 0..(Generations - 1) /\ inGen \in 0..PopSize /\ asked = gen * PopSize + inGen
      /\ pop \in [1..PopSize -> Params]
  BY <1>1 DEF SearchInv, BreedInv
<1>4. /\ \A p \in DOMAIN scores : p \in DOMAIN outcome /\ scores[p] = ScoreBy(rankBy, outcome[p])
      /\ \A i \in 1..inGen : pop[i] \in DOMAIN scores
      /\ gen = 0 => best = Worst
      /\ best \in Int
      /\ gen > 0 /\ Elite > 0 => pop[1] \in DOMAIN outcome /\ best <= ScoreBy(rankBy, outcome[pop[1]])
  BY <1>1 DEF SearchInv, ScoreInv
<1>5. /\ PopSize \in Nat \ {0} /\ Generations \in Nat \ {0} /\ Elite \in 0..(PopSize - 1)
  BY SearchConstants
<1>6. GridInv' /\ DrawInv'
  BY <1>1 DEF GridInv, DrawInv
<1>7. CASE inGen < PopSize
  <2>1. /\ cell' = pop[inGen + 1] /\ at' = "run" /\ asked' = asked + 1 /\ inGen' = inGen + 1
        /\ UNCHANGED <<gen, pop, scores, best>>
    BY <1>7 DEF SuggestGenetic, Suggested
  <2>2. inGen + 1 \in 1..PopSize /\ inGen' - 1 = inGen /\ inGen' >= 1
    BY <1>3, <1>5, <1>7, <2>1
  <2>3. cell' \in Params
    BY <1>3, <2>1, <2>2
  <2>4. CellsInv'
    BY <1>1, <1>2, <2>1, <2>3 DEF CellsInv
  <2>5. BreedInv'
    <3>1. asked' = gen * PopSize + inGen'
      <4>1. gen * PopSize \in Int
        BY <1>3, <1>5
      <4> QED BY <1>3, <2>1, <4>1
    <3>2. inGen' \in 0..PopSize
      BY <2>1, <2>2
    <3> QED BY <1>1, <1>3, <2>1, <3>1, <3>2 DEF BreedInv, Swept
  <2>6. ScoreInv'
    BY <1>1, <1>4, <2>1, <2>2 DEF ScoreInv, Swept
  <2>7. FoldsInv'
    <3>1. (at' = "done") = (at = "done")
      BY <1>1, <2>1
    <3> QED BY <1>1, <3>1, FoldsKept DEF SearchInv
  <2> QED BY <1>6, <2>4, <2>5, <2>6, <2>7 DEF SearchInv
<1>8. CASE ~(inGen < PopSize)
  <2>0. gen' = gen + 1 /\ best' = BestFitness /\ scores' = <<>> /\ inGen = PopSize
    BY <1>3, <1>5, <1>8 DEF SuggestGenetic
  <2>1. asked = (gen + 1) * PopSize
    BY <1>3, <1>5, <2>0
  <2>2. DOMAIN <<>> = {}
    OBVIOUS
  <2>3. CASE MoreToBreed(gen + 1)
    <3>1. /\ pop' \in NextPopulations /\ cell' = pop'[1] /\ at' = "run" /\ asked' = asked + 1 /\ inGen' = 1
      BY <1>8, <2>3 DEF SuggestGenetic, Suggested
    <3>2. /\ ByScore \in [1..PopSize -> 1..PopSize]
          /\ BestFitness = Fitness(ByScore[1])
      BY <1>1, BestIsFirst DEF SearchInv
    <3> DEFINE kept == [i \in 1..Elite |-> pop[ByScore[i]]]
    <3>3. kept \in [1..Elite -> Params]
      BY <1>3, <1>5, <3>2
    <3>4. PICK bred \in [1..(PopSize - Elite) -> Params] : pop' = kept \o bred
      <4>1. PICK bred \in [1..(PopSize - Elite) -> Children] : pop' = kept \o bred
        BY <3>1 DEF NextPopulations
      <4>2. Children \subseteq Params
        BY DEF Children
      <4>3. bred \in [1..(PopSize - Elite) -> Params]
        BY <4>1, <4>2
      <4> QED BY <4>1, <4>3
    <3>5. /\ kept \in Seq(Params) /\ Len(kept) = Elite
          /\ bred \in Seq(Params) /\ Len(bred) = PopSize - Elite
      <4>1. Elite \in Nat /\ PopSize - Elite \in Nat
        BY <1>5
      <4> HIDE DEF kept
      <4>2. \A n \in Nat : \A s \in [1..n -> Params] : s \in Seq(Params) /\ Len(s) = n
        OBVIOUS
      <4> QED BY <3>3, <4>1, <4>2
    <3>6. /\ pop' \in [1..PopSize -> Params]
          /\ Elite > 0 => pop'[1] = kept[1]
      <4> HIDE DEF kept
      <4>1. kept \o bred \in Seq(Params) /\ Len(kept \o bred) = PopSize
        BY <1>5, <3>5
      <4>2. Elite > 0 => (kept \o bred)[1] = kept[1]
        BY <1>5, <3>5
      <4>3. \A s \in Seq(Params) : s \in [1..Len(s) -> Params]
        OBVIOUS
      <4>4. kept \o bred \in [1..PopSize -> Params]
        BY <4>1, <4>3
      <4> QED BY <3>4, <4>2, <4>4
    <3>7. Elite > 0 => pop'[1] = pop[ByScore[1]]
      BY <1>5, <3>6
    <3>8. gen' \in 0..(Generations - 1) /\ gen' > 0
      BY <1>3, <1>5, <2>0, <2>3 DEF MoreToBreed
    <3>9. 1 \in 1..PopSize /\ pop'[1] \in Params
      BY <1>5, <3>6
    <3>10. CellsInv'
      BY <1>1, <1>2, <3>1, <3>9 DEF CellsInv
    <3>11. BreedInv'
      <4>1. asked' = gen' * PopSize + 1 /\ 1 \in 0..PopSize
        BY <1>5, <2>0, <2>1, <3>1
      <4> QED BY <1>1, <3>1, <3>6, <3>8, <4>1 DEF BreedInv, Swept
    <3>12. ScoreInv'
      <4>1. Elite > 0 => pop'[1] \in DOMAIN outcome' /\ best' <= ScoreBy(rankBy, outcome'[pop'[1]])
        <5> SUFFICES ASSUME Elite > 0
                     PROVE  pop'[1] \in DOMAIN outcome /\ best' <= ScoreBy(rankBy, outcome[pop'[1]])
          BY <1>1
        <5>1. ByScore[1] \in 1..PopSize
          BY <3>2, <3>9
        <5>2. pop[ByScore[1]] \in DOMAIN scores
          BY <1>4, <2>0, <5>1
        <5>3. /\ pop[ByScore[1]] \in DOMAIN outcome
              /\ Fitness(ByScore[1]) = ScoreBy(rankBy, outcome[pop[ByScore[1]]])
              /\ Fitness(ByScore[1]) \in Int
          BY <1>1, <5>1, <5>2, FitnessTyped DEF SearchInv
        <5>4. best' = ScoreBy(rankBy, outcome[pop'[1]]) /\ best' \in Int
          BY <2>0, <3>2, <3>7, <5>3
        <5> QED BY <3>7, <5>3, <5>4
      <4>2. \A i \in 1..(inGen' - 1) : FALSE
        BY <3>1
      <4>3. best' \in Int
        <5>1. ByScore[1] \in 1..PopSize
          BY <3>2, <3>9
        <5> QED BY <1>1, <2>0, <3>2, <5>1, FitnessTyped DEF SearchInv
      <4> QED BY <1>1, <2>0, <2>2, <3>1, <3>8, <4>1, <4>2, <4>3 DEF ScoreInv, Swept
    <3>13. FoldsInv'
      <4>1. (at' = "done") = (at = "done")
        BY <1>1, <3>1
      <4> QED BY <1>1, <4>1, FoldsKept DEF SearchInv
    <3> QED BY <1>6, <3>10, <3>11, <3>12, <3>13 DEF SearchInv
  <2>4. CASE ~MoreToBreed(gen + 1)
    <3>1. at' = "rank" /\ inGen' = 0 /\ pop' = <<>> /\ cell' = cell /\ asked' = asked
      BY <1>8, <2>4 DEF SuggestGenetic
    <3>2. gen' = Generations
      BY <1>3, <1>5, <2>0, <2>4 DEF MoreToBreed
    <3>3. CellsInv'
      BY <1>1, <1>2, <3>1 DEF CellsInv
    <3>4. BreedInv'
      <4>1. asked' = Generations * PopSize
        BY <2>0, <2>1, <3>1, <3>2
      <4> QED BY <1>1, <3>1, <3>2, <4>1 DEF BreedInv, Swept
    <3>5. ScoreInv'
      BY <3>1 DEF ScoreInv, Swept
    <3>6. FoldsInv'
      <4>1. (at' = "done") = (at = "done")
        BY <1>1, <3>1
      <4> QED BY <1>1, <4>1, FoldsKept DEF SearchInv
    <3> QED BY <1>6, <3>3, <3>4, <3>5, <3>6 DEF SearchInv
  <2> QED BY <2>3, <2>4
<1> QED BY <1>7, <1>8

LEMMA CellSteps ==
  ASSUME SearchInv, RunCell
  PROVE  SearchInv'
<1>1. /\ at = "run" /\ at' = "suggest"
      /\ UNCHANGED <<algo, rankBy, fold, cell, asked, gen, pop, inGen, best, folds>>
  BY DEF RunCell, setup
<1>2. /\ Len(results) \in Nat /\ asked = Len(results) + 1 /\ results \in Seq(CellRecords)
      /\ (\A p \in DOMAIN outcome : outcome[p] \in Reports) /\ fold \in 1..NFolds /\ cell \in Params
      /\ algo \in {"grid", "random", "optuna", "genetic"}
  BY <1>1 DEF SearchInv, CellsInv
<1>3. PICK r \in Reports :
        /\ cell \in DOMAIN outcome => outcome[cell] = r
        /\ outcome' = Put(outcome, cell, r)
        /\ results' = Append(results, [params |-> cell, report |-> r, metrics |-> Metrics[r]])
        /\ scores' = IF algo = "genetic" THEN Put(scores, cell, ScoreOf(r)) ELSE scores
  <2>1. PICK r \in (IF cell \in DOMAIN outcome THEN {outcome[cell]} ELSE Reports) :
          /\ outcome' = Put(outcome, cell, r)
          /\ results' = Append(results, [params |-> cell, report |-> r, metrics |-> Metrics[r]])
          /\ scores' = IF algo = "genetic" THEN Put(scores, cell, ScoreOf(r)) ELSE scores
    BY DEF RunCell
  <2>2. r \in Reports /\ (cell \in DOMAIN outcome => outcome[cell] = r)
    BY <1>2, <2>1
  <2> QED BY <2>1, <2>2
<1>4. /\ DOMAIN outcome' = DOMAIN outcome \cup {cell} /\ outcome'[cell] = r
      /\ \A p \in DOMAIN outcome : outcome'[p] = outcome[p]
  <2>1. cell \in DOMAIN outcome => outcome[cell] = r
    BY <1>3
  <2>2. /\ DOMAIN Put(outcome, cell, r) = DOMAIN outcome \cup {cell} /\ Put(outcome, cell, r)[cell] = r
        /\ \A p \in DOMAIN outcome : Put(outcome, cell, r)[p] = outcome[p]
    BY <2>1 DEF Put
  <2> QED BY <1>3, <2>2
<1> DEFINE new == [params |-> cell, report |-> r, metrics |-> Metrics[r]]
<1>5. new \in CellRecords /\ new.params = cell
  BY <1>2 DEF CellRecords
<1> HIDE DEF new
<1>6. /\ results' \in Seq(CellRecords) /\ Len(results') = Len(results) + 1
      /\ results'[Len(results) + 1] = new
      /\ \A i \in 1..Len(results) : results'[i] = results[i]
  <2>1. results' = Append(results, new)
    BY <1>3 DEF new
  <2> QED BY <1>2, <1>5, <2>1
<1>7. CellsInv'
  <2>1. \A p \in DOMAIN outcome' : outcome'[p] \in Reports
    BY <1>2, <1>4
  <2> QED BY <1>1, <1>2, <1>6, <2>1 DEF CellsInv
<1>8. GridInv'
  <2> SUFFICES ASSUME algo = "grid" PROVE GridInv'
    BY <1>1 DEF GridInv
  <2>1. /\ asked <= GridSize /\ cell = GridPoint(asked)
        /\ \A i \in 1..Len(results) : results[i].params = GridPoint(i)
    BY <1>1 DEF SearchInv, GridInv
  <2>2. ASSUME NEW i \in 1..(Len(results) + 1) PROVE results'[i].params = GridPoint(i)
    <3>1. CASE i = Len(results) + 1
      BY <1>2, <1>5, <1>6, <2>1, <3>1
    <3>2. CASE i # Len(results) + 1
      <4>1. i \in 1..Len(results)
        BY <1>2, <3>2
      <4> QED BY <1>6, <2>1, <4>1
    <3> QED BY <3>1, <3>2
  <2> QED BY <1>1, <1>6, <2>1, <2>2 DEF GridInv, Swept
<1>9. DrawInv' /\ BreedInv'
  BY <1>1 DEF SearchInv, DrawInv, BreedInv, Swept
<1>10. ScoreInv'
  <2> SUFFICES ASSUME algo = "genetic" PROVE ScoreInv'
    BY <1>1 DEF ScoreInv
  <2>1. /\ \A p \in DOMAIN scores : p \in DOMAIN outcome /\ scores[p] = ScoreBy(rankBy, outcome[p])
        /\ \A i \in 1..(inGen - 1) : pop[i] \in DOMAIN scores
        /\ inGen >= 1 /\ cell = pop[inGen]
        /\ gen = 0 => best = Worst
        /\ best \in Int
        /\ gen > 0 /\ Elite > 0 => pop[1] \in DOMAIN outcome /\ best <= ScoreBy(rankBy, outcome[pop[1]])
    BY <1>1 DEF SearchInv, ScoreInv, Swept
  <2>2. scores' = Put(scores, cell, ScoreBy(rankBy, r))
    BY <1>3, ScoreIs
  <2>3. cell \in DOMAIN scores => scores[cell] = ScoreBy(rankBy, r)
    BY <1>3, <2>1
  <2>4. /\ DOMAIN scores' = DOMAIN scores \cup {cell} /\ scores'[cell] = ScoreBy(rankBy, r)
        /\ \A p \in DOMAIN scores : scores'[p] = scores[p]
    <3> DEFINE y == ScoreBy(rankBy, r)
    <3>1. cell \in DOMAIN scores => scores[cell] = y
      BY <2>3
    <3>2. /\ DOMAIN Put(scores, cell, y) = DOMAIN scores \cup {cell} /\ Put(scores, cell, y)[cell] = y
          /\ \A p \in DOMAIN scores : Put(scores, cell, y)[p] = scores[p]
      <4> HIDE DEF y
      <4> QED BY <3>1 DEF Put
    <3> QED BY <2>2, <3>2
  <2>5. ASSUME NEW p \in DOMAIN scores'
        PROVE  p \in DOMAIN outcome' /\ scores'[p] = ScoreBy(rankBy, outcome'[p])
    <3>1. CASE p = cell
      BY <1>4, <2>4, <3>1
    <3>2. CASE p # cell
      <4>1. p \in DOMAIN scores /\ p \in DOMAIN outcome
        BY <2>1, <2>4, <3>2
      <4> QED BY <1>4, <2>1, <2>4, <4>1
    <3> QED BY <3>1, <3>2
  <2>6. inGen \in Int
    BY <1>1 DEF SearchInv, BreedInv, Swept
  <2>7. ASSUME NEW i \in 1..inGen PROVE pop[i] \in DOMAIN scores'
    <3>1. i = inGen \/ i \in 1..(inGen - 1)
      BY <2>6
    <3> QED BY <2>1, <2>4, <3>1
  <2>8. gen > 0 /\ Elite > 0 => pop[1] \in DOMAIN outcome' /\ best <= ScoreBy(rankBy, outcome'[pop[1]])
    BY <1>4, <2>1
  <2> QED BY <1>1, <2>1, <2>5, <2>7, <2>8 DEF ScoreInv, Swept
<1>11. FoldsInv'
  <2>1. (at' = "done") = (at = "done")
    BY <1>1
  <2> QED BY <1>1, <2>1, FoldsKept DEF SearchInv
<1> QED BY <1>7, <1>8, <1>9, <1>10, <1>11 DEF SearchInv

(* A sweep that is over has run a backtest, and one of them is the best.   *)
LEMMA SweptSome ==
  ASSUME SearchInv, Swept
  PROVE  Len(results) \in Nat \ {0} /\ results \in Seq(CellRecords)
<1>1. /\ results \in Seq(CellRecords) /\ asked = Len(results) /\ Len(results) \in Nat
      /\ algo \in {"grid", "random", "optuna", "genetic"}
  BY DEF SearchInv, CellsInv, Swept
<1>2. Generations * PopSize \in Nat \ {0}
  BY SearchConstants, ProductIs
<1>3. asked # 0
  <2>1. CASE algo = "grid"
    BY <2>1, SearchConstants DEF SearchInv, GridInv
  <2>2. CASE algo \in {"random", "optuna"}
    BY <2>2, SearchConstants DEF SearchInv, DrawInv
  <2>3. CASE algo = "genetic"
    BY <1>2, <2>3 DEF SearchInv, BreedInv
  <2> QED BY <1>1, <2>1, <2>2, <2>3
<1> QED BY <1>1, <1>3

LEMMA RecordIs ==
  ASSUME NEW x \in CellRecords
  PROVE  x.params \in Params /\ x.report \in Reports /\ x.metrics = Metrics[x.report]
BY DEF CellRecords

(* What a cell is ranked by is typed; and the one chosen has the highest.   *)
LEMMA RankTyped ==
  ASSUME SearchInv, Swept, NEW i \in 1..Len(results)
  PROVE  /\ RankKey(i) \in Int
         /\ Known(rankBy) =>
              /\ Coerce(results[i].metrics[rankBy], "max") \in Int
              /\ Coerce(results[i].metrics[rankBy], "min") \in Int
              /\ RankKey(i) = IF Minimize THEN -Coerce(results[i].metrics[rankBy], "min")
                              ELSE Coerce(results[i].metrics[rankBy], "max")
<1>1. Worst \in Int
  BY SearchConstants
<1>2. results[i] \in CellRecords
  BY SweptSome
<1>3. results[i].report \in Reports /\ results[i].metrics = Metrics[results[i].report]
  BY <1>2, RecordIs
<1>4. CASE ~Known(rankBy)
  BY <1>1, <1>4 DEF RankKey
<1>5. CASE Known(rankBy) /\ results[i].metrics[rankBy] = None
  <2>1. RankKey(i) = Worst
    BY <1>5 DEF RankKey
  <2>2. Coerce(results[i].metrics[rankBy], "max") = Worst /\ Coerce(results[i].metrics[rankBy], "min") = -Worst
    BY <1>5 DEF Coerce
  <2>3. -(-Worst) = Worst /\ -Worst \in Int
    BY ONLY <1>1
  <2> QED BY <1>1, <2>1, <2>2, <2>3
<1>6. CASE Known(rankBy) /\ results[i].metrics[rankBy] # None
  <2>1. rankBy \in DOMAIN Metrics[results[i].report]
    BY <1>3, <1>6 DEF Known
  <2>2. results[i].metrics[rankBy] \in Int
    BY <1>3, <1>6, <2>1, MetricTyped
  <2> QED BY <1>6, <2>2 DEF RankKey, Coerce
<1> QED BY <1>4, <1>5, <1>6

LEMMA BestCellIs ==
  ASSUME SearchInv, Swept
  PROVE  /\ BestCell.params \in Params
         /\ \E k \in 1..Len(results) : /\ BestCell = results[k]
                                       /\ \A j \in 1..Len(results) : RankKey(j) <= RankKey(k)
<1> DEFINE N == Len(results)
           h == [i \in 1..N |-> RankKey(i)]
           top == {i \in DOMAIN results : \A j \in DOMAIN results : RankKey(j) <= RankKey(i)}
<1>1. N \in Nat \ {0} /\ DOMAIN results = 1..N /\ \A i \in 1..N : results[i] \in CellRecords
  BY SweptSome
<1>2. ASSUME NEW i \in 1..N PROVE RankKey(i) \in Int
  BY RankTyped
<1>3. top # {}
  <2>1. h \in [1..N -> Int]
    BY <1>2
  <2>2. PICK i \in 1..N : \A j \in 1..N : h[j] <= h[i]
    BY <1>1, <2>1, GreatestExists
  <2>3. \A j \in 1..N : RankKey(j) <= RankKey(i)
    BY <2>2
  <2>4. i \in top
    BY <1>1, <2>3
  <2> QED BY <2>4
<1>4. top \subseteq 1..N
  BY <1>1
<1>5. BestCell = results[Min(top)]
  BY DEF BestCell
<1> HIDE DEF top, N
<1>6. Min(top) \in top
  <2> DEFINE below == {p \in (1..N) \X (1..N) : p[1] > p[2]}
  <2>1. \A i, j \in 1..N : <<i, j>> \in below <=> i > j
    OBVIOUS
  <2> HIDE DEF below
  <2>2. \A i \in 1..N : <<i, i>> \notin below
    BY <2>1
  <2>3. \A i, j, k \in 1..N : <<i, j>> \in below /\ <<j, k>> \in below => <<i, k>> \in below
    BY <2>1
  <2>4. Tops(top, below) # {}
    BY <1>1, <1>3, <1>4, <2>2, <2>3, TopExists
  <2>5. PICK i \in top : \A j \in top : <<i, j>> \notin below
    BY <2>4 DEF Tops
  <2>6. \A j \in top : i <= j
    <3> SUFFICES ASSUME NEW j \in top PROVE i <= j
      OBVIOUS
    <3>1. i \in 1..N /\ j \in 1..N /\ <<i, j>> \notin below
      BY <1>4, <2>5
    <3>2. ~(i > j)
      BY <2>1, <3>1
    <3> QED BY <1>1, <3>1, <3>2
  <2> QED BY <2>6 DEF Min
<1>7. results[Min(top)] \in CellRecords
  BY <1>1, <1>4, <1>6
<1>8. Min(top) \in 1..N /\ \A j \in 1..N : RankKey(j) <= RankKey(Min(top))
  BY <1>1, <1>4, <1>6 DEF top
<1> QED BY <1>5, <1>7, <1>8, RecordIs DEF N

LEMMA EvaluateSteps ==
  ASSUME SearchInv, Evaluate
  PROVE  SearchInv'
<1>1. /\ at = "ranked" /\ UNCHANGED setup /\ folds' = Append(folds, [index |-> fold, params |-> Chosen.params])
  BY DEF Evaluate
<1>2. /\ fold \in 1..NFolds /\ NFolds \in Nat /\ Swept /\ algo \in {"grid", "random", "optuna", "genetic"}
      /\ folds \in Seq(FoldRecords) /\ (\A i \in 1..Len(folds) : folds[i].index = i) /\ Len(folds) = fold - 1
  BY <1>1, SearchConstants DEF SearchInv, CellsInv, FoldsInv, Swept
<1>3. Chosen.params \in Params
  BY <1>2, BestCellIs DEF Chosen
<1> DEFINE new == [index |-> fold, params |-> Chosen.params]
<1>4. new \in FoldRecords /\ new.index = fold
  BY <1>2, <1>3 DEF FoldRecords
<1>5. folds' = Append(folds, new)
  BY <1>1
<1> HIDE DEF new
<1>6. /\ folds' \in Seq(FoldRecords) /\ Len(folds') = fold
      /\ \A i \in 1..Len(folds') : folds'[i].index = i
  <2>1. /\ folds' \in Seq(FoldRecords) /\ Len(folds') = Len(folds) + 1 /\ Len(folds) \in Nat
        /\ folds'[Len(folds) + 1] = new
        /\ \A i \in 1..Len(folds) : folds'[i] = folds[i]
    BY <1>2, <1>4, <1>5
  <2>2. Len(folds') = fold
    BY <1>2, <2>1
  <2>3. ASSUME NEW i \in 1..Len(folds') PROVE folds'[i].index = i
    <3>1. i = Len(folds) + 1 \/ i \in 1..Len(folds)
      BY <2>1
    <3>2. Len(folds) + 1 = fold
      BY <1>2, <2>1
    <3>3. CASE i = Len(folds) + 1
      BY <1>4, <2>1, <3>2, <3>3
    <3>4. CASE i \in 1..Len(folds)
      BY <1>2, <2>1, <3>4
    <3> QED BY <3>1, <3>3, <3>4
  <2> QED BY <2>1, <2>2, <2>3
<1>7. CASE fold < NFolds
  <2>1. fold' = fold + 1 /\ FreshSweep
    BY <1>7 DEF Evaluate
  <2>2. fold' \in 1..NFolds /\ fold' - 1 = fold
    BY <1>2, <1>7, <2>1
  <2>3. CellsInv' /\ GridInv' /\ DrawInv' /\ BreedInv' /\ ScoreInv' /\ at' = "suggest"
    BY <1>1, <1>2, <2>1, <2>2, SweepBegins
  <2>4. FoldsInv'
    BY <1>6, <2>2, <2>3 DEF FoldsInv
  <2> QED BY <2>3, <2>4 DEF SearchInv
<1>8. CASE ~(fold < NFolds)
  <2>1. /\ at' = "done" /\ UNCHANGED <<algo, rankBy>>
        /\ UNCHANGED <<fold, cell, asked, gen, pop, inGen, scores, results, outcome, best>>
    BY <1>1, <1>8 DEF Evaluate, setup
  <2>2. CellsInv'
    BY <1>1, <2>1 DEF SearchInv, CellsInv
  <2>3. GridInv' /\ DrawInv' /\ BreedInv' /\ ScoreInv'
    BY <1>1, <2>1 DEF SearchInv, GridInv, DrawInv, BreedInv, ScoreInv, Swept
  <2>4. FoldsInv'
    BY <1>6, <2>1 DEF FoldsInv
  <2> QED BY <2>2, <2>3, <2>4 DEF SearchInv
<1> QED BY <1>7, <1>8

LEMMA SearchStarts ==
  ASSUME SearchInit
  PROVE  SearchInv
<1>1. /\ algo \in {"grid", "random", "optuna", "genetic"}
      /\ at = "suggest" /\ fold = 1 /\ asked = 0 /\ gen = 0 /\ inGen = 0 /\ scores = <<>>
      /\ pop \in (IF algo = "genetic" THEN [1..PopSize -> Params] ELSE {<<>>})
      /\ results = <<>> /\ outcome = <<>> /\ best = Worst /\ folds = <<>>
  BY SearchConstants DEF SearchInit
<1>2. DOMAIN <<>> = {} /\ Len(<<>>) = 0 /\ <<>> \in Seq(CellRecords) /\ <<>> \in Seq(FoldRecords)
  OBVIOUS
<1>3. CellsInv
  BY <1>1, <1>2, SearchConstants DEF CellsInv
<1>4. GridInv /\ DrawInv
  BY <1>1, <1>2, SearchConstants DEF GridInv, DrawInv, Swept
<1>5. BreedInv
  <2>1. 0 \in 0..(Generations - 1) /\ 0 \in 0..PopSize /\ 0 = 0 * PopSize + 0
    BY SearchConstants
  <2> QED BY <1>1, <2>1 DEF BreedInv, Swept
<1>6. ScoreInv
  <2>1. \A i \in 1..0 : FALSE
    OBVIOUS
  <2>2. best \in Int
    BY <1>1, SearchConstants
  <2> QED BY <1>1, <1>2, <2>1, <2>2 DEF ScoreInv, Swept
<1>7. FoldsInv
  BY <1>1, <1>2 DEF FoldsInv
<1> QED BY <1>3, <1>4, <1>5, <1>6, <1>7 DEF SearchInv

LEMMA SearchHolds == Spec => []SearchInv
<1>1. Init => SearchInv
  BY SearchStarts DEF Init
<1>2. SearchInv /\ [Next]_vars => SearchInv'
  <2>1. ASSUME SearchInv, SearchNext PROVE SearchInv'
    BY <2>1, GridSteps, DrawSteps, BreedSteps, CellSteps, RankSteps, EvaluateSteps DEF SearchNext
  <2>2. ASSUME SearchInv, UNCHANGED searchVars PROVE SearchInv'
    <3>1. CellsInv' /\ FoldsInv'
      BY <2>2 DEF searchVars, SearchInv, CellsInv, FoldsInv
    <3>2. GridInv' /\ DrawInv' /\ BreedInv' /\ ScoreInv'
      BY <2>2 DEF searchVars, SearchInv, GridInv, DrawInv, BreedInv, ScoreInv, Swept
    <3> QED BY <3>1, <3>2 DEF SearchInv
  <2>3. [Next]_vars => SearchNext \/ UNCHANGED searchVars
    BY DEF Next, vars, Is, SameBut
  <2> QED BY <2>1, <2>2, <2>3
<1> QED BY <1>1, <1>2, PTL DEF Spec

LEMMA SearchTyped ==
  ASSUME SearchInv
  PROVE  SearchTypeOK
<1>1. /\ at \in {"suggest", "run", "rank", "raised", "ranked", "done"} /\ fold \in 1..NFolds
      /\ algo \in {"grid", "random", "optuna", "genetic"}
  BY DEF SearchInv, CellsInv
<1>2. Len(results) <= asked /\ results \in Seq(CellRecords)
  BY DEF SearchInv, CellsInv
<1>3. ASSUME NEW i \in DOMAIN results
      PROVE  results[i].params \in Params /\ results[i].report \in Reports
  <2>1. results[i] \in CellRecords
    BY <1>2
  <2> QED BY <2>1, RecordIs
<1>4. pop \in [1..PopSize -> Params] \cup {<<>>} /\ gen \in 0..Generations /\ inGen \in 0..PopSize
  <2>1. Generations \in Nat \ {0} /\ PopSize \in Nat
    BY SearchConstants
  <2>2. CASE algo # "genetic"
    BY <2>1, <2>2 DEF SearchInv, BreedInv
  <2>3. CASE algo = "genetic" /\ Swept
    BY <2>1, <2>3 DEF SearchInv, BreedInv
  <2>4. CASE algo = "genetic" /\ ~Swept
    <3>1. gen \in 0..(Generations - 1) /\ inGen \in 0..PopSize /\ pop \in [1..PopSize -> Params]
      BY <2>4 DEF SearchInv, BreedInv
    <3> QED BY <2>1, <3>1
  <2> QED BY <2>2, <2>3, <2>4
<1>5. ASSUME NEW i \in DOMAIN folds PROVE folds[i].index = i /\ folds[i].params \in Params
  <2>1. folds \in Seq(FoldRecords) /\ \A j \in 1..Len(folds) : folds[j].index = j
    BY DEF SearchInv, FoldsInv
  <2>2. i \in 1..Len(folds) /\ folds[i] \in FoldRecords
    BY <2>1
  <2> QED BY <2>1, <2>2 DEF FoldRecords
<1> QED BY <1>1, <1>2, <1>3, <1>4, <1>5 DEF SearchTypeOK

LEMMA SearchInvSound ==
  ASSUME SearchInv
  PROVE  SearchSound
<1>1. SearchTypeOK
  BY SearchTyped
<1>2. RunsAnnounced
  <2> SUFFICES ASSUME at \in {"rank", "ranked", "raised"} PROVE RunsAnnounced
    BY DEF RunsAnnounced
  <2>1. Swept /\ asked = Len(results) /\ algo \in {"grid", "random", "optuna", "genetic"}
    BY DEF Swept, SearchInv, CellsInv
  <2>2. CASE algo = "grid"
    BY <2>1, <2>2 DEF RunsAnnounced, SearchInv, GridInv
  <2>3. CASE algo = "genetic"
    <3>1. Generations * PopSize = PopSize * Generations
      BY SearchConstants
    <3> QED BY <2>1, <2>3, <3>1 DEF RunsAnnounced, SearchInv, BreedInv
  <2>4. CASE algo \in {"random", "optuna"}
    BY <2>1, <2>4 DEF RunsAnnounced, SearchInv, DrawInv
  <2> QED BY <2>1, <2>2, <2>3, <2>4
<1>3. EliteSurvives
  <2> SUFFICES ASSUME algo = "genetic", at = "suggest", inGen = PopSize, Elite > 0
               PROVE  BestFitness >= best
    BY DEF EliteSurvives
  <2>0. ~Swept /\ CellsInv /\ ScoreInv /\ gen \in 0..(Generations - 1) /\ 1 \in 1..PopSize
    BY SearchConstants DEF Swept, SearchInv, BreedInv
  <2>1. /\ Fitness(1) <= BestFitness /\ ByScore \in [1..PopSize -> 1..PopSize]
        /\ BestFitness = Fitness(ByScore[1])
    BY <2>0, BestIsFirst
  <2>2. Fitness(1) \in Int /\ Worst <= Fitness(1) /\ BestFitness \in Int /\ Worst \in Int
    BY <2>0, <2>1, FitnessTyped, SearchConstants
  <2>3. CASE gen = 0
    <3>1. best = Worst
      BY <2>0, <2>3 DEF ScoreInv
    <3> QED BY <2>1, <2>2, <3>1
  <2>4. CASE gen # 0
    <3>1. gen > 0
      BY <2>0, <2>4, SearchConstants
    <3>2. best <= ScoreBy(rankBy, outcome[pop[1]]) /\ pop[1] \in DOMAIN scores
      BY <2>0, <3>1 DEF ScoreInv
    <3>3. Fitness(1) = ScoreBy(rankBy, outcome[pop[1]])
      BY <2>0, <3>2, FitnessTyped
    <3>4. best \in Int
      BY <2>0, <3>1 DEF ScoreInv
    <3> QED BY <2>1, <2>2, <3>2, <3>3, <3>4
  <2> QED BY <2>3, <2>4
<1>4. GridExhausted
  <2> SUFFICES ASSUME algo = "grid", at \in {"rank", "ranked", "raised"}, NEW p \in Params
               PROVE  Cardinality({i \in DOMAIN results : results[i].params = p}) =
                      Cardinality({c \in Combos : \A n \in Names : Grid[n][c[n]] = p[n]})
    BY DEF GridExhausted
  <2>1. /\ Swept /\ asked = Len(results) /\ asked = GridSize /\ results \in Seq(CellRecords)
        /\ \A i \in 1..Len(results) : results[i].params = GridPoint(i)
    BY DEF Swept, SearchInv, CellsInv, GridInv
  <2>2. DOMAIN results = 1..GridSize
    <3>1. DOMAIN results = 1..Len(results)
      <4>1. \A s \in Seq(CellRecords) : DOMAIN s = 1..Len(s)
        OBVIOUS
      <4> QED BY <2>1, <4>1
    <3>2. Len(results) = GridSize
      BY <2>1
    <3> QED BY <3>1, <3>2
  <2>3. {i \in DOMAIN results : results[i].params = p} = {i \in 1..GridSize : GridPoint(i) = p}
    BY <2>1, <2>2
  <2> QED BY <2>3, GridCovers
<1>5. NoLookahead
  <2> SUFFICES ASSUME NEW s \in Schemes, NEW i \in DOMAIN folds, NEW j \in DOMAIN folds
               PROVE  /\ FoldOf(folds[i].index, s).inSample[1] < FoldOf(folds[i].index, s).inSample[2]
                      /\ i <= j => FoldOf(folds[i].index, s).inSample[2] <= FoldOf(folds[j].index, s).outOfSample[1]
                      /\ i < j => FoldOf(folds[i].index, s).outOfSample[2] <= FoldOf(folds[j].index, s).outOfSample[1]
    BY DEF NoLookahead
  <2>1. folds \in Seq(FoldRecords)
    BY DEF SearchInv, FoldsInv
  <2>2. i \in Nat \ {0} /\ j \in Nat \ {0} /\ folds[i].index = i /\ folds[j].index = j
    BY <1>1, <2>1 DEF SearchTypeOK
  <2> QED BY <2>2, FoldsApart
<1>6. FrontierSound
  <2> SUFFICES ASSUME at \in {"ranked", "raised"} PROVE FrontierSound
    BY DEF FrontierSound
  <2> DEFINE N == Len(results)
             cells == [i \in DOMAIN results |-> results[i].metrics]
  <2>1. N \in Nat \ {0} /\ results \in Seq(CellRecords) /\ DOMAIN results = 1..N
    <3>1. Swept
      BY DEF Swept
    <3> QED BY <3>1, SweptSome
  <2>2. cells \in [1..N -> Measured] /\ DOMAIN cells = 1..N
    <3>1. ASSUME NEW i \in 1..N PROVE results[i].metrics \in Measured
      <4>1. results[i] \in CellRecords
        BY <2>1
      <4> QED BY <4>1, RecordIs DEF Measured
    <3> QED BY <2>1, <3>1
  <2> HIDE DEF N, cells
  <2>3. /\ \A obj \in Objectives : \E i \in Frontier(cells, Objectives) :
              \A j \in 1..N : ~Better(cells[j], cells[i], obj)
        /\ \A j \in (1..N) \ Frontier(cells, Objectives) : \E i \in Frontier(cells, Objectives) :
              Dominates(cells[i], cells[j], Objectives)
    BY <2>1, <2>2, FrontierReached
  <2> QED BY <2>2, <2>3 DEF FrontierSound, cells
<1>7. BestUnbeaten
  <2> SUFFICES ASSUME at = "ranked", Known(rankBy), NEW i \in DOMAIN results
               PROVE  ~Better(results[i].metrics, BestCell.metrics, Ranking)
    BY DEF BestUnbeaten
  <2>1. Swept
    BY DEF Swept
  <2>2. i \in 1..Len(results)
    <3>1. results \in Seq(CellRecords)
      BY <2>1, SweptSome
    <3> QED BY <3>1
  <2>3. PICK k \in 1..Len(results) : BestCell = results[k] /\ \A j \in 1..Len(results) : RankKey(j) <= RankKey(k)
    BY <2>1, BestCellIs
  <2>4. RankKey(i) <= RankKey(k) /\ BestCell.metrics = results[k].metrics
    BY <2>2, <2>3
  <2> DEFINE high(j) == Coerce(results[j].metrics[rankBy], "max")
             low(j) == Coerce(results[j].metrics[rankBy], "min")
  <2>5. /\ high(i) \in Int /\ low(i) \in Int /\ RankKey(i) = IF Minimize THEN -low(i) ELSE high(i)
        /\ high(k) \in Int /\ low(k) \in Int /\ RankKey(k) = IF Minimize THEN -low(k) ELSE high(k)
    BY <2>1, <2>2, RankTyped
  <2>6. Better(results[i].metrics, BestCell.metrics, Ranking) <=>
          IF Minimize THEN low(i) < low(k) ELSE high(i) > high(k)
    BY <2>4 DEF Better, Ranking
  <2> HIDE DEF high, low
  <2>7. CASE Minimize
    <3>1. -low(i) <= -low(k) => ~(low(i) < low(k))
      BY ONLY <2>5
    <3> QED BY <2>4, <2>5, <2>6, <2>7, <3>1
  <2>8. CASE ~Minimize
    <3>1. high(i) <= high(k) => ~(high(i) > high(k))
      BY ONLY <2>5
    <3> QED BY <2>4, <2>5, <2>6, <2>8, <3>1
  <2> QED BY <2>7, <2>8
<1> QED BY <1>1, <1>2, <1>3, <1>4, <1>5, <1>6, <1>7 DEF SearchSound

(* A grid sweep runs every combination once; a sweep runs what it          *)
(* announced; the elite of a genetic search keeps its score                *)
(* (backtest/search/); no other cell beats the one a fold goes on with in  *)
(* the metric it is ranked by (backtest/sweep.py:62-75); the frontier has a *)
(* best cell of every objective and what is not on it is dominated by it   *)
(* (backtest/pareto.py); and no fold is evaluated on data it or an earlier *)
(* one was fitted on (backtest/walk_forward.py:87-131), for any grid,      *)
(* reports and folds.                                                      *)
THEOREM SearchConcludes == Spec => []SearchSound
<1>1. SearchInv => SearchSound
  BY SearchInvSound
<1> QED BY <1>1, SearchHolds, PTL
===============================================================================
