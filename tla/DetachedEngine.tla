---------------------------- MODULE DetachedEngine ----------------------------
(***************************************************************************)
(* detach.py with the commands run, run --detach and stop of the CLI: the  *)
(* processes of the engine, the pid file they share and the port of the    *)
(* web UI, which is how a stop command asks an engine to end.              *)
(*                                                                         *)
(* A command is a process: another command, an engine or a signal may come *)
(* between any two of its system calls.  An engine is the start and stop   *)
(* sequence of run_until_signal() and TradingEngine.  Pids are used again. *)
(***************************************************************************)
EXTENDS Naturals, FiniteSets

CONSTANTS
  Pids,          \* bound: processes ever created
  Commands,      \* bound: commands ever given
  Components,    \* number of components registered with the engine
  NoPid,         \* no pid file, or a command that has no pid yet
  Broken         \* what a pid file holds while it is written

ASSUME DetachedAssumption ==
  Components \in Nat /\ Pids \subseteq Nat /\ {NoPid, Broken} \cap Pids = {}

VARIABLES
  engine,        \* engine[p]: what became of process p
  up,            \* up[p]: components started and not yet stopped
  detached,      \* the processes spawned by run --detach
  file,          \* engine.pid: a pid, none, or Broken while it is written
  cmd,           \* cmd[c]: where a command is and the pid it works on
  overlapped,    \* history: two commands were under way at once
  abandoned,     \* history: a command was killed under way
  foreign,       \* history: there was an engine in the foreground
  reused,        \* history: a pid went to an unrelated process
  wronged        \* history: a stop hit a process it was not meant for

engineVars == <<engine, up, detached, file, cmd, overlapped, abandoned, foreign, reused, wronged>>
histories == <<overlapped, abandoned, foreign, reused>>

Running == {"starting", "serving", "stopping"}
Ended == {"idle", "done", "refused", "failed", "dead"}

EngineTypeOK ==
  /\ engine \in [Pids -> Running \cup {"unborn", "gone", "other"}]
  /\ up \in [Pids -> 0..Components]
  /\ detached \subseteq Pids
  /\ file \in Pids \cup {NoPid, Broken}
  /\ \A c \in Commands : cmd[c].pid \in Pids \cup {NoPid}

EngineInit ==
  /\ engine = [p \in Pids |-> "unborn"]
  /\ up = [p \in Pids |-> 0]
  /\ detached = {}
  /\ file = NoPid
  /\ cmd = [c \in Commands |-> [at |-> "idle", pid |-> NoPid]]
  /\ overlapped = FALSE /\ abandoned = FALSE /\ foreign = FALSE /\ reused = FALSE /\ wronged = FALSE
-----------------------------------------------------------------------------
(* (mutant) The web UI is asked instead.                                   *)
AliveByHealth(p) == p \in Pids /\ engine[p] = "serving"

(* process_is_alive(): whatever process has the pid now.                   *)
Alive(p) == p \in Pids /\ engine[p] \in Running \cup {"other"}

UnderWay(c) == cmd[c].at \notin Ended

Goes(c, at, pid) == cmd' = [cmd EXCEPT ![c] = [at |-> at, pid |-> pid]]

Begins(c) ==
  /\ cmd[c].at = "idle"
  /\ overlapped' = (overlapped \/ \E d \in Commands : UnderWay(d))
  /\ UNCHANGED <<engine, up, detached, file, abandoned, foreign, reused, wronged>>

Spawned(p) ==
  /\ engine[p] = "unborn" /\ \A q \in Pids : engine[q] = "unborn" => p <= q
  /\ engine' = [engine EXCEPT ![p] = "starting"]

(* detach_spawn(): a broken pid file reads as none, ...                    *)
RunDetach(c) ==
  /\ Begins(c)
  /\ Goes(c, IF Alive(file) THEN "refused" ELSE "cleared", NoPid)

(* ... the engine is spawned, ...                                          *)
Popen(c) ==
  /\ cmd[c].at = "cleared"
  /\ \E p \in Pids : Spawned(p) /\ detached' = detached \cup {p} /\ Goes(c, "spawned", p)
  /\ UNCHANGED <<up, file, histories, wronged>>

(* ... and its pid written over the file in place.                         *)
OpenPidfile(c) ==
  /\ cmd[c].at = "spawned"
  /\ file' = Broken
  /\ Goes(c, "writing", cmd[c].pid)
  /\ UNCHANGED <<engine, up, detached, histories, wronged>>

WritePidfile(c) ==
  /\ cmd[c].at = "writing"
  /\ file' = cmd[c].pid
  /\ Goes(c, "done", cmd[c].pid)
  /\ UNCHANGED <<engine, up, detached, histories, wronged>>

(* detach_stop(): no pid file is an error, ...                             *)
Stop(c) ==
  /\ Begins(c)
  /\ Goes(c, IF file \notin Pids THEN "failed" ELSE IF Alive(file) THEN "asking" ELSE "unlinking",
          IF file \in Pids THEN file ELSE NoPid)

(* What SIGINT and SIGTERM do to a process: the web server ends the        *)
(* engine, or may let SIGTERM kill it; before it serves, both kill.        *)
Interrupted(p) ==
  engine' \in {[engine EXCEPT ![p] = s] :
    s \in CASE engine[p] = "serving" -> {"stopping"}
            [] engine[p] \in {"starting", "stopping"} -> {"gone", engine[p]}
            [] OTHER -> {engine[p]}}

Terminated(p) ==
  engine' \in {[engine EXCEPT ![p] = s] :
    s \in CASE engine[p] = "serving" -> {"stopping", "gone"}
            [] engine[p] = "stopping" -> {"stopping", "gone"}
            [] OTHER -> {"gone"}}

(* ... whoever serves at the URL is asked to shut down, or nobody is, ...  *)
PostShutdown(c) ==
  /\ cmd[c].at = "asking"
  /\ \/ \E p \in Pids : /\ engine[p] = "serving"
                        /\ Interrupted(p)
                        /\ wronged' = (wronged \/ p # cmd[c].pid)
     \/ UNCHANGED <<engine, wronged>>
  /\ Goes(c, "waiting", cmd[c].pid)
  /\ UNCHANGED <<up, detached, file, histories>>

(* ... the pid is polled until it is gone, ...                             *)
Polled(c) ==
  /\ cmd[c].at \in {"waiting", "grace"} /\ ~Alive(cmd[c].pid)
  /\ Goes(c, "unlinking", cmd[c].pid)
  /\ UNCHANGED <<engine, up, detached, file, histories, wronged>>

(* ... it gets a signal when that takes too long, ...                      *)
SignalPid(c) ==
  /\ cmd[c].at = "waiting" /\ Alive(cmd[c].pid)
  /\ Terminated(cmd[c].pid)
  /\ wronged' = (wronged \/ engine[cmd[c].pid] = "other")
  /\ Goes(c, "grace", cmd[c].pid)
  /\ UNCHANGED <<up, detached, file, histories>>

(* ... after which the command gives up.                                   *)
GiveUp(c) ==
  /\ cmd[c].at = "grace" /\ Alive(cmd[c].pid)
  /\ Goes(c, "failed", cmd[c].pid)
  /\ UNCHANGED <<engine, up, detached, file, histories, wronged>>

(* remove_pidfile(): whatever the file says by now.                        *)
Unlink(c) ==
  /\ cmd[c].at = "unlinking"
  /\ file' = NoPid
  /\ Goes(c, "done", cmd[c].pid)
  /\ UNCHANGED <<engine, up, detached, histories, wronged>>

(* The terminal is closed on a command.                                    *)
Abandon(c) ==
  /\ UnderWay(c)
  /\ Goes(c, "dead", cmd[c].pid)
  /\ abandoned' = TRUE
  /\ UNCHANGED <<engine, up, detached, file, overlapped, foreign, reused, wronged>>
-----------------------------------------------------------------------------
(* run without --detach, in web mode.                                      *)
RunForeground ==
  /\ \E p \in Pids : Spawned(p)
  /\ foreign' = TRUE
  /\ UNCHANGED <<up, detached, file, cmd, overlapped, abandoned, reused, wronged>>

CtrlC(p) ==
  /\ p \notin detached /\ engine[p] \in Running
  /\ Interrupted(p)
  /\ UNCHANGED <<up, detached, file, cmd, histories, wronged>>

(* TradingEngine.start(): component by component; one that fails ends the  *)
(* process and those before it are not stopped.                            *)
StartComponent(p) ==
  /\ engine[p] = "starting" /\ up[p] < Components
  /\ \/ up' = [up EXCEPT ![p] = @ + 1] /\ UNCHANGED engine
     \/ engine' = [engine EXCEPT ![p] = "gone"] /\ UNCHANGED up
  /\ UNCHANGED <<detached, file, cmd, histories, wronged>>

(* The web server takes the port, or exits when another engine has it.     *)
Serve(p) ==
  /\ engine[p] = "starting" /\ up[p] = Components
  /\ engine' = [engine EXCEPT ![p] = IF \E q \in Pids : engine[q] = "serving" THEN "gone" ELSE "serving"]
  /\ UNCHANGED <<up, detached, file, cmd, histories, wronged>>

(* TradingEngine.stop(): in reverse; an error of a component is logged.    *)
StopComponent(p) ==
  /\ engine[p] = "stopping" /\ up[p] > 0
  /\ up' = [up EXCEPT ![p] = @ - 1]
  /\ UNCHANGED <<engine, detached, file, cmd, histories, wronged>>

Leave(p) ==
  /\ engine[p] = "stopping" /\ up[p] = 0
  /\ engine' = [engine EXCEPT ![p] = "gone"]
  /\ UNCHANGED <<up, detached, file, cmd, histories, wronged>>

(* An engine is killed or crashes; its pid is given to something else.     *)
Crash(p) ==
  /\ engine[p] \in Running
  /\ engine' = [engine EXCEPT ![p] = "gone"]
  /\ UNCHANGED <<up, detached, file, cmd, histories, wronged>>

Reuse(p) ==
  /\ engine[p] = "gone"
  /\ engine' = [engine EXCEPT ![p] = "other"]
  /\ reused' = TRUE
  /\ UNCHANGED <<up, detached, file, cmd, overlapped, abandoned, foreign, wronged>>

Command(c) ==
  \/ RunDetach(c) \/ Popen(c) \/ OpenPidfile(c) \/ WritePidfile(c)
  \/ Stop(c) \/ PostShutdown(c) \/ Polled(c) \/ SignalPid(c) \/ GiveUp(c) \/ Unlink(c)
  \/ Abandon(c)

EngineNext ==
  \/ \E c \in Commands : Command(c)
  \/ RunForeground
  \/ \E p \in Pids : \/ CtrlC(p) \/ StartComponent(p) \/ Serve(p) \/ StopComponent(p)
                     \/ Leave(p) \/ Crash(p) \/ Reuse(p)
-----------------------------------------------------------------------------
(* When commands are given one after the other and none is killed, a       *)
(* detached engine that runs is the one the pid file names, hence the only *)
(* one: status and stop reach it and the next run --detach is refused.     *)
Registered ==
  ~overlapped /\ ~abandoned /\ (\A c \in Commands : ~UnderWay(c)) =>
    \A p \in detached : engine[p] \in Running => file = p

(* Then a stop ends no process but the one the pid file names, unless an   *)
(* engine in the foreground has the port or the pid was used again.        *)
StopsItsOwn == ~overlapped /\ ~abandoned /\ ~foreign /\ ~reused => ~wronged

OneEngine == EngineTypeOK /\ Registered /\ StopsItsOwn
=============================================================================
