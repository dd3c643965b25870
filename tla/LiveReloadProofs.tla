--------------------------- MODULE LiveReloadProofs ---------------------------
(***************************************************************************)
(* Theorems about LiveReload, for any set of strategies, accounts and      *)
(* configurations, and any number of edits and dropped connections.        *)
(***************************************************************************)
EXTENDS LiveReload, FiniteSetTheorems, TLAPS

(* What is left to call is wanted by the two configurations.               *)
TodoInv == reload # None => reload.todo \subseteq Wanted(full, reload.new)

(* What an await w of a callback implies for the runner r of its strategy. *)
WaitOK(w, r) ==
  /\ w.at # "stopping" => w.entry \in Entry
  /\ w.at \in {"starting", "updating"} => w.entry.params \notin Invalid
  /\ w.at = "stopping" => w.call.op \in {"remove", "replace"} /\ r = None
  /\ w.at = "starting" => w.call.op \in {"add", "replace", "enable"} /\ (~flawed => r = None)
  /\ w.at = "updating" => w.call.op = "params" /\ r # None
  /\ w.at = "subscribing" => w.call.op # "remove"

WaitInv == waiting # None => WaitOK(waiting, runner[waiting.call.sid])

(* The runner of add() is registered before the broker replies.            *)
AddUnderway(s) ==
  waiting # None /\ waiting.call = Call("add", s) /\ waiting.at = "subscribing"

(* A strategy that is not in force has no runner; within a reload, the     *)
(* calls that are left account for every difference.                       *)
InForceInv ==
  ~flawed => \A s \in Strategies :
    /\ (reload = None /\ full[s] = None) => runner[s] = None
    /\ reload # None =>
         /\ (Call("add", s) \in reload.todo /\ ~AddUnderway(s)) => runner[s] = None
         /\ (reload.new[s] = None /\ runner[s] # None) => Call("remove", s) \in reload.todo
         /\ (~reload.applied /\ ~reload.failed /\ full[s] = None /\ runner[s] # None) => Call("add", s) \in reload.todo

IInv == TypeOK /\ TodoInv /\ WaitInv /\ InForceInv /\ RunsOnce

-----------------------------------------------------------------------------
(* What the steps of a reload do to its record.                            *)
LEMMA ReloadAfter ==
  ASSUME reload \in Reload, NEW c \in reload.todo, c \in CallRec,
         Returns(c) \/ Raises(c)
  PROVE  /\ reload' \in Reload
         /\ reload'.todo = reload.todo \ {c}
         /\ reload'.new = reload.new
         /\ reload'.applied \/ reload'.failed
BY DEF Returns, Raises, Reload, CallRec

LEMMA WaitAfter ==
  ASSUME NEW c \in CallRec, NEW e \in Entry \cup {None},
         NEW at \in {"stopping", "updating", "starting", "subscribing"},
         Await(c, e, at)
  PROVE  /\ waiting' \in Wait
         /\ waiting'.call = c /\ waiting'.entry = e /\ waiting'.at = at
         /\ reload' = reload
BY DEF Await, Wait

(* A call that is left has an entry to work from.                          *)
LEMMA CallHasEntry ==
  ASSUME TypeOK, TodoInv, reload # None, NEW c \in reload.todo
  PROVE  /\ c \in CallRec
         /\ c.op # "remove" => reload.new[c.sid] \in Entry
         /\ c.op \notin {"add"} => full[c.sid] \in Entry
         /\ c.op = "add" => full[c.sid] = None
         /\ c.op = "remove" => reload.new[c.sid] = None
<1>1. c \in Wanted(full, reload.new) /\ c.sid \in Strategies
  BY DEF TypeOK, TodoInv, Reload, CallRec, Wanted
<1>2. full[c.sid] \in Entry \cup {None} /\ reload.new[c.sid] \in Entry \cup {None}
  BY <1>1 DEF TypeOK, Reload, Config
<1> QED BY <1>1, <1>2 DEF Wanted, Wants, CallRec, OpNames

-----------------------------------------------------------------------------
LEMMA InitInv == Init => IInv
<1> SUFFICES ASSUME Init PROVE IInv
  OBVIOUS
<1> USE LiveReloadAssumption
<1>1. full \in Config
  BY DEF Init
<1>2. runner \in [Strategies -> Runner \cup {None}]
  BY <1>1 DEF Init, Config, Entry, Runner
<1>3. accounts \in [Strategies -> Accounts \cup {None}]
  BY <1>1 DEF Init, Config, Entry
<1>4. ticking \in [Pool -> SUBSET Feeds]
  BY DEF Init
<1>5. aggs \in [Feeds -> Nat]
  <2>1. \A A : A \subseteq Pool => Cardinality(A) \in Nat
    BY FS_Subset, FS_CardinalityType
  <2> DEFINE Runs(s) == full[s] # None /\ full[s].enabled
             Used(a) == {FeedOf[s] : s \in {t \in Strategies : Runs(t) /\ full[t].account = a}}
             Polls(f) == {a \in Pool : f \in Used(a)}
  <2>2. aggs = [f \in Feeds |-> Cardinality(Polls(f))]
    BY DEF Init
  <2>3. \A f \in Feeds : Polls(f) \subseteq Pool
    OBVIOUS
  <2>4. \A f \in Feeds : Cardinality(Polls(f)) \in Nat
    BY <2>1, <2>3
  <2> QED BY <2>2, <2>4
<1>6. TypeOK
  <2>1. /\ file = full /\ loaded = full
        /\ notice = FALSE /\ task = "idle" /\ pending = FALSE /\ flawed = FALSE
        /\ reload = None /\ waiting = None
        /\ orphans \in [Strategies -> Nat] /\ connected \in [Pool -> BOOLEAN]
        /\ edits \in 0..MaxEdits /\ drops \in 0..MaxDrops
    BY DEF Init
  <2> QED BY <1>1, <1>2, <1>3, <1>4, <1>5, <2>1 DEF TypeOK
<1>7. TodoInv /\ WaitInv /\ RunsOnce
  BY DEF Init, TodoInv, WaitInv, RunsOnce
<1>8. InForceInv
  BY <1>1 DEF Init, InForceInv
<1> QED BY <1>6, <1>7, <1>8 DEF IInv

(* The watcher, the operator and the brokers leave the reload alone.       *)
LEMMA WatchStep ==
  ASSUME IInv, Edit \/ Notify \/ SleepAgain \/ LoadFails
  PROVE  IInv'
<1> USE LiveReloadAssumption DEF IInv
<1>1. UNCHANGED <<full, reload, waiting, strategyVars, connected, flawed, drops>>
  BY DEF Edit, Notify, SleepAgain, LoadFails
<1>2. TypeOK'
  <2>1. CASE Edit
    <3>1. file' \in Config \cup {None}
      BY <2>1 DEF Edit, TypeOK, Config
    <3> QED BY <2>1, <3>1 DEF Edit, TypeOK, strategyVars
  <2>2. CASE Notify
    BY <2>2 DEF Notify, TypeOK, strategyVars
  <2>3. CASE SleepAgain
    BY <2>3 DEF SleepAgain, TypeOK, strategyVars
  <2>4. CASE LoadFails
    BY <2>4 DEF LoadFails, TaskAfterBadLoad, TypeOK, strategyVars
  <2> QED BY <2>1, <2>2, <2>3, <2>4
<1>3. TodoInv' /\ WaitInv' /\ InForceInv' /\ RunsOnce'
  BY <1>1 DEF strategyVars, TodoInv, WaitInv, WaitOK, InForceInv, AddUnderway, RunsOnce
<1> QED BY <1>2, <1>3

LEMMA LoadStep ==
  ASSUME IInv, Load
  PROVE  IInv'
<1> USE LiveReloadAssumption DEF IInv
<1>1. file \in Config /\ reload = None /\ waiting = None
  BY DEF Load, TypeOK
<1>2. reload' \in Reload /\ reload'.todo = Wanted(full, file) /\ reload'.new = file
  BY <1>1 DEF Load, Reload, Wanted
<1>3. TypeOK'
  BY <1>1, <1>2 DEF Load, TypeOK, strategyVars
<1>4. TodoInv' /\ WaitInv' /\ RunsOnce'
  BY <1>1, <1>2 DEF Load, TodoInv, WaitInv, RunsOnce, Wanted, strategyVars
<1>5. InForceInv'
  <2> SUFFICES ASSUME ~flawed', NEW s \in Strategies
      PROVE /\ (Call("add", s) \in reload'.todo) => runner'[s] = None
            /\ (reload'.new[s] = None /\ runner'[s] # None) => Call("remove", s) \in reload'.todo
            /\ (full'[s] = None /\ runner'[s] # None) => Call("add", s) \in reload'.todo
    BY <1>2 DEF InForceInv
  <2>1. full[s] = None => runner[s] = None
    BY <1>1 DEF InForceInv, Load
  <2>2. runner' = runner /\ full' = full
    BY DEF Load, strategyVars
  <2>3. \A op \in OpNames : Call(op, s) \in reload'.todo <=> Wants(op, full[s], file[s])
    BY <1>2 DEF Wanted, Call, CallRec
  <2> QED BY <1>2, <2>1, <2>2, <2>3 DEF Wants, OpNames
<1> QED BY <1>3, <1>4, <1>5

LEMMA FinishStep ==
  ASSUME IInv, Finish
  PROVE  IInv'
<1> USE LiveReloadAssumption DEF IInv
<1>1. TypeOK'
  <2>1. full' \in Config
    BY DEF Finish, TypeOK, Reload
  <2>2. flawed' \in BOOLEAN
    <3>1. reload.failed \in BOOLEAN /\ flawed \in BOOLEAN
      BY DEF Finish, TypeOK, Reload
    <3> QED BY <3>1 DEF Finish
  <2>3. reload' = None /\ task' = "idle" /\ waiting' = None
    BY DEF Finish
  <2>4. UNCHANGED <<file, notice, pending, loaded, connected, edits, drops>> /\ UNCHANGED strategyVars
    BY DEF Finish
  <2> QED BY <2>1, <2>2, <2>3, <2>4 DEF TypeOK, strategyVars
<1>2. TodoInv' /\ WaitInv' /\ RunsOnce'
  BY DEF Finish, TodoInv, WaitInv, RunsOnce, strategyVars
<1>3. InForceInv'
  <2>1. /\ reload # None /\ reload.todo = {} /\ reload' = None /\ runner' = runner
        /\ full' = IF InForce(reload) THEN reload.new ELSE full
        /\ flawed' = (flawed \/ reload.failed)
    BY DEF Finish, strategyVars
  <2> SUFFICES ASSUME ~flawed', NEW s \in Strategies, full'[s] = None PROVE runner[s] = None
    BY <2>1 DEF InForceInv
  <2>2. ~flawed /\ ~reload.failed
    BY <2>1
  <2>3. CASE InForce(reload)
    <3>1. reload.new[s] = None
      BY <2>1, <2>3
    <3> QED BY <2>1, <2>2, <3>1 DEF InForceInv
  <2>4. CASE ~InForce(reload)
    <3>1. full[s] = None /\ ~reload.applied
      BY <2>1, <2>2, <2>4 DEF InForce
    <3> QED BY <2>1, <2>2, <3>1 DEF InForceInv
  <2> QED BY <2>3, <2>4
<1> QED BY <1>1, <1>2, <1>3

(* An operator's pause or resume changes one flag of one runner.           *)
LEMMA PauseIs ==
  ASSUME TypeOK, NEW s \in Strategies, PauseOrResume(s)
  PROVE  /\ runner' \in [Strategies -> Runner \cup {None}]
         /\ \A t \in Strategies : runner'[t] = None <=> runner[t] = None
         /\ \A t \in Strategies : runner[t] # None => runner'[t].code = runner[t].code
<1>1. runner[s] # None /\ runner' = [runner EXCEPT ![s].paused = ~@]
  BY DEF PauseOrResume
<1>2. runner \in [Strategies -> Runner \cup {None}] /\ None \notin Runner
  BY LiveReloadAssumption DEF TypeOK
<1>3. runner[s] \in Runner
  BY <1>1, <1>2
<1> DEFINE flipped == [runner[s] EXCEPT !.paused = ~@]
<1>4. flipped \in Runner /\ flipped.code = runner[s].code
  BY ONLY <1>3 DEF Runner
<1>5. runner' = [runner EXCEPT ![s] = flipped]
  BY <1>1
<1> HIDE DEF flipped
<1>6. /\ runner' \in [Strategies -> Runner \cup {None}]
      /\ runner'[s] = flipped
      /\ \A t \in Strategies \ {s} : runner'[t] = runner[t]
  BY ONLY <1>2, <1>4, <1>5
<1>7. flipped # None
  BY <1>2, <1>4
<1>8. ASSUME NEW t \in Strategies
      PROVE  /\ runner'[t] = None <=> runner[t] = None
             /\ runner[t] # None => runner'[t].code = runner[t].code
  <2>1. CASE t = s
    BY <1>1, <1>4, <1>6, <1>7, <2>1, Zenon
  <2>2. CASE t # s
    BY <1>6, <2>2
  <2> QED BY <2>1, <2>2
<1> QED BY <1>6, <1>8

LEMMA BesideStep ==
  ASSUME IInv,
         \/ \E s \in Strategies : PauseOrResume(s)
         \/ \E a \in Pool : BrokerDrops(a) \/ BrokerReconnects(a)
  PROVE  IInv'
<1> USE LiveReloadAssumption DEF IInv
<1>1. CASE \E s \in Strategies : PauseOrResume(s)
  <2> PICK s \in Strategies : PauseOrResume(s)
    BY <1>1
  <2>1. /\ runner' \in [Strategies -> Runner \cup {None}]
        /\ \A t \in Strategies : runner'[t] = None <=> runner[t] = None
    BY PauseIs
  <2>2. TypeOK'
    BY <2>1 DEF PauseOrResume, TypeOK, watchVars
  <2>3. TodoInv' /\ RunsOnce'
    BY DEF PauseOrResume, TodoInv, RunsOnce
  <2>4. WaitInv'
    BY <2>1 DEF PauseOrResume, WaitInv, WaitOK, TypeOK, Wait, CallRec
  <2>5. InForceInv'
    BY <2>1 DEF PauseOrResume, InForceInv, AddUnderway
  <2> QED BY <2>2, <2>3, <2>4, <2>5
<1>2. CASE \E a \in Pool : BrokerDrops(a) \/ BrokerReconnects(a)
  <2>1. TypeOK'
    <3>1. connected' \in [Pool -> BOOLEAN]
      BY <1>2, Zenon DEF BrokerDrops, BrokerReconnects, TypeOK
    <3>2. drops' \in 0..MaxDrops
      BY <1>2 DEF BrokerDrops, BrokerReconnects, TypeOK
    <3> QED BY <1>2, <3>1, <3>2 DEF BrokerDrops, BrokerReconnects, TypeOK, watchVars, strategyVars
  <2>2. TodoInv' /\ WaitInv' /\ InForceInv' /\ RunsOnce'
    BY <1>2 DEF BrokerDrops, BrokerReconnects, strategyVars, TodoInv, WaitInv, WaitOK, InForceInv,
                AddUnderway, RunsOnce
  <2> QED BY <2>1, <2>2
<1> QED BY <1>1, <1>2

(* After a step of the callback c: it is done, or it waits.                *)
DoneOrWaits(c) ==
  \/ waiting' = None /\ (Returns(c) \/ Raises(c))
  \/ \E e \in Entry \cup {None}, at \in {"stopping", "updating", "starting", "subscribing"} :
       Await(c, e, at) /\ WaitOK([call |-> c, entry |-> e, at |-> at], runner'[c.sid])

(* The registry, the wiring and the routes after it.                       *)
Registered ==
  /\ runner' \in [Strategies -> Runner \cup {None}]
  /\ accounts' \in [Strategies -> Accounts \cup {None}]
  /\ aggs' \in [Feeds -> Nat]
  /\ ticking' \in [Pool -> SUBSET Feeds]
  /\ orphans' \in [Strategies -> Nat]
  /\ RunsOnce'

LEMMA CallStep ==
  ASSUME IInv, reload # None, NEW c \in reload.todo,
         waiting # None => waiting.call = c,
         DoneOrWaits(c), Registered, othersUnchanged,
         \A t \in Strategies \ {c.sid} : runner'[t] = None <=> runner[t] = None,
         c.op = "remove" => runner'[c.sid] = None
  PROVE  IInv'
<1> USE LiveReloadAssumption DEF IInv
<1>1. reload \in Reload /\ c \in CallRec /\ c.sid \in Strategies /\ c.op \in OpNames
  BY CallHasEntry DEF TypeOK, CallRec
<1>2. CASE waiting' = None /\ (Returns(c) \/ Raises(c))
  <2>1. /\ reload' \in Reload
        /\ reload'.todo = reload.todo \ {c}
        /\ reload'.new = reload.new
        /\ reload'.applied \/ reload'.failed
    BY <1>1, <1>2, ReloadAfter
  <2>2. TypeOK'
    BY <1>2, <2>1 DEF TypeOK, Registered, othersUnchanged, watchVars
  <2>3. TodoInv' /\ WaitInv'
    BY <1>2, <2>1 DEF TodoInv, WaitInv, othersUnchanged
  <2>4. InForceInv'
    <3> SUFFICES ASSUME ~flawed, NEW s \in Strategies
        PROVE /\ Call("add", s) \in reload'.todo => runner'[s] = None
              /\ (reload.new[s] = None /\ runner'[s] # None) => Call("remove", s) \in reload'.todo
      BY <1>2, <2>1 DEF InForceInv, othersUnchanged
    <3>1. CASE s = c.sid
      <4>1. Call("add", s) \in reload'.todo => c = Call("add", s)
        BY <1>1, <2>1, <3>1, CallHasEntry DEF Call, CallRec
      <4>2. c.op # "remove" => reload.new[s] # None
        BY <1>1, <3>1, CallHasEntry
      <4> QED BY <2>1, <3>1, <4>1, <4>2
    <3>2. CASE s # c.sid
      <4>1. c # Call("add", s) /\ c # Call("remove", s)
        BY <3>2 DEF Call
      <4>2. ~AddUnderway(s)
        BY <4>1 DEF AddUnderway
      <4> QED BY <2>1, <3>2, <4>1, <4>2 DEF InForceInv
    <3> QED BY <3>1, <3>2
  <2> QED BY <2>2, <2>3, <2>4 DEF Registered
<1>3. ASSUME NEW e \in Entry \cup {None},
             NEW at \in {"stopping", "updating", "starting", "subscribing"},
             Await(c, e, at),
             WaitOK([call |-> c, entry |-> e, at |-> at], runner'[c.sid])
      PROVE  IInv'
  <2>1. /\ waiting' \in Wait /\ waiting' = [call |-> c, entry |-> e, at |-> at]
        /\ waiting'.call = c /\ waiting'.at = at
        /\ reload' = reload
    BY <1>1, <1>3, WaitAfter DEF Await
  <2>2. TypeOK'
    BY <2>1 DEF TypeOK, Registered, othersUnchanged, watchVars
  <2>3. TodoInv'
    BY <2>1 DEF TodoInv, othersUnchanged
  <2>4. WaitInv'
    BY <1>3, <2>1 DEF WaitInv, WaitOK, othersUnchanged
  <2>5. InForceInv'
    <3> SUFFICES ASSUME ~flawed, NEW s \in Strategies
        PROVE /\ (Call("add", s) \in reload.todo /\ ~AddUnderway(s)') => runner'[s] = None
              /\ (reload.new[s] = None /\ runner'[s] # None) => Call("remove", s) \in reload.todo
              /\ (~reload.applied /\ ~reload.failed /\ full[s] = None /\ runner'[s] # None) =>
                    Call("add", s) \in reload.todo
      BY <2>1 DEF InForceInv, othersUnchanged
    <3>1. CASE s = c.sid
      <4>1. full[s] = None => c = Call("add", s)
        BY <1>1, <3>1, CallHasEntry DEF Call, CallRec
      <4>2. Call("add", s) \in reload.todo => full[s] = None
        BY CallHasEntry DEF Call
      <4>3. c.op # "remove" => reload.new[s] # None
        BY <1>1, <3>1, CallHasEntry
      <4>4. (c = Call("add", s) /\ at # "subscribing") => runner'[s] = None
        BY <1>3, <3>1 DEF WaitOK, Call
      <4>5. (c = Call("add", s) /\ at = "subscribing") => AddUnderway(s)'
        BY <2>1 DEF AddUnderway
      <4> QED BY <3>1, <4>1, <4>2, <4>3, <4>4, <4>5
    <3>2. CASE s # c.sid
      <4>1. c # Call("add", s)
        BY <3>2 DEF Call
      <4>2. ~AddUnderway(s)
        BY <4>1 DEF AddUnderway
      <4> QED BY <3>2, <4>2 DEF InForceInv
    <3> QED BY <3>1, <3>2
  <2> QED BY <2>2, <2>3, <2>4, <2>5 DEF Registered
<1> QED BY <1>2, <1>3 DEF DoneOrWaits

(* The callbacks that begin in this step.                                  *)
LEMMA BeginStep ==
  ASSUME IInv, NEW s \in Strategies,
         \/ AddStrategy(s) \/ RemoveStrategy(s) \/ ReplaceStrategy(s)
         \/ SetEnabled(s) \/ UpdateParams(s) \/ ChangeAccount(s)
  PROVE  IInv'
<1> USE LiveReloadAssumption DEF IInv
<1>1. \A op : Calls(op, s) => /\ reload # None /\ waiting = None
                              /\ Call(op, s) \in reload.todo
                              /\ Call(op, s).op = op /\ Call(op, s).sid = s
  BY DEF Calls, Call
<1>2. \A op \in {"add", "replace", "enable"}, e \in Entry :
        (BeginAdd(Call(op, s), e) /\ (flawed \/ runner'[s] = None)) => DoneOrWaits(Call(op, s))
  BY DEF BeginAdd, DoneOrWaits, WaitOK, Call
<1>3. CASE AddStrategy(s)
  <2> DEFINE c == Call("add", s)
  <2>1. reload.new[s] \in Entry /\ full[s] = None
    BY <1>1, <1>3, CallHasEntry DEF AddStrategy
  <2>2. flawed \/ runner'[s] = None
    BY <1>1, <1>3 DEF AddStrategy, strategyVars, InForceInv, AddUnderway
  <2>3. DoneOrWaits(c)
    BY <1>2, <1>3, <2>1, <2>2 DEF AddStrategy
  <2>4. Registered
    BY <1>3 DEF AddStrategy, strategyVars, Registered, TypeOK, RunsOnce, othersUnchanged
  <2> QED BY <1>1, <1>3, <2>3, <2>4, CallStep DEF AddStrategy, strategyVars
<1>4. CASE RemoveStrategy(s)
  <2> DEFINE c == Call("remove", s)
  <2>1. /\ runner' \in [Strategies -> Runner \cup {None}]
        /\ \A t \in Strategies \ {s} : runner'[t] = runner[t]
        /\ runner'[s] = None
    BY <1>4 DEF RemoveStrategy, TakeRunner, TypeOK
  <2>2. DoneOrWaits(c)
    BY <1>1, <1>4, <2>1 DEF RemoveStrategy, DoneOrWaits, WaitOK
  <2>3. Registered
    BY <1>4, <2>1 DEF RemoveStrategy, Registered, TypeOK, RunsOnce, othersUnchanged
  <2> QED BY <1>1, <1>4, <2>1, <2>2, <2>3, CallStep DEF RemoveStrategy
<1>5. CASE ReplaceStrategy(s)
  <2> DEFINE c == Call("replace", s)
  <2>1. /\ runner' \in [Strategies -> Runner \cup {None}]
        /\ \A t \in Strategies \ {s} : runner'[t] = runner[t]
        /\ runner'[s] = None
    BY <1>5 DEF ReplaceStrategy, TakeRunner, TypeOK
  <2>2. reload.new[s] \in Entry
    BY <1>1, <1>5, CallHasEntry DEF ReplaceStrategy
  <2>3. DoneOrWaits(c)
    BY <1>1, <1>2, <1>5, <2>1, <2>2 DEF ReplaceStrategy, DoneOrWaits, WaitOK
  <2>4. Registered
    BY <1>5, <2>1 DEF ReplaceStrategy, Registered, TypeOK, RunsOnce, othersUnchanged
  <2> QED BY <1>1, <1>5, <2>1, <2>3, <2>4, CallStep DEF ReplaceStrategy
<1>6. CASE SetEnabled(s)
  <2> DEFINE c == Call("enable", s)
  <2>1. reload.new[s] \in Entry /\ full[s] \in Entry
    BY <1>1, <1>6, CallHasEntry DEF SetEnabled
  <2>2. /\ runner' \in [Strategies -> Runner \cup {None}]
        /\ \A t \in Strategies \ {s} : runner'[t] = runner[t]
    <3>1. \A r \in Runner, b \in BOOLEAN : [r EXCEPT !.paused = b] \in Runner
      BY DEF Runner
    <3>2. reload.new[s].enabled \in BOOLEAN
      BY <2>1 DEF Entry
    <3>3. CASE runner[s] # None
      <4>1. /\ runner[s] \in Runner
            /\ runner' = [runner EXCEPT ![s] = [@ EXCEPT !.paused = ~reload.new[s].enabled]]
        BY <1>6, <3>3 DEF SetEnabled, TypeOK
      <4>2. [runner[s] EXCEPT !.paused = ~reload.new[s].enabled] \in Runner
        BY <3>1, <3>2, <4>1
      <4> QED BY <4>1, <4>2 DEF TypeOK
    <3>4. CASE runner[s] = None
      BY <1>6, <3>4 DEF SetEnabled, TypeOK
    <3> QED BY <3>3, <3>4
  <2>3. DoneOrWaits(c)
    BY <1>1, <1>2, <1>6, <2>1 DEF SetEnabled, DoneOrWaits
  <2>4. Registered
    BY <1>6, <2>2 DEF SetEnabled, Registered, TypeOK, RunsOnce, othersUnchanged
  <2> QED BY <1>1, <1>6, <2>2, <2>3, <2>4, CallStep DEF SetEnabled
<1>7. CASE UpdateParams(s)
  <2> DEFINE c == Call("params", s)
  <2>1. reload.new[s] \in Entry
    BY <1>1, <1>7, CallHasEntry DEF UpdateParams
  <2>2. DoneOrWaits(c)
    BY <1>1, <1>7, <2>1 DEF UpdateParams, strategyVars, DoneOrWaits, WaitOK
  <2>3. Registered
    BY <1>7 DEF UpdateParams, strategyVars, Registered, TypeOK, RunsOnce, othersUnchanged
  <2> QED BY <1>1, <1>7, <2>2, <2>3, CallStep DEF UpdateParams, strategyVars
<1>8. CASE ChangeAccount(s)
  <2> DEFINE c == Call("account", s)
  <2>1. reload.new[s] \in Entry
    BY <1>1, <1>8, CallHasEntry DEF ChangeAccount
  <2>2. /\ accounts' \in [Strategies -> Accounts \cup {None}]
        /\ aggs' \in [Feeds -> Nat]
    BY <1>8, <2>1 DEF ChangeAccount, Wire, TypeOK, Entry
  <2>3. DoneOrWaits(c)
    BY <1>1, <1>8, <2>1 DEF ChangeAccount, Wire, DoneOrWaits, WaitOK
  <2>4. Registered
    BY <1>8, <2>2 DEF ChangeAccount, Registered, TypeOK, RunsOnce, othersUnchanged
  <2> QED BY <1>1, <1>8, <2>2, <2>3, <2>4, CallStep DEF ChangeAccount
<1> QED BY <1>3, <1>4, <1>5, <1>6, <1>7, <1>8

(* The callbacks that go on in this step.                                  *)
LEMMA ResumeStep ==
  ASSUME IInv, StopReturns \/ LockAcquired \/ OnStartReturns \/ SubscribeReplies
  PROVE  IInv'
<1> USE LiveReloadAssumption DEF IInv
<1> DEFINE c == waiting.call
           s == waiting.call.sid
           e == waiting.entry
<1>1. /\ waiting # None /\ reload # None /\ c \in reload.todo
      /\ WaitOK(waiting, runner[s])
      /\ waiting \in Wait /\ c \in CallRec /\ s \in Strategies
  BY DEF StopReturns, LockAcquired, OnStartReturns, SubscribeReplies, TypeOK, WaitInv, Wait, CallRec
<1>2. CASE StopReturns
  <2>1. waiting.at = "stopping" /\ runner[s] = None /\ c.op \in {"remove", "replace"} /\ runner' = runner
    BY <1>1, <1>2 DEF StopReturns, WaitOK
  <2>2. c.op = "replace" => reload.new[s] \in Entry
    BY <1>1, CallHasEntry
  <2>3. DoneOrWaits(c)
    BY <1>2, <2>1, <2>2 DEF StopReturns, BeginAdd, DoneOrWaits, WaitOK
  <2>4. Registered
    BY <1>2 DEF StopReturns, Registered, TypeOK, RunsOnce, othersUnchanged
  <2> QED BY <1>1, <1>2, <2>1, <2>3, <2>4, CallStep DEF StopReturns
<1>3. CASE LockAcquired
  <2>1. waiting.at = "updating" /\ runner[s] \in Runner /\ c.op = "params"
    BY <1>1, <1>3 DEF LockAcquired, WaitOK, TypeOK
  <2>2. e \in Entry /\ e.params \in Params \ Invalid
    BY <1>1, <2>1 DEF WaitOK, Entry
  <2>3. runner' = [runner EXCEPT ![s] = [@ EXCEPT !.params = e.params]]
    BY <1>3 DEF LockAcquired
  <2>4. [runner[s] EXCEPT !.params = e.params] \in Runner
    BY <2>1, <2>2 DEF Runner
  <2>5. /\ runner' \in [Strategies -> Runner \cup {None}]
        /\ \A t \in Strategies \ {s} : runner'[t] = runner[t]
    BY <2>3, <2>4 DEF TypeOK
  <2>6. DoneOrWaits(c)
    BY <1>3 DEF LockAcquired, DoneOrWaits
  <2>7. Registered
    BY <1>3, <2>5 DEF LockAcquired, Registered, TypeOK, RunsOnce, othersUnchanged
  <2> QED BY <1>1, <1>3, <2>1, <2>5, <2>6, <2>7, CallStep DEF LockAcquired
<1>4. CASE OnStartReturns
  <2>1. /\ waiting.at = "starting" /\ (~flawed => runner[s] = None)
        /\ c.op \in {"add", "replace", "enable"}
        /\ e \in Entry /\ e.params \notin Invalid
    BY <1>1, <1>4 DEF OnStartReturns, WaitOK
  <2>2. runner' = [runner EXCEPT ![s] = [code |-> e.code, params |-> e.params, paused |-> FALSE]]
    BY <1>4 DEF OnStartReturns
  <2>3. /\ runner' \in [Strategies -> Runner \cup {None}]
        /\ \A t \in Strategies \ {s} : runner'[t] = runner[t]
    BY <2>1, <2>2 DEF TypeOK, Runner, Entry
  <2>4. DoneOrWaits(c)
    BY <1>4, <2>1 DEF OnStartReturns, Wire, DoneOrWaits, WaitOK
  <2>5. /\ accounts' \in [Strategies -> Accounts \cup {None}]
        /\ aggs' \in [Feeds -> Nat]
        /\ orphans' \in [Strategies -> Nat]
    <3>1. accounts' = [accounts EXCEPT ![s] = e.account] /\ e.account \in Accounts
      BY <1>4, <2>1 DEF OnStartReturns, Entry
    <3>2. aggs' = [aggs EXCEPT ![FeedOf[s]] = aggs[FeedOf[s]] + 1] /\ aggs[FeedOf[s]] \in Nat
      <4>1. s \in Strategies /\ FeedOf[s] \in Feeds
        BY <1>1
      <4> QED BY <1>4, <4>1 DEF OnStartReturns, Wire, TypeOK
    <3>3. orphans' = orphans \/ orphans' = [orphans EXCEPT ![s] = @ + 1]
      BY <1>4 DEF OnStartReturns
    <3>4. accounts' \in [Strategies -> Accounts \cup {None}]
      BY <3>1 DEF TypeOK
    <3>5. aggs' \in [Feeds -> Nat]
      <4>1. aggs \in [Feeds -> Nat] /\ aggs[FeedOf[s]] + 1 \in Nat
        BY <3>2 DEF TypeOK
      <4> QED BY <3>2, <4>1, Zenon
    <3>6. orphans' \in [Strategies -> Nat]
      BY <3>3 DEF TypeOK
    <3> QED BY <3>4, <3>5, <3>6
  <2>6. RunsOnce'
    BY <1>4, <2>1 DEF OnStartReturns, RunsOnce, othersUnchanged
  <2>7. Registered
    BY <1>4, <2>3, <2>5, <2>6 DEF OnStartReturns, Registered, TypeOK
  <2> QED BY <1>1, <1>4, <2>1, <2>3, <2>4, <2>7, CallStep DEF OnStartReturns
<1>5. CASE SubscribeReplies
  <2>1. waiting.at = "subscribing" /\ c.op # "remove" /\ e \in Entry /\ runner' = runner
    BY <1>1, <1>5 DEF SubscribeReplies, WaitOK
  <2>2. ticking' \in [Pool -> SUBSET Feeds]
    BY <1>1, <1>5, <2>1 DEF SubscribeReplies, BrokerOf, TypeOK, Entry
  <2>3. DoneOrWaits(c)
    BY <1>5 DEF SubscribeReplies, DoneOrWaits
  <2>4. Registered
    BY <1>5, <2>2 DEF SubscribeReplies, Registered, TypeOK, RunsOnce, othersUnchanged
  <2> QED BY <1>1, <1>5, <2>1, <2>3, <2>4, CallStep DEF SubscribeReplies
<1> QED BY <1>2, <1>3, <1>4, <1>5

-----------------------------------------------------------------------------
LEMMA StepInv == IInv /\ [Next]_vars => IInv'
<1> SUFFICES ASSUME IInv, [Next]_vars PROVE IInv'
  OBVIOUS
<1>1. CASE Watch \/ Edit
  BY <1>1, WatchStep, LoadStep, FinishStep DEF Watch
<1>2. CASE Apply
  BY <1>2, BeginStep, ResumeStep DEF Apply
<1>3. CASE \/ \E s \in Strategies : PauseOrResume(s)
           \/ \E a \in Pool : BrokerDrops(a) \/ BrokerReconnects(a)
  BY <1>3, BesideStep
<1>4. CASE UNCHANGED vars
  BY <1>4 DEF vars, watchVars, strategyVars, IInv, TypeOK, TodoInv, WaitInv, WaitOK, InForceInv,
              AddUnderway, RunsOnce
<1> QED BY <1>1, <1>2, <1>3, <1>4 DEF Next

THEOREM IInvHolds == Spec => []IInv
  BY InitInv, StepInv, PTL DEF Spec

(* At most one reload runs, and it keeps the registry, the accounts and    *)
(* the wiring well-formed; a callback that waits is one of its calls.      *)
THEOREM TypeCorrect == Spec => []TypeOK
<1>1. IInv => TypeOK
  BY DEF IInv
<1> QED BY <1>1, IInvHolds, PTL

(* Until a reload has errors no strategy runs twice: whenever on_start     *)
(* returns, no runner is registered under the id (runtime.py:528).         *)
THEOREM NeverTwice == Spec => []RunsOnce
<1>1. IInv => RunsOnce
  BY DEF IInv
<1> QED BY <1>1, IInvHolds, PTL

(* Outside a reload, while every one went well, a strategy that is not in  *)
(* full_cfg has no runner.                                                 *)
THEOREM RemovedIsGone ==
  Spec => [](reload = None /\ ~flawed => \A s \in Strategies : full[s] = None => runner[s] = None)
<1>1. IInv => (reload = None /\ ~flawed => \A s \in Strategies : full[s] = None => runner[s] = None)
  BY DEF IInv, InForceInv
<1> QED BY <1>1, IInvHolds, PTL

-----------------------------------------------------------------------------
(* What runs is what is in force.                                          *)

(* No reload has had an error so far.                                      *)
Good == ~flawed /\ (reload # None => ~reload.failed)

Left(op, s) == Call(op, s) \in reload.todo

(* Strategy s runs as its entry e says.                                    *)
RunsAs(s, e) ==
  /\ e = None => runner[s] = None
  /\ (e # None /\ runner[s] # None) => runner[s].code = e.code /\ accounts[s] = e.account
  /\ (e # None /\ e.enabled) => runner[s] # None

(* Within a reload it runs as the new entry n says, less what the calls    *)
(* that are left will change; enable, which adds the strategy by its old   *)
(* entry, comes before account.                                            *)
RunsAsLeft(s, n) ==
  /\ ~Left("replace", s) => runner[s].code = n.code
  /\ (~Left("replace", s) /\ ~Left("account", s)) => accounts[s] = n.account

UnderReload(s) ==
  LET n == reload.new[s] IN
    /\ (n # None /\ runner[s] # None) => RunsAsLeft(s, n)
    /\ (n # None /\ n.enabled /\ ~Left("add", s) /\ ~Left("replace", s) /\ ~Left("enable", s)) =>
         runner[s] # None
    /\ (Left("enable", s) /\ ~Left("account", s)) => full[s].account = n.account

RunInv ==
  Good => \A s \in Strategies : IF reload = None THEN RunsAs(s, full[s]) ELSE UnderReload(s)

(* A broker subscription is only missing while it is being made.           *)
Fed(s) ==
  runner[s] # None =>
    /\ aggs[FeedOf[s]] > 0 /\ accounts[s] # None
    /\ \/ FeedOf[s] \in ticking[BrokerOf(accounts[s])]
       \/ waiting # None /\ waiting.call.sid = s /\ waiting.at = "subscribing"

FedInv == Good => \A s \in Strategies : Fed(s)

(* What a callback may wait for.                                           *)
Points == {"stopping", "updating", "starting", "subscribing"}

(* The entry that call c works from.                                       *)
EntryFor(c) == IF c.op = "enable" THEN full[c.sid] ELSE reload.new[c.sid]

AwaitInv ==
  (Good /\ waiting # None) =>
    LET c == waiting.call
        s == waiting.call.sid
    IN /\ waiting.at \in {"starting", "subscribing"} => waiting.entry = EntryFor(c)
       /\ waiting.at = "subscribing" =>
            /\ runner[s] # None /\ runner[s].code = reload.new[s].code
            /\ accounts[s] = waiting.entry.account
       /\ c.op = "account" => ~Left("enable", s)

(* Until a call returned, everything that differs is left.                 *)
FreshInv ==
  (reload # None /\ ~reload.applied /\ ~reload.failed) => reload.todo = Wanted(full, reload.new)

JInv == RunInv /\ FedInv /\ AwaitInv /\ FreshInv

(* What the calls that are left for s say of its entries.                  *)
LEMMA LeftMeans ==
  ASSUME TypeOK, TodoInv, reload # None, NEW s \in Strategies
  PROVE  /\ full[s] \in Entry \cup {None} /\ reload.new[s] \in Entry \cup {None}
         /\ Left("remove", s) => full[s] # None /\ reload.new[s] = None
         /\ Left("add", s) => full[s] = None /\ reload.new[s] # None /\ reload.new[s].enabled
         /\ Left("replace", s) => /\ full[s] # None /\ reload.new[s] # None
                                  /\ full[s].code # reload.new[s].code
         /\ \A op \in {"enable", "params", "account"} : Left(op, s) =>
              full[s] # None /\ reload.new[s] # None /\ full[s].code = reload.new[s].code
<1>1. \A op : Left(op, s) => Wants(op, full[s], reload.new[s])
  BY DEF Left, TodoInv, Wanted, Call
<1>2. full[s] \in Entry \cup {None} /\ reload.new[s] \in Entry \cup {None}
  BY DEF TypeOK, Reload, Config
<1> QED BY <1>1, <1>2 DEF Wants

(* What is left for s after its call op returned, raised or waits.         *)
LEMMA LeftAfter ==
  ASSUME TypeOK, reload # None, NEW s \in Strategies, NEW op \in OpNames
  PROVE  /\ Returns(Call(op, s)) =>
              /\ reload' # None /\ reload'.new = reload.new /\ reload'.failed = reload.failed
              /\ \A o \in OpNames : Left(o, s)' <=> (Left(o, s) /\ o # op)
         /\ Raises(Call(op, s)) => ~Good'
<1>1. reload \in Reload /\ reload # None
  BY DEF TypeOK
<1>2. \A o \in OpNames : Call(o, s) = Call(op, s) <=> o = op
  BY DEF Call
<1>3. ASSUME Returns(Call(op, s))
      PROVE  /\ reload' # None /\ reload'.new = reload.new /\ reload'.failed = reload.failed
             /\ reload'.todo = reload.todo \ {Call(op, s)}
  <2>1. reload' = [reload EXCEPT !.todo = @ \ {Call(op, s)}, !.at = s, !.applied = TRUE]
    BY <1>3 DEF Returns, Call
  <2>2. reload' \in Reload /\ reload'.new = reload.new /\ reload'.todo = reload.todo \ {Call(op, s)}
    BY <1>1, <2>1 DEF Reload
  <2>3. reload'.failed = reload.failed
    BY <1>1, <2>1, Zenon DEF Reload
  <2> QED BY <2>2, <2>3, LiveReloadAssumption
<1>4. ASSUME Raises(Call(op, s)) PROVE reload' # None /\ reload'.failed
  <2>1. reload' = [reload EXCEPT !.todo = @ \ {Call(op, s)}, !.at = s, !.failed = TRUE]
    BY <1>4 DEF Raises, Call
  <2>2. reload' \in Reload /\ reload'.failed
    BY <1>1, <2>1 DEF Reload
  <2> QED BY <2>2, LiveReloadAssumption
<1> QED BY <1>2, <1>3, <1>4 DEF Left, Good

(* A step of call c: it is done, or it waits; other strategies are left    *)
(* alone, and no subscription is taken back.                               *)
Moves(c) ==
  \/ waiting' = None /\ (Returns(c) \/ Raises(c))
  \/ \E e \in Entry \cup {None}, at \in Points : Await(c, e, at)

KeepsOthers(c) ==
  /\ \A t \in Strategies \ {c.sid} :
       /\ accounts'[t] = accounts[t]
       /\ runner'[t] = runner[t]
  /\ \A f \in Feeds : aggs[f] > 0 => aggs'[f] > 0
  /\ \A a \in Pool : ticking[a] \subseteq ticking'[a]

LEMMA CallKeeps ==
  ASSUME IInv, JInv, reload # None, NEW c \in reload.todo, waiting # None => waiting.call = c,
         othersUnchanged, Moves(c), KeepsOthers(c),
         (Good /\ Good') => UnderReload(c.sid)' /\ Fed(c.sid)' /\ AwaitInv'
  PROVE  JInv'
<1>1. reload \in Reload /\ c \in CallRec /\ c.sid \in Strategies
  BY CallHasEntry DEF IInv, TypeOK, CallRec
<1>2. full' = full /\ flawed' = flawed
  BY DEF othersUnchanged
<1>3. /\ reload' \in Reload /\ reload' # None /\ reload'.new = reload.new
      /\ Good' => Good
      /\ reload' = reload \/ (reload'.todo = reload.todo \ {c} /\ (reload'.applied \/ reload'.failed))
  <2>1. CASE Returns(c) \/ Raises(c)
    <3>1. /\ reload' \in Reload /\ reload'.todo = reload.todo \ {c} /\ reload'.new = reload.new
          /\ reload'.applied \/ reload'.failed
      BY <1>1, <2>1, ReloadAfter
    <3>2. reload'.failed = reload.failed \/ reload'.failed
      BY <1>1, <2>1 DEF Returns, Raises, Reload
    <3> QED BY <1>1, <1>2, <3>1, <3>2, LiveReloadAssumption DEF Good
  <2>2. CASE reload' = reload
    BY <1>1, <1>2, <2>2 DEF Good
  <2> QED BY <2>1, <2>2 DEF Moves, Await
<1>4. FreshInv'
  BY <1>2, <1>3 DEF JInv, FreshInv, Wanted
<1>5. ASSUME Good', NEW t \in Strategies \ {c.sid} PROVE UnderReload(t)' /\ Fed(t)'
  <2>1. UnderReload(t) /\ Fed(t)
    BY <1>3, <1>5 DEF JInv, RunInv, FedInv
  <2>2. runner'[t] = runner[t] /\ accounts'[t] = accounts[t]
    BY DEF KeepsOthers
  <2>3. \A op : Left(op, t)' <=> Left(op, t)
    <3>1. \A op : Call(op, t) # c
      BY DEF Call
    <3> QED BY <1>3, <3>1 DEF Left
  <2>4. UnderReload(t)'
    BY <1>2, <1>3, <2>1, <2>2, <2>3 DEF UnderReload, RunsAsLeft
  <2>5. Fed(t)'
    <3> SUFFICES ASSUME runner'[t] # None
                 PROVE  /\ aggs'[FeedOf[t]] > 0 /\ accounts'[t] # None
                        /\ FeedOf[t] \in ticking'[BrokerOf(accounts'[t])]
      BY DEF Fed
    <3>1. /\ aggs[FeedOf[t]] > 0 /\ accounts[t] # None
          /\ FeedOf[t] \in ticking[BrokerOf(accounts[t])]
      BY <2>1, <2>2 DEF Fed
    <3>2. FeedOf[t] \in Feeds /\ BrokerOf(accounts[t]) \in Pool
      BY LiveReloadAssumption DEF BrokerOf
    <3> QED BY <2>2, <3>1, <3>2 DEF KeepsOthers
  <2> QED BY <2>4, <2>5
<1>6. RunInv' /\ FedInv' /\ AwaitInv'
  <2>1. CASE Good'
    <3>1. \A t \in Strategies : UnderReload(t)' /\ Fed(t)'
      BY <1>3, <1>5, <2>1
    <3> QED BY <1>3, <2>1, <3>1 DEF RunInv, FedInv
  <2>2. CASE ~Good'
    BY <2>2 DEF RunInv, FedInv, AwaitInv
  <2> QED BY <2>1, <2>2
<1> QED BY <1>4, <1>6 DEF JInv

(* The calls that begin in this step.                                      *)
LEMMA BeginKeeps ==
  ASSUME IInv, JInv, NEW s \in Strategies,
         \/ AddStrategy(s) \/ RemoveStrategy(s) \/ ReplaceStrategy(s)
         \/ SetEnabled(s) \/ UpdateParams(s) \/ ChangeAccount(s)
  PROVE  JInv'
<1> USE DEF IInv
<1>1. /\ reload # None /\ waiting = None /\ othersUnchanged
      /\ full' = full /\ runner \in [Strategies -> Runner \cup {None}]
  BY DEF AddStrategy, RemoveStrategy, ReplaceStrategy, SetEnabled, UpdateParams, ChangeAccount, Calls,
         othersUnchanged, TypeOK
<1>2. \A op \in OpNames : /\ Call(op, s).op = op /\ Call(op, s).sid = s
                          /\ Calls(op, s) => Call(op, s) \in reload.todo /\ Left(op, s)
  BY DEF Call, Calls, Left
<1>3. /\ Good => UnderReload(s) /\ Fed(s)
      /\ full[s] \in Entry \cup {None} /\ reload.new[s] \in Entry \cup {None}
  BY <1>1, LeftMeans DEF JInv, RunInv, FedInv
<1>4. \A op \in OpNames, e \in Entry : BeginAdd(Call(op, s), e) =>
        \/ waiting' = None /\ Raises(Call(op, s))
        \/ Await(Call(op, s), e, "starting")
  BY DEF BeginAdd
<1>5. \A op \in OpNames, e \in Entry \cup {None}, at \in Points : Await(Call(op, s), e, at) =>
        /\ reload' = reload /\ \A o : Left(o, s)' <=> Left(o, s)
        /\ waiting'.call = Call(op, s) /\ waiting'.entry = e /\ waiting'.at = at
  BY DEF Await, Left
<1> USE DEF Points
<1>6. ASSUME AddStrategy(s) PROVE JInv'
  <2> DEFINE c == Call("add", s)
             e == reload.new[s]
  <2>1. Left("add", s) /\ c \in reload.todo /\ c.op = "add" /\ c.sid = s /\ e \in Entry
    BY <1>1, <1>2, <1>3, <1>6, LeftMeans DEF AddStrategy, OpNames
  <2>2. Moves(c) /\ KeepsOthers(c)
    BY <1>4, <1>6, <2>1 DEF AddStrategy, Moves, KeepsOthers, strategyVars, OpNames
  <2>3. ASSUME Good, Good' PROVE UnderReload(s)' /\ Fed(s)' /\ AwaitInv'
    <3>1. Await(c, e, "starting")
      BY <1>1, <1>4, <1>6, <2>1, <2>3, LeftAfter DEF AddStrategy, OpNames
    <3>2. UnderReload(s)'
      BY <1>1, <1>3, <1>5, <1>6, <2>1, <2>3, <3>1 DEF AddStrategy, strategyVars, UnderReload, RunsAsLeft, OpNames
    <3>3. Fed(s)'
      BY <1>1, <1>3, <1>6, <2>3 DEF AddStrategy, strategyVars, Fed
    <3>4. AwaitInv'
      BY <1>1, <1>5, <2>1, <3>1 DEF AwaitInv, EntryFor, OpNames
    <3> QED BY <3>2, <3>3, <3>4
  <2> QED BY <1>1, <2>1, <2>2, <2>3, CallKeeps
<1>7. ASSUME RemoveStrategy(s) PROVE JInv'
  <2> DEFINE c == Call("remove", s)
  <2>1. /\ Left("remove", s) /\ c \in reload.todo /\ c.op = "remove" /\ c.sid = s
        /\ reload.new[s] = None
    BY <1>1, <1>2, <1>7, LeftMeans DEF RemoveStrategy, OpNames
  <2>2. /\ runner'[s] = None /\ accounts' = accounts /\ aggs' = aggs /\ ticking' = ticking
        /\ \A t \in Strategies \ {s} : runner'[t] = runner[t]
    BY <1>1, <1>7 DEF RemoveStrategy, TakeRunner
  <2>3. Moves(c) /\ KeepsOthers(c)
    <3>1. (waiting' = None /\ Returns(c)) \/ Await(c, None, "stopping")
      BY <1>1, <1>7 DEF RemoveStrategy
    <3>2. Moves(c)
      BY <3>1 DEF Moves
    <3> QED BY <2>1, <2>2, <3>2 DEF KeepsOthers
  <2>4. ASSUME Good, Good' PROVE UnderReload(s)' /\ Fed(s)' /\ AwaitInv'
    <3>1. reload'.new = reload.new /\ ~Left("enable", s)'
      <4>1. ~Left("enable", s)
        BY <1>1, <2>1, LeftMeans
      <4> QED BY <1>1, <1>5, <1>7, <4>1, LeftAfter DEF RemoveStrategy, OpNames
    <3>2. UnderReload(s)'
      BY <2>1, <3>1 DEF UnderReload
    <3>3. Fed(s)'
      BY <2>2 DEF Fed
    <3>4. AwaitInv'
      <4>1. waiting' = None \/ Await(c, None, "stopping")
        BY <1>1, <1>7 DEF RemoveStrategy
      <4>2. Await(c, None, "stopping") =>
              waiting'.call.op = "remove" /\ waiting'.at = "stopping"
        BY <1>5, <2>1 DEF OpNames
      <4> QED BY <4>1, <4>2 DEF AwaitInv
    <3> QED BY <3>2, <3>3, <3>4
  <2> QED BY <1>1, <2>1, <2>3, <2>4, CallKeeps
<1>8. ASSUME ReplaceStrategy(s) PROVE JInv'
  <2> DEFINE c == Call("replace", s)
             e == reload.new[s]
  <2>1. Left("replace", s) /\ c \in reload.todo /\ c.op = "replace" /\ c.sid = s /\ e \in Entry
    BY <1>1, <1>2, <1>3, <1>8, LeftMeans DEF ReplaceStrategy, OpNames
  <2>2. /\ runner'[s] = None /\ accounts' = accounts /\ aggs' = aggs /\ ticking' = ticking
        /\ \A t \in Strategies \ {s} : runner'[t] = runner[t]
    BY <1>1, <1>8 DEF ReplaceStrategy, TakeRunner
  <2>3. Moves(c) /\ KeepsOthers(c)
    BY <1>4, <1>8, <2>1, <2>2 DEF ReplaceStrategy, Moves, KeepsOthers, OpNames
  <2>4. ASSUME Good, Good' PROVE UnderReload(s)' /\ Fed(s)' /\ AwaitInv'
    <3>1. Await(c, None, "stopping") \/ Await(c, e, "starting")
      BY <1>1, <1>4, <1>8, <2>1, <2>4, LeftAfter DEF ReplaceStrategy, OpNames
    <3>2. reload' = reload /\ (\A o : Left(o, s)' <=> Left(o, s)) /\ ~Left("enable", s)
      BY <1>1, <1>5, <2>1, <3>1, LeftMeans DEF OpNames
    <3>3. UnderReload(s)'
      BY <2>1, <2>2, <3>2 DEF UnderReload
    <3>4. Fed(s)'
      BY <2>2 DEF Fed
    <3>5. AwaitInv'
      <4>1. \/ waiting'.call = c /\ waiting'.at = "stopping"
            \/ waiting'.call = c /\ waiting'.at = "starting" /\ waiting'.entry = e
        BY <1>5, <2>1, <3>1 DEF OpNames
      <4>2. EntryFor(c)' = e
        BY <2>1, <3>2 DEF EntryFor
      <4> QED BY <2>1, <4>1, <4>2 DEF AwaitInv, EntryFor
    <3> QED BY <3>3, <3>4, <3>5
  <2> QED BY <1>1, <2>1, <2>3, <2>4, CallKeeps
<1>9. ASSUME SetEnabled(s) PROVE JInv'
  <2> DEFINE c == Call("enable", s)
             n == reload.new[s]
  <2>1. /\ Left("enable", s) /\ c \in reload.todo /\ c.op = "enable" /\ c.sid = s
        /\ full[s] \in Entry /\ n \in Entry /\ full[s].code = n.code
    BY <1>1, <1>2, <1>3, <1>9, LeftMeans DEF SetEnabled, OpNames
  <2>2. /\ accounts' = accounts /\ aggs' = aggs /\ ticking' = ticking
        /\ \A t \in Strategies \ {s} : runner'[t] = runner[t]
        /\ runner'[s] = None <=> runner[s] = None
        /\ runner[s] # None => runner'[s].code = runner[s].code
    <3>1. CASE runner[s] # None
      <4>1. runner' = [runner EXCEPT ![s] = [@ EXCEPT !.paused = ~reload.new[s].enabled]]
        BY <1>9, <3>1 DEF SetEnabled
      <4>2. runner[s] \in Runner /\ reload.new[s].enabled \in BOOLEAN
        <5>1. runner[s] \in Runner
          BY <1>1, <3>1
        <5>2. reload.new[s].enabled \in BOOLEAN
          BY <2>1 DEF Entry
        <5> QED BY <5>1, <5>2
      <4>3. \A r \in Runner, b \in BOOLEAN : /\ [r EXCEPT !.paused = b] \in Runner
                                             /\ [r EXCEPT !.paused = b].code = r.code
        BY DEF Runner
      <4>4. runner'[s] = [runner[s] EXCEPT !.paused = ~reload.new[s].enabled]
        BY <1>1, <4>1
      <4>5. runner'[s] \in Runner /\ runner'[s].code = runner[s].code
        BY <4>2, <4>3, <4>4
      <4> QED BY <1>1, <1>9, <3>1, <4>1, <4>5, LiveReloadAssumption DEF SetEnabled
    <3>2. CASE runner[s] = None
      BY <1>9, <3>2 DEF SetEnabled
    <3> QED BY <3>1, <3>2
  <2>3. \/ waiting' = None /\ Returns(c) /\ (n.enabled => runner[s] # None)
        \/ waiting' = None /\ Raises(c)
        \/ Await(c, full[s], "starting")
    <3>1. BeginAdd(c, full[s]) => (waiting' = None /\ Raises(c)) \/ Await(c, full[s], "starting")
      BY <1>4, <2>1 DEF OpNames
    <3> QED BY <1>1, <1>9, <3>1 DEF SetEnabled
  <2>4. Moves(c) /\ KeepsOthers(c)
    <3>1. Moves(c)
      BY <2>1, <2>3 DEF Moves
    <3> QED BY <2>1, <2>2, <3>1 DEF KeepsOthers
  <2>5. {"add", "replace", "enable", "account"} \subseteq OpNames
    BY DEF OpNames
  <2>6. Good => Fed(s)'
    BY <1>1, <1>3, <2>2 DEF Fed
  <2>7. ASSUME Good, Good' PROVE UnderReload(s)' /\ AwaitInv'
    <3>1. UnderReload(s)
      BY <1>3, <2>7
    <3>2. CASE waiting' = None /\ Returns(c) /\ (n.enabled => runner[s] # None)
      <4>1. reload'.new = reload.new /\ \A o \in OpNames : Left(o, s)' <=> (Left(o, s) /\ o # "enable")
        BY <1>1, <2>5, <3>2, LeftAfter
      <4>2. UnderReload(s)'
        BY <1>1, <2>1, <2>2, <2>5, <3>1, <3>2, <4>1 DEF UnderReload, RunsAsLeft
      <4> QED BY <3>2, <4>2 DEF AwaitInv
    <3>3. CASE Await(c, full[s], "starting")
      <4>1. /\ reload' = reload /\ \A o : Left(o, s)' <=> Left(o, s)
            /\ waiting'.call = c /\ waiting'.entry = full[s] /\ waiting'.at = "starting"
        BY <1>5, <2>1, <2>5, <3>3
      <4>2. UnderReload(s)'
        BY <1>1, <2>1, <2>2, <3>1, <4>1 DEF UnderReload, RunsAsLeft
      <4>3. EntryFor(c)' = full[s]
        BY <1>1, <2>1 DEF EntryFor
      <4> QED BY <2>1, <4>1, <4>2, <4>3 DEF AwaitInv, EntryFor
    <3> QED BY <1>1, <2>3, <2>5, <2>7, <3>2, <3>3, LeftAfter
  <2> QED BY <1>1, <2>1, <2>4, <2>6, <2>7, CallKeeps
<1>10. ASSUME UpdateParams(s) PROVE JInv'
  <2> DEFINE c == Call("params", s)
  <2>1. Left("params", s) /\ c \in reload.todo /\ c.op = "params" /\ c.sid = s /\ reload.new[s] \in Entry
    BY <1>1, <1>2, <1>3, <1>10, LeftMeans DEF UpdateParams, OpNames
  <2>2. Moves(c) /\ KeepsOthers(c)
    <3>1. (waiting' = None /\ (Returns(c) \/ Raises(c))) \/ Await(c, reload.new[s], "updating")
      BY <1>1, <1>10 DEF UpdateParams
    <3>2. Moves(c)
      BY <2>1, <3>1 DEF Moves
    <3> QED BY <1>10, <3>2 DEF UpdateParams, KeepsOthers, strategyVars
  <2>3. ASSUME Good, Good' PROVE UnderReload(s)' /\ Fed(s)' /\ AwaitInv'
    <3>1. (waiting' = None /\ Returns(c)) \/ Await(c, reload.new[s], "updating")
      BY <1>1, <1>10, <2>3, LeftAfter DEF UpdateParams, OpNames
    <3>2. /\ reload'.new = reload.new
          /\ \A o \in OpNames \ {"params"} : Left(o, s)' <=> Left(o, s)
      BY <1>1, <1>5, <2>1, <3>1, LeftAfter DEF OpNames
    <3>3. UnderReload(s)'
      <4>1. {"add", "replace", "enable", "account"} \subseteq OpNames \ {"params"}
        BY DEF OpNames
      <4> QED BY <1>1, <1>3, <1>10, <2>3, <3>2, <4>1
            DEF UpdateParams, strategyVars, UnderReload, RunsAsLeft
    <3>4. Fed(s)'
      BY <1>1, <1>3, <1>10, <2>3 DEF UpdateParams, strategyVars, Fed
    <3>5. AwaitInv'
      BY <1>1, <1>5, <2>1, <3>1 DEF AwaitInv, EntryFor, OpNames
    <3> QED BY <3>3, <3>4, <3>5
  <2> QED BY <1>1, <2>1, <2>2, <2>3, CallKeeps
<1>11. ASSUME ChangeAccount(s) PROVE JInv'
  <2> DEFINE c == Call("account", s)
             n == reload.new[s]
  <2>1. Left("account", s) /\ c \in reload.todo /\ c.op = "account" /\ c.sid = s /\ n \in Entry
    BY <1>1, <1>2, <1>3, <1>11, LeftMeans DEF ChangeAccount, OpNames
  <2>2. ~Left("enable", s) /\ ~Left("replace", s)
    <3>1. ~Left("enable", s)
      <4>1. Rank["account"] = 5 /\ Rank["enable"] = 3
        BY DEF Rank, OpNames
      <4>2. InTurn(c)
        BY <1>11 DEF ChangeAccount, Calls
      <4>3. Call("enable", s).op = "enable" /\ Call("enable", s).sid = s
        BY <1>2 DEF OpNames
      <4> QED BY <2>1, <4>1, <4>2, <4>3 DEF InTurn, Left
    <3> QED BY <1>1, <2>1, <3>1, LeftMeans
  <2>3. /\ runner' = runner /\ ticking' = ticking
        /\ accounts \in [Strategies -> Accounts \cup {None}] /\ aggs \in [Feeds -> Nat]
    BY <1>11 DEF ChangeAccount, TypeOK
  <2>6. CASE n.account \notin Pool
    <3>1. Moves(c) /\ KeepsOthers(c) /\ ~Good'
      BY <1>1, <1>11, <2>1, <2>3, <2>6, LeftAfter DEF ChangeAccount, Moves, KeepsOthers, OpNames
    <3> QED BY <1>1, <2>1, <3>1, CallKeeps
  <2>4. CASE n.account \in Pool /\ runner[s] = None
    <3>1. Moves(c) /\ KeepsOthers(c) /\ Returns(c) /\ waiting' = None
      BY <1>1, <1>11, <2>1, <2>3, <2>4 DEF ChangeAccount, Moves, KeepsOthers
    <3>2. Good => UnderReload(s)' /\ Fed(s)' /\ AwaitInv'
      <4>1. /\ reload'.new = reload.new
            /\ \A o \in {"add", "replace", "enable"} : Left(o, s)' <=> Left(o, s)
        BY <1>1, <3>1, LeftAfter DEF OpNames
      <4>2. Good => UnderReload(s)'
        BY <1>1, <1>3, <2>2, <2>3, <2>4, <4>1 DEF UnderReload
      <4>3. Fed(s)' /\ AwaitInv'
        BY <2>3, <2>4, <3>1 DEF Fed, AwaitInv
      <4> QED BY <4>2, <4>3
    <3> QED BY <1>1, <2>1, <3>1, <3>2, CallKeeps
  <2>5. CASE n.account \in Pool /\ runner[s] # None
    <3>1. accounts' = [accounts EXCEPT ![s] = n.account] /\ Wire(c, n)
      BY <1>11, <2>5 DEF ChangeAccount
    <3>2. /\ accounts'[s] = n.account /\ \A t \in Strategies \ {s} : accounts'[t] = accounts[t]
          /\ n.account # None
      BY <2>1, <2>3, <3>1, LiveReloadAssumption DEF Entry
    <3>3. aggs'[FeedOf[s]] > 0 /\ \A f \in Feeds : aggs[f] > 0 => aggs'[f] > 0
      <4>1. FeedOf[s] \in Feeds
        BY LiveReloadAssumption
      <4>2. aggs' = [aggs EXCEPT ![FeedOf[s]] = @ + 1]
        BY <2>1, <3>1 DEF Wire
      <4> QED BY <2>3, <4>1, <4>2
    <3>4. Moves(c) /\ KeepsOthers(c)
      BY <2>1, <2>3, <3>1, <3>2, <3>3 DEF Wire, Moves, KeepsOthers
    <3>5. ASSUME Good, Good' PROVE UnderReload(s)' /\ Fed(s)' /\ AwaitInv'
      <4>1. Await(c, n, "subscribing")
        BY <1>1, <3>1, <3>5, LeftAfter DEF Wire, OpNames
      <4>2. /\ reload' = reload /\ \A o : Left(o, s)' <=> Left(o, s)
            /\ waiting'.call = c /\ waiting'.entry = n /\ waiting'.at = "subscribing" /\ waiting' # None
        <5>1. waiting' \in Wait
          BY <2>1, <4>1, WaitAfter, CallHasEntry, <1>1
        <5> QED BY <1>5, <2>1, <4>1, <5>1, LiveReloadAssumption DEF OpNames
      <4>3. UnderReload(s)
        BY <1>3, <3>5
      <4>4. UnderReload(s)'
        BY <1>1, <2>1, <2>2, <2>3, <4>2, <4>3 DEF UnderReload, RunsAsLeft
      <4>5. Fed(s)'
        BY <2>1, <3>2, <3>3, <4>2 DEF Fed
      <4>6. AwaitInv'
        <5>1. EntryFor(c)' = n /\ ~Left("enable", s)'
          BY <1>1, <2>1, <2>2, <4>2 DEF EntryFor
        <5>2. runner'[s] # None /\ runner'[s].code = n.code
          BY <2>1, <2>2, <2>3, <2>5, <4>3, LiveReloadAssumption DEF UnderReload, RunsAsLeft
        <5> QED BY <2>1, <3>2, <4>2, <5>1, <5>2 DEF AwaitInv, EntryFor
      <4> QED BY <4>4, <4>5, <4>6
    <3> QED BY <1>1, <2>1, <3>4, <3>5, CallKeeps
  <2> QED BY <2>4, <2>5, <2>6
<1> QED BY <1>6, <1>7, <1>8, <1>9, <1>10, <1>11

(* The calls that go on in this step.                                      *)
LEMMA ResumeKeeps ==
  ASSUME IInv, JInv, StopReturns \/ LockAcquired \/ OnStartReturns \/ SubscribeReplies
  PROVE  JInv'
<1> USE DEF IInv, Points
<1>1. PICK c \in CallRec, e \in Entry \cup {None} : c = waiting.call /\ e = waiting.entry
  BY DEF StopReturns, LockAcquired, OnStartReturns, SubscribeReplies, TypeOK, Wait
<1> DEFINE s == c.sid
           op == c.op
           n == reload.new[s]
<1>2. /\ waiting # None /\ reload # None /\ othersUnchanged /\ full' = full
      /\ c \in reload.todo /\ s \in Strategies /\ op \in OpNames
      /\ c = Call(op, s) /\ Left(op, s) /\ WaitOK(waiting, runner[s])
      /\ runner \in [Strategies -> Runner \cup {None}]
      /\ accounts \in [Strategies -> Accounts \cup {None}]
  <2>1. waiting # None /\ reload # None /\ othersUnchanged /\ full' = full /\ c \in reload.todo
    BY <1>1 DEF StopReturns, LockAcquired, OnStartReturns, SubscribeReplies, othersUnchanged, TypeOK
  <2>2. s \in Strategies /\ op \in OpNames /\ c = Call(op, s)
    BY DEF CallRec, Call
  <2> QED BY <1>1, <2>1, <2>2 DEF Left, WaitInv, TypeOK
<1>3. n \in Entry \cup {None} /\ full[s] \in Entry \cup {None}
  BY <1>2, LeftMeans
<1>4. Good => /\ UnderReload(s) /\ Fed(s)
              /\ waiting.at \in {"starting", "subscribing"} => e = EntryFor(c)
              /\ waiting.at = "subscribing" =>
                   runner[s] # None /\ runner[s].code = n.code /\ accounts[s] = e.account
              /\ op = "account" => ~Left("enable", s)
  BY <1>1, <1>2 DEF JInv, RunInv, FedInv, AwaitInv
<1>5. \A x \in Entry \cup {None}, at \in Points : Await(c, x, at) =>
        /\ reload' = reload /\ \A o : Left(o, s)' <=> Left(o, s)
        /\ waiting' # None /\ waiting'.call = c /\ waiting'.entry = x /\ waiting'.at = at
  <2> SUFFICES ASSUME NEW x \in Entry \cup {None}, NEW at \in Points, Await(c, x, at)
               PROVE  /\ reload' = reload /\ \A o : Left(o, s)' <=> Left(o, s)
                      /\ waiting' \in Wait /\ waiting'.call = c /\ waiting'.entry = x /\ waiting'.at = at
    BY LiveReloadAssumption
  <2> QED BY WaitAfter DEF Left
<1>6. /\ Returns(c) => /\ reload'.new = reload.new
                       /\ \A o \in OpNames : Left(o, s)' <=> (Left(o, s) /\ o # op)
      /\ Raises(c) => ~Good'
  BY <1>2, LeftAfter
<1>7. {"add", "replace", "enable", "account"} \subseteq OpNames
  BY DEF OpNames
<1> HIDE DEF s, op, n
<1>8. s = c.sid /\ op = c.op /\ n = reload.new[s]
  BY DEF s, op, n
<1>9. ASSUME StopReturns PROVE JInv'
  <2>1. /\ runner[s] = None /\ op \in {"remove", "replace"}
        /\ runner' = runner /\ aggs' = aggs /\ ticking' = ticking
        /\ accounts' = [accounts EXCEPT ![s] = None]
    BY <1>1, <1>2, <1>8, <1>9 DEF StopReturns, WaitOK
  <2>2. \/ waiting' = None /\ (Raises(c) \/ (Returns(c) /\ op = "remove"))
        \/ Await(c, n, "starting") /\ op = "replace"
    BY <1>1, <1>8, <1>9, <2>1 DEF StopReturns, BeginAdd
  <2>3. Moves(c)
    BY <1>3, <2>2 DEF Moves
  <2>4. KeepsOthers(c)
    BY <1>2, <1>8, <2>1 DEF KeepsOthers
  <2>5. ~Left("enable", s) /\ (op = "remove" => n = None)
    BY <1>2, <1>8, <2>1, LeftMeans
  <2>6. ASSUME Good' PROVE UnderReload(s)' /\ Fed(s)' /\ AwaitInv'
    <3>1. Fed(s)'
      BY <2>1 DEF Fed
    <3>2. CASE waiting' = None /\ Returns(c) /\ op = "remove"
      BY <1>6, <1>7, <1>8, <2>5, <3>1, <3>2 DEF UnderReload, AwaitInv
    <3>3. CASE Await(c, n, "starting") /\ op = "replace"
      <4>1. /\ reload' = reload /\ \A o : Left(o, s)' <=> Left(o, s)
            /\ waiting'.call = c /\ waiting'.entry = n /\ waiting'.at = "starting"
        BY <1>3, <1>5, <3>3
      <4>2. UnderReload(s)'
        BY <1>2, <2>1, <2>5, <3>3, <4>1 DEF UnderReload
      <4>3. EntryFor(c)' = n
        BY <1>8, <3>3, <4>1 DEF EntryFor
      <4> QED BY <1>8, <3>1, <3>3, <4>1, <4>2, <4>3 DEF AwaitInv, EntryFor
    <3> QED BY <1>6, <2>2, <2>6, <3>2, <3>3
  <2> QED BY <1>1, <1>2, <1>8, <2>3, <2>4, <2>6, CallKeeps
<1>10. ASSUME LockAcquired PROVE JInv'
  <2>1. /\ runner[s] # None /\ op = "params" /\ waiting' = None /\ Returns(c)
        /\ runner' = [runner EXCEPT ![s] = [@ EXCEPT !.params = e.params]]
        /\ accounts' = accounts /\ aggs' = aggs /\ ticking' = ticking /\ waiting.at = "updating"
    BY <1>1, <1>2, <1>8, <1>10 DEF LockAcquired, WaitOK
  <2>2. runner'[s] # None /\ runner'[s].code = runner[s].code
    <3>1. runner[s] \in Runner /\ e.params \in Params \ Invalid
      BY <1>1, <1>2, <2>1 DEF WaitOK, Entry
    <3>2. \A r \in Runner, p \in Params \ Invalid : /\ [r EXCEPT !.params = p] \in Runner
                                                    /\ [r EXCEPT !.params = p].code = r.code
      BY DEF Runner
    <3>3. runner'[s] = [runner[s] EXCEPT !.params = e.params]
      BY <1>2, <1>8, <2>1
    <3> QED BY <3>1, <3>2, <3>3, LiveReloadAssumption
  <2>3. Moves(c)
    BY <2>1 DEF Moves
  <2>4. KeepsOthers(c)
    BY <1>2, <1>8, <2>1 DEF KeepsOthers
  <2>5. ASSUME Good PROVE UnderReload(s)' /\ Fed(s)' /\ AwaitInv'
    <3>1. \A o \in {"add", "replace", "enable", "account"} : Left(o, s)' <=> Left(o, s)
      BY <1>6, <1>7, <2>1
    <3>2. UnderReload(s)'
      BY <1>2, <1>4, <1>6, <2>1, <2>2, <2>5, <3>1 DEF UnderReload, RunsAsLeft
    <3>3. Fed(s)'
      BY <1>4, <2>1, <2>2, <2>5 DEF Fed
    <3> QED BY <2>1, <3>2, <3>3 DEF AwaitInv
  <2> QED BY <1>1, <1>2, <1>8, <2>3, <2>4, <2>5, CallKeeps
<1>11. ASSUME OnStartReturns PROVE JInv'
  <2>1. /\ op \in {"add", "replace", "enable"} /\ e \in Entry /\ e.params \notin Invalid
        /\ waiting.at = "starting" /\ ticking' = ticking /\ Wire(c, e)
        /\ runner' = [runner EXCEPT ![s] = [code |-> e.code, params |-> e.params, paused |-> FALSE]]
        /\ accounts' = [accounts EXCEPT ![s] = e.account]
    BY <1>1, <1>2, <1>8, <1>11 DEF OnStartReturns, WaitOK
  <2>2. runner'[s] # None /\ runner'[s].code = e.code /\ accounts'[s] = e.account /\ e.account # None
    <3>1. runner'[s] \in Runner /\ runner'[s].code = e.code
      BY <1>2, <1>8, <2>1 DEF Runner, Entry
    <3> QED BY <1>2, <1>8, <2>1, <3>1, LiveReloadAssumption DEF Entry
  <2>3. aggs'[FeedOf[s]] > 0 /\ \A f \in Feeds : aggs[f] > 0 => aggs'[f] > 0
    <3>1. FeedOf[s] \in Feeds /\ aggs \in [Feeds -> Nat]
      BY <1>2, <1>8, LiveReloadAssumption DEF TypeOK
    <3>2. aggs' = [aggs EXCEPT ![FeedOf[s]] = @ + 1]
      BY <1>8, <2>1 DEF Wire
    <3> QED BY <3>1, <3>2
  <2>4. Await(c, e, "subscribing") \/ (waiting' = None /\ Raises(c))
    BY <2>1 DEF Wire
  <2>5. Moves(c)
    BY <2>4 DEF Moves
  <2>6. KeepsOthers(c)
    BY <1>2, <1>8, <2>1, <2>3 DEF KeepsOthers
  <2>7. ASSUME Good, Good' PROVE UnderReload(s)' /\ Fed(s)' /\ AwaitInv'
    <3>1. /\ reload' = reload /\ \A o : Left(o, s)' <=> Left(o, s)
          /\ waiting' # None /\ waiting'.call = c /\ waiting'.entry = e /\ waiting'.at = "subscribing"
      BY <1>5, <1>6, <2>4, <2>7
    <3>2. e = EntryFor(c) /\ UnderReload(s)
      BY <1>4, <2>1, <2>7
    <3>3. /\ op = "enable" => /\ e = full[s] /\ e.code = n.code
                              /\ ~Left("account", s) => e.account = n.account
          /\ op # "enable" => e = n
          /\ n # None
      BY <1>2, <1>8, <2>1, <3>2, LeftMeans DEF EntryFor, UnderReload
    <3>4. UnderReload(s)'
      BY <1>2, <1>8, <2>2, <3>1, <3>2, <3>3 DEF UnderReload, RunsAsLeft
    <3>5. Fed(s)'
      BY <1>8, <2>2, <2>3, <3>1 DEF Fed
    <3>6. EntryFor(c)' = e
      BY <1>2, <3>1, <3>2 DEF EntryFor
    <3>7. AwaitInv'
      BY <1>8, <2>1, <2>2, <3>1, <3>3, <3>6 DEF AwaitInv, EntryFor
    <3> QED BY <3>4, <3>5, <3>7
  <2> QED BY <1>1, <1>2, <1>8, <2>5, <2>6, <2>7, CallKeeps
<1>12. ASSUME SubscribeReplies PROVE JInv'
  <2>1. /\ waiting.at = "subscribing" /\ e \in Entry /\ waiting' = None
        /\ runner' = runner /\ accounts' = accounts /\ aggs' = aggs
        /\ \/ Returns(c) /\ ticking' = [ticking EXCEPT ![BrokerOf(e.account)] = @ \cup {FeedOf[s]}]
           \/ Raises(c) /\ ticking' = ticking
    BY <1>1, <1>2, <1>8, <1>12 DEF SubscribeReplies, BrokerOf, WaitOK
  <2>2. ticking \in [Pool -> SUBSET Feeds] /\ BrokerOf(e.account) \in Pool
    BY LiveReloadAssumption DEF TypeOK, BrokerOf
  <2>3. Moves(c)
    BY <2>1 DEF Moves
  <2>4. KeepsOthers(c)
    BY <2>1, <2>2 DEF KeepsOthers
  <2>5. ASSUME Good, Good' PROVE UnderReload(s)' /\ Fed(s)' /\ AwaitInv'
    <3>1. Returns(c) /\ ticking' = [ticking EXCEPT ![BrokerOf(e.account)] = @ \cup {FeedOf[s]}]
      BY <1>6, <2>1, <2>5
    <3>2. reload'.new = reload.new /\ \A o \in OpNames : Left(o, s)' <=> (Left(o, s) /\ o # op)
      BY <1>6, <3>1
    <3>3. /\ UnderReload(s) /\ Fed(s) /\ runner[s] # None /\ runner[s].code = n.code
          /\ accounts[s] = e.account /\ e = EntryFor(c) /\ (op = "account" => ~Left("enable", s))
      BY <1>4, <2>1, <2>5
    <3>4. op # "enable" => e = n
      BY <1>8, <3>3 DEF EntryFor
    <3>5. UnderReload(s)'
      BY <1>2, <1>7, <1>8, <2>1, <3>2, <3>3, <3>4 DEF UnderReload, RunsAsLeft
    <3>6. Fed(s)'
      BY <2>1, <2>2, <3>1, <3>3 DEF Fed
    <3> QED BY <2>1, <3>5, <3>6 DEF AwaitInv
  <2> QED BY <1>1, <1>2, <1>8, <2>3, <2>4, <2>5, CallKeeps
<1> QED BY <1>9, <1>10, <1>11, <1>12

(* The watcher, the operator and the brokers change no entry, account or   *)
(* subscription.                                                           *)
LEMMA QuietKeeps ==
  ASSUME IInv, JInv,
         \/ Edit \/ Notify \/ SleepAgain \/ LoadFails
         \/ \E s \in Strategies : PauseOrResume(s)
         \/ \E a \in Pool : BrokerDrops(a) \/ BrokerReconnects(a)
         \/ UNCHANGED vars
  PROVE  JInv'
<1>1. /\ UNCHANGED <<full, reload, waiting, flawed>>
      /\ UNCHANGED <<accounts, aggs, ticking>>
  BY DEF Edit, Notify, SleepAgain, LoadFails, PauseOrResume, BrokerDrops, BrokerReconnects, vars,
         strategyVars
<1>2. \A t \in Strategies : /\ runner'[t] = None <=> runner[t] = None
                            /\ runner[t] # None => runner'[t].code = runner[t].code
  <2>1. CASE \E s \in Strategies : PauseOrResume(s)
    <3>1. PICK s \in Strategies : PauseOrResume(s)
      BY <2>1
    <3> QED BY <3>1, PauseIs DEF IInv
  <2>2. CASE UNCHANGED runner
    BY <2>2
  <2> QED BY <2>1, <2>2 DEF Edit, Notify, SleepAgain, LoadFails, BrokerDrops, BrokerReconnects, vars,
                           strategyVars
<1>3. (Good' <=> Good) /\ \A op, s : Left(op, s)' <=> Left(op, s)
  BY <1>1 DEF Good, Left
<1>4. RunInv'
  <2>1. \A s \in Strategies : RunsAs(s, full[s]) => RunsAs(s, full[s])'
    BY <1>1, <1>2 DEF RunsAs
  <2>2. \A s \in Strategies : UnderReload(s) => UnderReload(s)'
    BY <1>1, <1>2, <1>3 DEF UnderReload, RunsAsLeft
  <2> QED BY <1>1, <1>3, <2>1, <2>2 DEF JInv, RunInv
<1>5. FedInv'
  <2>1. \A s \in Strategies : Fed(s) => Fed(s)'
    BY <1>1, <1>2 DEF Fed
  <2> QED BY <1>3, <2>1 DEF JInv, FedInv
<1>6. AwaitInv'
  <2> SUFFICES ASSUME Good, waiting # None PROVE AwaitInv'
    BY <1>1, <1>3 DEF AwaitInv
  <2>1. waiting.call.sid \in Strategies
    BY DEF IInv, TypeOK, Wait, CallRec
  <2> QED BY <1>1, <1>2, <1>3, <2>1 DEF JInv, AwaitInv, EntryFor
<1>7. FreshInv'
  BY <1>1 DEF JInv, FreshInv, Wanted
<1> QED BY <1>4, <1>5, <1>6, <1>7 DEF JInv

(* A reload starts with everything left that differs.                      *)
LEMMA LoadKeeps ==
  ASSUME IInv, JInv, Load
  PROVE  JInv'
<1>1. /\ file \in Config /\ reload = None /\ waiting = None /\ reload' # None
      /\ UNCHANGED <<full, waiting, flawed>> /\ UNCHANGED <<runner, accounts, aggs, ticking>>
      /\ reload'.new = file /\ reload'.todo = Wanted(full, file) /\ ~reload'.failed
  <2>1. file \in Config /\ reload = None /\ waiting = None
    BY DEF Load, IInv, TypeOK
  <2>2. reload' \in Reload /\ reload'.new = file /\ reload'.todo = Wanted(full, file) /\ ~reload'.failed
    BY <2>1 DEF Load, Reload, Wanted
  <2> QED BY <2>1, <2>2, LiveReloadAssumption DEF Load, strategyVars
<1>2. Good' => Good
  BY <1>1 DEF Good
<1>3. ASSUME Good, NEW s \in Strategies PROVE UnderReload(s)' /\ Fed(s)'
  <2> DEFINE o == full[s]
  <2> PICK n \in Entry \cup {None} : n = file[s]
    BY <1>1 DEF Config
  <2>1. RunsAs(s, o) /\ Fed(s)
    BY <1>1, <1>3 DEF JInv, RunInv, FedInv
  <2>2. \A op \in OpNames : Left(op, s)' <=> Wants(op, o, n)
    BY <1>1 DEF Left, Call, Wanted, CallRec
  <2>3. o \in Entry \cup {None} /\ n \in Entry \cup {None} /\ None \notin Entry
    BY <1>1, LiveReloadAssumption DEF IInv, TypeOK, Config
  <2>4. {"add", "replace", "enable", "account"} \subseteq OpNames
    BY DEF OpNames
  <2>5. o = None => runner[s] = None
    BY <2>1 DEF RunsAs
  <2>6. (n # None /\ runner[s] # None) => RunsAsLeft(s, n)'
    <3> SUFFICES ASSUME n # None, runner[s] # None PROVE RunsAsLeft(s, n)'
      OBVIOUS
    <3>1. o # None /\ runner[s].code = o.code /\ accounts[s] = o.account
      BY <2>1, <2>5 DEF RunsAs
    <3>2. ~Left("replace", s)' => runner[s].code = n.code
      BY <2>2, <2>3, <2>4, <3>1 DEF Wants
    <3>3. (~Left("replace", s)' /\ ~Left("account", s)') => accounts[s] = n.account
      BY <2>2, <2>3, <2>4, <3>1 DEF Wants
    <3> QED BY <1>1, <3>2, <3>3 DEF RunsAsLeft
  <2>7. (n # None /\ n.enabled /\ ~Left("add", s)' /\ ~Left("replace", s)' /\ ~Left("enable", s)') =>
          runner[s] # None
    BY <2>1, <2>2, <2>3, <2>4 DEF RunsAs, Wants, Entry
  <2>8. (Left("enable", s)' /\ ~Left("account", s)') => o.account = n.account
    BY <2>2, <2>3, <2>4 DEF Wants
  <2>9. UnderReload(s)'
    <3>1. full' = full /\ runner' = runner /\ reload'.new[s] = n
      BY <1>1
    <3>2. RunsAsLeft(s, reload.new[s])' <=> RunsAsLeft(s, n)'
      BY <3>1 DEF RunsAsLeft
    <3> QED BY <2>6, <2>7, <2>8, <3>1, <3>2 DEF UnderReload
  <2>10. Fed(s)'
    BY <1>1, <2>1 DEF Fed
  <2> QED BY <2>9, <2>10
<1>4. FreshInv' /\ AwaitInv'
  BY <1>1 DEF FreshInv, AwaitInv, Wanted
<1> QED BY <1>1, <1>2, <1>3, <1>4 DEF JInv, RunInv, FedInv

(* It ends with nothing left: what runs is what the entries say that are   *)
(* in force now.                                                           *)
LEMMA FinishKeeps ==
  ASSUME IInv, JInv, Finish
  PROVE  JInv'
<1>1. /\ reload \in Reload /\ reload # None /\ waiting = None /\ reload.todo = {}
      /\ full' = (IF ~reload.failed /\ reload.applied THEN reload.new ELSE full)
      /\ flawed' = (flawed \/ reload.failed) /\ reload' = None
      /\ UNCHANGED waiting /\ UNCHANGED <<runner, accounts, aggs, ticking>>
  BY DEF Finish, InForce, strategyVars, IInv, TypeOK
<1>2. Good' => Good /\ ~flawed /\ ~reload.failed
  BY <1>1 DEF Good
<1>3. ASSUME Good, ~flawed, ~reload.failed, NEW s \in Strategies PROVE RunsAs(s, full[s])' /\ Fed(s)'
  <2> DEFINE o == full[s]
             n == reload.new[s]
  <2>1. UnderReload(s) /\ Fed(s) /\ \A op : ~Left(op, s)
    BY <1>1, <1>3 DEF JInv, RunInv, FedInv, Left
  <2>2. n = None => runner[s] = None
    BY <1>1, <1>3 DEF IInv, InForceInv
  <2>3. RunsAs(s, n)
    BY <2>1, <2>2 DEF UnderReload, RunsAsLeft, RunsAs
  <2>4. ASSUME ~reload.applied PROVE RunsAs(s, o)
    <3>1. \A op \in OpNames : ~Wants(op, o, n)
      <4>1. Wanted(full, reload.new) = {}
        BY <1>1, <1>3, <2>4 DEF JInv, FreshInv
      <4>2. \A op \in OpNames : Call(op, s) \in CallRec /\ Call(op, s).op = op /\ Call(op, s).sid = s
        BY DEF Call, CallRec
      <4> QED BY <4>1, <4>2 DEF Wanted
    <3>2. o \in Entry \cup {None} /\ n \in Entry \cup {None}
      BY <1>1 DEF IInv, TypeOK, Config, Reload
    <3>3. o = None => runner[s] = None
      BY <1>1, <1>3, <2>1, <2>4 DEF IInv, InForceInv, Left
    <3>4. CASE o # None
      <4>1. n # None /\ o.code = n.code /\ o.enabled = n.enabled /\ o.account = n.account
        BY <3>1, <3>2, <3>4 DEF Wants, OpNames, Entry
      <4> QED BY <2>3, <3>4, <4>1 DEF RunsAs
    <3> QED BY <3>3, <3>4 DEF RunsAs
  <2>5. RunsAs(s, full[s])'
    <3>1. RunsAs(s, full'[s])
      BY <1>1, <1>3, <2>3, <2>4
    <3> QED BY <1>1, <3>1 DEF RunsAs
  <2>6. Fed(s)'
    BY <1>1, <2>1 DEF Fed
  <2> QED BY <2>5, <2>6
<1>4. FreshInv' /\ AwaitInv'
  BY <1>1 DEF FreshInv, AwaitInv
<1> QED BY <1>1, <1>2, <1>3, <1>4 DEF JInv, RunInv, FedInv

(* setup() starts what is enabled and wires what it starts.                *)
LEMMA InitRuns == Init => JInv
<1> SUFFICES ASSUME Init PROVE JInv
  OBVIOUS
<1> USE LiveReloadAssumption
<1>1. full \in Config /\ reload = None /\ waiting = None
  BY DEF Init
<1>2. ASSUME NEW s \in Strategies PROVE RunsAs(s, full[s]) /\ Fed(s)
  <2>1. full[s] \in Entry \cup {None}
    BY <1>1 DEF Config
  <2>2. runner[s] # None <=> (full[s] # None /\ full[s].enabled)
    <3>1. runner[s] = IF full[s] # None /\ full[s].enabled
                      THEN [code |-> full[s].code, params |-> full[s].params, paused |-> FALSE]
                      ELSE None
      BY DEF Init
    <3>2. runner \in [Strategies -> Runner \cup {None}]
      BY InitInv DEF IInv, TypeOK
    <3>3. (full[s] # None /\ full[s].enabled) =>
            [code |-> full[s].code, params |-> full[s].params, paused |-> FALSE] # None
      <4> SUFFICES ASSUME full[s] # None, full[s].params \notin Invalid
                   PROVE  [code |-> full[s].code, params |-> full[s].params, paused |-> FALSE] \in Runner
        BY DEF Init
      <4> QED BY <2>1 DEF Runner, Entry
    <3> QED BY <3>1, <3>3
  <2>3. runner[s] # None => runner[s].code = full[s].code
    BY <2>2 DEF Init
  <2>4. full[s] # None => accounts[s] = full[s].account
    BY DEF Init
  <2>5. ASSUME runner[s] # None PROVE FeedOf[s] \in ticking[BrokerOf(accounts[s])] /\ aggs[FeedOf[s]] > 0
    <3> DEFINE Runs(t) == full[t] # None /\ full[t].enabled
               Used(a) == {FeedOf[t] : t \in {t \in Strategies : Runs(t) /\ full[t].account = a}}
               polls == {a \in Pool : FeedOf[s] \in Used(a)}
    <3>1. full[s].account \in Pool /\ FeedOf[s] \in Feeds /\ FeedOf[s] \in Used(full[s].account)
      BY <2>1, <2>2, <2>5 DEF Entry, Init
    <3>2. ticking = [a \in Pool |-> Used(a)]
      BY DEF Init
    <3>3. aggs[FeedOf[s]] = Cardinality(polls)
      BY <3>1 DEF Init
    <3>4. IsFiniteSet(polls) /\ Cardinality(polls) \in Nat /\ (Cardinality(polls) = 0 <=> polls = {})
      BY FS_Subset, FS_CardinalityType, FS_EmptySet
    <3> HIDE DEF Used
    <3>5. Cardinality(polls) > 0
      BY <3>1, <3>4
    <3>6. BrokerOf(accounts[s]) = full[s].account
      BY <2>2, <2>4, <2>5, <3>1 DEF BrokerOf
    <3> QED BY <3>1, <3>2, <3>3, <3>5, <3>6
  <2> QED BY <2>1, <2>2, <2>3, <2>4, <2>5 DEF RunsAs, Fed, Entry
<1> QED BY <1>1, <1>2 DEF JInv, RunInv, FedInv, AwaitInv, FreshInv

LEMMA StepRuns == IInv /\ JInv /\ [Next]_vars => JInv'
<1> SUFFICES ASSUME IInv, JInv, [Next]_vars PROVE JInv'
  OBVIOUS
<1>1. CASE Watch \/ Edit
  BY <1>1, QuietKeeps, LoadKeeps, FinishKeeps DEF Watch
<1>2. CASE Apply
  BY <1>2, BeginKeeps, ResumeKeeps DEF Apply
<1>3. CASE \/ \E s \in Strategies : PauseOrResume(s)
           \/ \E a \in Pool : BrokerDrops(a) \/ BrokerReconnects(a)
           \/ UNCHANGED vars
  BY <1>3, QuietKeeps
<1> QED BY <1>1, <1>2, <1>3 DEF Next

(* Between reloads that went well, every enabled strategy of full_cfg runs *)
(* with its class and its account, no strategy that left it does, and the  *)
(* broker that gets its signals polls its feed, also where the account is  *)
(* not in the pool: whatever the edits, in whatever order the calls of a   *)
(* reload run, and whatever drops or pauses while they wait.               *)
THEOREM RunsAndFed == Spec => []InForceAndFed
<1>1. IInv /\ JInv => InForceAndFed
  <2> SUFFICES ASSUME IInv, JInv, reload = None, ~flawed, NEW s \in Strategies
               PROVE  /\ full[s] = None => runner[s] = None
                      /\ (full[s] # None /\ full[s].enabled) =>
                           /\ runner[s] # None /\ runner[s].code = full[s].code
                           /\ accounts[s] = full[s].account
                      /\ runner[s] # None => /\ aggs[FeedOf[s]] > 0
                                                /\ FeedOf[s] \in ticking[BrokerOf(accounts[s])]
    BY DEF InForceAndFed, RunsWhatIsInForce, FedByItsBroker
  <2>1. RunsAs(s, full[s]) /\ Fed(s) /\ waiting = None
    BY DEF JInv, RunInv, FedInv, Good, IInv, TypeOK
  <2> QED BY <2>1 DEF RunsAs, Fed
<1>2. Spec => []JInv
  BY InitRuns, StepRuns, IInvHolds, PTL DEF Spec
<1> QED BY <1>1, <1>2, IInvHolds, PTL
===============================================================================
