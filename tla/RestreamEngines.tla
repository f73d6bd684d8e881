--------------------------- MODULE RestreamEngines ---------------------------
(***************************************************************************)
(* Proof that every ffmpeg process the supervisor of Restream.tla runs has *)
(* a playout port for each playout input (RunningHavePorts), and that no   *)
(* step starts an engine for an invalid task (EnginesStartValid), for     *)
(* every set of ids, callers and ports.  A task is started only while it  *)
(* is valid, and a valid task holds all its ports (ValidTaskPorts); an    *)
(* engine outlives its task's validity only across a failed reload, which *)
(* keeps the ports or draws all of them again from a pool that holds the  *)
(* task's own.                                                             *)
(***************************************************************************)
EXTENDS RestreamPorts, RestreamRefinement

\* The engine of t runs only with a port for every playout input.
RunsFull(t) == t.engine = "start" => Cardinality(t.playout) = t.cfg.playout

\* Every task of the registry whose engine runs holds all its ports.
RunFull == \A i \in Ids : tasks[i] # NoTask => RunsFull(tasks[i])

\* The inductive invariant behind RunningHavePorts and EnginesStartValid.
EInv == VInv /\ LoadingIdle /\ RunFull

\* The step condition of EnginesStartValid.
StepValid == \A id \in Ids : RunsAfter(id) => tasks'[id].valid \/ KeptRunning(id)


-----------------------------------------------------------------------------
(* Lemmas on one entry of the registry.                                    *)

\* A step that writes only entry id of the registry meets StepValid if the
\* entry it writes does: the other engines run on as they did.
LEMMA WriteEntry ==
  ASSUME tasks \in [Ids -> Task \cup {NoTask}], NEW id \in Ids, NEW x,
         tasks' = [tasks EXCEPT ![id] = x],
         (x # NoTask /\ x.engine = "start") => x.valid \/ KeptRunning(id)
  PROVE  StepValid
BY DEF StepValid, RunsAfter, KeptRunning

\* setPlayoutPorts draws all k ports from a finite pool that holds k
\* ports already (reloadProcess: the task's own, released first).
LEMMA GrabAll ==
  ASSUME NEW pool, IsFiniteSet(pool), NEW H \in SUBSET pool, NEW k,
         Cardinality(H) = k, NEW S \in Grab(k, pool)
  PROVE  Cardinality(S) = k
<1>1. Cardinality(H) <= Cardinality(pool) /\ Cardinality(H) \in Nat
  BY FS_Subset, FS_CardinalityType
<1>2. Cardinality(pool) \in Nat
  BY FS_CardinalityType
<1>3. QED
  BY <1>1, <1>2 DEF Grab

-----------------------------------------------------------------------------
(* StepValid, action by action.                                            *)

\* The steps that leave the registry alone.
LEMMA QuietValid ==
  ASSUME \/ \E c \in Clients, cfg \in Configs : AddBuild(c, cfg)
         \/ StartBegin \/ StartEnd \/ DiskFill \/ DiskFree \/ LoadEnd
         \/ \E e \in 1..MaxStarts : ObserverTick(e) \/ ObserverExit(e)
         \/ UNCHANGED vars
  PROVE  StepValid
<1>1. tasks' = tasks
  BY DEF AddBuild, StartBegin, StartEnd, DiskFill, DiskFree, LoadEnd,
         ObserverTick, ObserverExit, vars
<1>2. QED
  BY <1>1 DEF StepValid, RunsAfter, KeptRunning

\* startProcess starts only a valid task (Start()'s loop and StartProcess
\* call it); stopProcess either stops the engine or leaves the task be.
LEMMA StartStopValid ==
  ASSUME IInv,
         \E id \in Ids : StartStep(id) \/ StartProcess(id) \/ StopProcess(id)
  PROVE  StepValid
<1>1. PICK id \in Ids : StartStep(id) \/ StartProcess(id) \/ StopProcess(id)
  OBVIOUS
<1> DEFINE t == tasks[id]
<1>2. tasks \in [Ids -> Task \cup {NoTask}] /\ t \in Task
  BY <1>1, NoTaskAssumption
     DEF IInv, TypeOK, StartStep, StartProcess, StopProcess, Registered, Has
<1>3. CASE tasks' = tasks
  BY <1>3 DEF StepValid, RunsAfter, KeptRunning
<1>4. CASE t.valid /\ tasks' = [tasks EXCEPT ![id] = Started(t)]
  BY <1>2, <1>4, WriteEntry DEF Started, Task
<1>5. CASE tasks' = [tasks EXCEPT ![id] = StopProc(t)]
  <2>1. StopProc(t).engine = "start" => StopProc(t) = t
    BY <1>2 DEF StopProc, Stopped, Task
  <2>2. QED
    BY <1>2, <1>5, <2>1, WriteEntry DEF KeptRunning
<1>6. QED
  BY <1>1, <1>3, <1>4, <1>5 DEF StartStep, StartProcess, StopProcess, MayStart

\* Stop() and the observer's sweep stop engines and start none.
LEMMA StopAllValid ==
  ASSUME IInv, Stop \/ \E e \in 1..MaxStarts : ObserverSweep(e)
  PROVE  StepValid
<1> SUFFICES ASSUME NEW i \in Ids, RunsAfter(i)
             PROVE  tasks'[i].valid \/ KeptRunning(i)
  BY DEF StepValid
<1>1. \/ tasks'[i] = tasks[i]
      \/ tasks'[i].engine = "stop"
  <2>1. tasks[i] # NoTask => tasks[i] \in Task
    BY DEF IInv, TypeOK
  <2>2. QED
    BY <2>1 DEF Stop, ObserverSweep, Stopped, Registered, Has, Task
<1>2. QED
  BY <1>1 DEF RunsAfter, KeptRunning

\* AddProcess registers the parked build stopped, or started by
\* startProcess, which requires the build to be valid.
LEMMA AddInsertValid ==
  ASSUME IInv, NEW c \in Clients, AddInsert(c)
  PROVE  StepValid
<1> DEFINE t  == pending[c]
           id == t.cfg.id
<1>1. /\ tasks \in [Ids -> Task \cup {NoTask}]
      /\ t \in Task /\ id \in Ids /\ t.engine = "stop"
  BY NoTaskAssumption, TaskFields DEF IInv, TypeOK, AddInsert
<1>2. \/ tasks' = tasks
      \/ t.valid /\ tasks' = [tasks EXCEPT ![id] = Started(t)]
      \/ tasks' = [tasks EXCEPT ![id] = t]
  BY DEF AddInsert, MayStart
<1>3. CASE tasks' = tasks
  BY <1>3 DEF StepValid, RunsAfter, KeptRunning
<1>4. CASE t.valid /\ tasks' = [tasks EXCEPT ![id] = Started(t)]
  BY <1>1, <1>4, WriteEntry DEF Started, Task
<1>5. CASE tasks' = [tasks EXCEPT ![id] = t]
  BY <1>1, <1>5, WriteEntry
<1>6. QED
  BY <1>2, <1>3, <1>4, <1>5

\* DeleteProcess removes a task and starts nothing.
LEMMA DeleteValid ==
  ASSUME IInv, NEW id \in Ids, DeleteProcess(id)
  PROVE  StepValid
BY WriteEntry DEF DeleteProcess, IInv, TypeOK

\* New() creates every task with a nil engine handle.
LEMMA RestartValid ==
  ASSUME ProgramRestart
  PROVE  StepValid
BY DEF ProgramRestart, Loaded, StepValid, RunsAfter

\* load() validates a task whose engine is not running (LoadingIdle) and
\* gives it a stopped engine or none.
LEMMA LoadStepValid ==
  ASSUME RInv, NEW id \in Ids, LoadStep(id)
  PROVE  StepValid
<1> DEFINE t == tasks[id]
<1>1. /\ tasks \in [Ids -> Task \cup {NoTask}] /\ t \in Task
      /\ t.engine # "start"
  BY NoTaskAssumption
     DEF RInv, IInv, TypeOK, LoadStep, LoadingIdle, Running, Registered, Has
<1>2. CASE tasks' = tasks
  BY <1>2 DEF StepValid, RunsAfter, KeptRunning
<1>3. CASE \E S \in SUBSET Ports :
             tasks' = [tasks EXCEPT ![id] =
                  IF PortsOk(S, t.cfg.playout)
                    THEN [t EXCEPT !.usesDisk = t.cfg.disk, !.playout = S,
                                   !.parser = TRUE, !.engine = "stop",
                                   !.valid = TRUE]
                    ELSE [t EXCEPT !.usesDisk = t.cfg.disk, !.playout = S]]
  BY <1>1, <1>3, WriteEntry DEF Task
<1>4. QED
  <2>1. \A S \in Grab(t.cfg.playout, free) : S \in SUBSET Ports
    BY GrabSubset DEF RInv, IInv, TypeOK
  <2>2. QED
    BY <1>2, <1>3, <2>1 DEF LoadStep

\* UpdateProcess installs the valid task createTask built, started or not,
\* and removes the old one.
LEMMA UpdateValid ==
  ASSUME IInv, NEW id \in Ids, NEW cfg \in Configs, UpdateProcess(id, cfg)
  PROVE  StepValid
<1>1. PICK S \in Grab(cfg.playout, free) : UpdateWith(id, cfg, S)
  BY DEF UpdateProcess
<1> DEFINE old == tasks[id]
           nid == cfg.id
           n1  == nProc - StopDelta(old)
           nt  == [NewTask(cfg, S) EXCEPT !.order = old.order]
           go  == nt.order = "start" /\ MayStart(nt, n1)
           ne  == IF go THEN Started(nt) ELSE nt
<1>2. CASE tasks' = tasks
  BY <1>2 DEF StepValid, RunsAfter, KeptRunning
<1>3. CASE tasks' = [[tasks EXCEPT ![id] = NoTask] EXCEPT ![nid] = ne]
  <2>1. nid \in Ids /\ tasks \in [Ids -> Task \cup {NoTask}]
    BY ConfigsAssumption DEF ConfigRec, IInv, TypeOK
  <2>2. ne.valid
    BY DEF NewTask, Started
  <2>3. QED
    BY <1>3, <2>1, <2>2 DEF StepValid, RunsAfter, KeptRunning
<1>4. QED
  BY <1>1, <1>2, <1>3 DEF UpdateWith

\* ReloadProcess: a reference error keeps the engine and its ports; a
\* successful reload builds a valid task; a GetPort error cannot hit a
\* running engine, whose ports are back in the pool setPlayoutPorts draws
\* from (unsetPlayoutPorts first), so the pool holds enough of them.
LEMMA ReloadValid ==
  ASSUME EInv, NEW id \in Ids, ReloadProcess(id)
  PROVE  StepValid
<1> DEFINE t == tasks[id]
<1>1. /\ tasks \in [Ids -> Task \cup {NoTask}] /\ t \in Task
      /\ RunsFull(t) /\ free \subseteq Ports
  BY NoTaskAssumption
     DEF ReloadProcess, Has, EInv, VInv, IInv, TypeOK, RunFull
<1>2. CASE RefFails(t.cfg, tasks)
  <2>1. tasks' = [tasks EXCEPT ![id] = [t EXCEPT !.valid = FALSE]]
    BY <1>2 DEF ReloadProcess
  <2> DEFINE x == [t EXCEPT !.valid = FALSE]
  <2>2. x.engine = t.engine /\ x.playout = t.playout /\ x.cfg = t.cfg
    BY <1>1 DEF Task
  <2>3. (x # NoTask /\ x.engine = "start") => KeptRunning(id)
    BY <1>1, <2>1, <2>2, NoTaskAssumption DEF KeptRunning
  <2>4. QED
    BY <1>1, <2>1, <2>3, WriteEntry
<1>3. CASE ~RefFails(t.cfg, tasks)
  <2>1. PICK S \in Grab(t.cfg.playout, free \cup t.playout) : ReloadWith(id, S)
    BY <1>3 DEF ReloadProcess
  <2> DEFINE was == t.order = "start"
             t1  == [t EXCEPT !.valid = FALSE, !.usesDisk = t.cfg.disk,
                              !.playout = S]
             t2  == IF was THEN StopProc(t1) ELSE t1
             n2  == nProc - (IF was THEN StopDelta(t1) ELSE 0)
             t3  == [t2 EXCEPT !.parser = TRUE, !.engine = "stop",
                               !.valid = TRUE]
             go  == was /\ MayStart(t3, n2)
  <2>2. \/ ~PortsOk(S, t.cfg.playout) /\ tasks' = [tasks EXCEPT ![id] = t1]
        \/ tasks' = [tasks EXCEPT ![id] = IF go THEN Started(t3) ELSE t3]
    BY <2>1 DEF ReloadWith
  <2>3. t.engine = "start" => PortsOk(S, t.cfg.playout)
    <3>1. IsFiniteSet(free \cup t.playout)
      BY <1>1, PortsAssumption, TaskFields, FS_Subset
    <3>2. t.engine = "start" => Cardinality(t.playout) = t.cfg.playout
      BY <1>1 DEF RunsFull
    <3>3. QED
      BY <3>1, <3>2, GrabAll DEF PortsOk
  <2>4. CASE ~PortsOk(S, t.cfg.playout) /\ tasks' = [tasks EXCEPT ![id] = t1]
    BY <1>1, <2>3, <2>4, WriteEntry DEF Task
  <2>5. CASE tasks' = [tasks EXCEPT ![id] = IF go THEN Started(t3) ELSE t3]
    <3>1. t1 \in Task
      BY <1>1, <2>1, GrabSubset, TaskFields DEF Task
    <3>2. t2 \in Task
      BY <3>1, TaskOps DEF StopProc
    <3>3. t3.valid /\ Started(t3).valid
      BY <3>2 DEF Task, Started
    <3>4. QED
      BY <1>1, <2>5, <3>3, WriteEntry
  <2>6. QED
    BY <2>2, <2>4, <2>5
<1>4. QED
  BY <1>2, <1>3

-----------------------------------------------------------------------------
(* The invariant and the theorems.                                         *)

\* Every step of the supervisor meets StepValid.
LEMMA NextStepValid ==
  ASSUME EInv, [Next]_vars
  PROVE  StepValid
<1>1. RInv
  BY DEF EInv, VInv, RInv
<1>2. CASE \E c \in Clients : AddInsert(c)
  BY <1>1, <1>2, AddInsertValid DEF RInv
<1>3. CASE \E id \in Ids, cfg \in Configs : UpdateProcess(id, cfg)
  BY <1>1, <1>3, UpdateValid DEF RInv
<1>4. CASE \E id \in Ids : DeleteProcess(id)
  BY <1>1, <1>4, DeleteValid DEF RInv
<1>5. CASE \E id \in Ids : ReloadProcess(id)
  BY <1>5, ReloadValid
<1>6. CASE \E id \in Ids : StartStep(id) \/ StartProcess(id) \/ StopProcess(id)
  BY <1>1, <1>6, StartStopValid DEF RInv
<1>7. CASE Stop \/ \E e \in 1..MaxStarts : ObserverSweep(e)
  BY <1>1, <1>7, StopAllValid DEF RInv
<1>8. CASE ProgramRestart
  BY <1>8, RestartValid
<1>9. CASE \E id \in Ids : LoadStep(id)
  BY <1>1, <1>9, LoadStepValid
<1>10. CASE \/ \E c \in Clients, cfg \in Configs : AddBuild(c, cfg)
            \/ StartBegin \/ StartEnd \/ DiskFill \/ DiskFree \/ LoadEnd
            \/ \E e \in 1..MaxStarts : ObserverTick(e) \/ ObserverExit(e)
            \/ UNCHANGED vars
  BY <1>10, QuietValid
<1>11. QED
  BY <1>2, <1>3, <1>4, <1>5, <1>6, <1>7, <1>8, <1>9, <1>10 DEF Next

\* Every step of the supervisor keeps EInv: an engine that runs after a
\* step belongs to a valid task, which holds all its ports (VInv'), or ran
\* before with the same ports and config (RunFull).
LEMMA NextEInv == EInv /\ [Next]_vars => EInv'
<1> SUFFICES ASSUME EInv, [Next]_vars PROVE EInv'
  OBVIOUS
<1>1. VInv' /\ LoadingIdle'
  BY NextVInv, NextLoadingIdle DEF EInv, VInv
<1>2. RunFull'
  <2> SUFFICES ASSUME NEW i \in Ids, tasks'[i] # NoTask,
                      tasks'[i].engine = "start"
               PROVE  Cardinality(tasks'[i].playout) = tasks'[i].cfg.playout
    BY DEF RunFull, RunsFull
  <2>1. tasks'[i].valid \/ KeptRunning(i)
    BY NextStepValid DEF StepValid, RunsAfter
  <2>2. CASE tasks'[i].valid
    BY <1>1, <2>2 DEF VInv, Full, MapFull, FullPorts
  <2>3. CASE KeptRunning(i)
    BY <2>3 DEF KeptRunning, EInv, RunFull, RunsFull
  <2>4. QED
    BY <2>1, <2>2, <2>3
<1>3. QED
  BY <1>1, <1>2 DEF EInv

\* Initially no task exists.
LEMMA InitEInv == Init => EInv
BY InitVInv, InitRInv DEF Init, RInv, EInv, RunFull

\* Every ffmpeg process the supervisor runs has a playout port for every
\* playout input, valid task or not: startProcess starts only valid
\* tasks, which hold all their ports, and the one path that leaves an
\* engine running on an invalid task, a failed reloadProcess (lines
\* 1169-1172), keeps the ports or finds the pool holding enough of them,
\* for every set of ids, callers and ports.
THEOREM RunningPorts == Spec => []RunningHavePorts
<1>1. EInv => RunningHavePorts
  BY DEF EInv, RunFull, RunsFull, RunningHavePorts, Running, Registered, Has
<1>2. QED
  BY <1>1, InitEInv, NextEInv, PTL DEF Spec

\* No step of the supervisor starts an engine for an invalid task
\* (startProcess's check at lines 1045-1047, reached from AddProcess,
\* StartProcess, UpdateProcess, ReloadProcess and Start()), nor gives a
\* running engine of an invalid task other ports or another config.
THEOREM EnginesValid == Spec => EnginesStartValid
<1>1. EInv /\ [Next]_vars =>
        [\A id \in Ids : RunsAfter(id) => tasks'[id].valid \/ KeptRunning(id)]_vars
  BY NextStepValid DEF StepValid
<1>2. QED
  BY <1>1, InitEInv, NextEInv, PTL DEF Spec, EnginesStartValid

=============================================================================
