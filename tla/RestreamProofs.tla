--------------------------- MODULE RestreamProofs ---------------------------
(***************************************************************************)
(* Proofs about the supervisor model of Restream.tla: the type invariant  *)
(* and NoOrphanEngine hold in every reachable state, for every value of   *)
(* the constants, because IInv is inductive.                               *)
(***************************************************************************)
EXTENDS Restream, FiniteSetTheorems, TLAPS

-----------------------------------------------------------------------------
(* Lemmas about the operators the actions are built from.                  *)

\* startProcess, stopProcess and their helpers keep a task a task;
\* stopProcess never leaves the engine ordered to start.
LEMMA TaskOps ==
  ASSUME NEW t \in Task
  PROVE  /\ Started(t) \in Task
         /\ Started(t).order = "start" /\ Started(t).engine = "start"
         /\ Stopped(t) \in Task
         /\ Stopped(t).order = "stop" /\ Stopped(t).engine = "stop"
         /\ StopProc(t) \in Task
         /\ StopProc(t).engine # "start"
         /\ StopDelta(t) \in {0, 1}
BY DEF Task, Started, Stopped, StopProc, Stoppable, StopDelta, EngineOrders,
       Orders

\* The ports setPlayoutPorts obtains come from the pool it draws on.
LEMMA GrabSubset ==
  ASSUME NEW k, NEW pool, NEW S \in Grab(k, pool)
  PROVE  S \subseteq pool
BY DEF Grab

\* createTask builds a task whose engine has not been started.
LEMMA NewTaskType ==
  ASSUME NEW cfg \in Configs, NEW S \in SUBSET Ports
  PROVE  /\ NewTask(cfg, S) \in Task
         /\ NewTask(cfg, S).engine = "stop"
BY ConfigsAssumption DEF NewTask, Task, Orders, EngineOrders, ConfigRec

\* save() writes a catalog.
LEMMA CatalogType ==
  ASSUME NEW m \in [Ids -> Task \cup {NoTask}]
  PROVE  Catalog(m) \in [Ids -> Stored \cup {NoTask}]
BY DEF Catalog, Stored, Task

\* load() creates tasks without an engine.
LEMMA LoadedType ==
  ASSUME NEW s \in Stored
  PROVE  Loaded(s) \in Task /\ Loaded(s).engine = "none"
BY DEF Loaded, Stored, Task, EngineOrders

\* A task map in which every engine told to start belongs to a task
\* ordered to start.
GoodMap(m) ==
  /\ m \in [Ids -> Task \cup {NoTask}]
  /\ \A i \in Ids : m[i] # NoTask /\ m[i].engine = "start" => m[i].order = "start"

\* An entry that may be put into such a map.
GoodEntry(t) ==
  /\ t \in Task \cup {NoTask}
  /\ t # NoTask /\ t.engine = "start" => t.order = "start"

\* The registry's type and EngineOrderConsistent are GoodMap(tasks).
LEMMA GoodTasks == IInv => GoodMap(tasks)
BY DEF IInv, TypeOK, EngineOrderConsistent, GoodMap

\* Writing one good entry keeps a map good (r.tasks[id] = t, delete(...)).
LEMMA GoodExcept ==
  ASSUME NEW m, GoodMap(m), NEW id \in Ids, NEW t, GoodEntry(t)
  PROVE  GoodMap([m EXCEPT ![id] = t])
BY DEF GoodMap, GoodEntry

\* The entries the helpers produce are good.
LEMMA GoodOps ==
  ASSUME NEW t \in Task
  PROVE  /\ GoodEntry(Started(t)) /\ GoodEntry(Stopped(t))
         /\ (GoodEntry(t) => GoodEntry(StopProc(t)))
         /\ GoodEntry(NoTask)
BY TaskOps DEF GoodEntry, StopProc

-----------------------------------------------------------------------------
(* IInv holds initially and is preserved by every action.                  *)

LEMMA InitIInv == Init => IInv
<1> SUFFICES ASSUME Init PROVE IInv
  OBVIOUS
<1>1. TypeOK
  <2>1. tasks \in [Ids -> Task \cup {NoTask}] /\ pending \in [Clients -> Task \cup {NoTask}]
    BY DEF Init
  <2>2. store \in [Ids -> Stored \cup {NoTask}]
    BY DEF Init
  <2>3. obs \in [1..MaxStarts -> ObsStates]
    BY DEF Init, ObsStates
  <2>4. nProc \in Int /\ epoch \in 0..MaxStarts /\ restarts \in 0..MaxRestarts
    BY BoundsAssumption DEF Init
  <2>5. /\ free \subseteq Ports /\ cleanup \subseteq Ids /\ todo \subseteq Ids
        /\ phase \in Phases
        /\ diskFull \in BOOLEAN /\ orphaned \in BOOLEAN /\ nilDeref \in BOOLEAN
    BY DEF Init, Phases
  <2>6. QED
    BY <2>1, <2>2, <2>3, <2>4, <2>5 DEF TypeOK
<1>2. EngineOrderConsistent
  BY DEF Init, EngineOrderConsistent
<1>3. QED
  BY <1>1, <1>2 DEF Init, IInv, NoOrphanEngine

\* The disk filling up or being freed changes nothing the invariant reads.
LEMMA DiskIInv ==
  ASSUME IInv, DiskFill \/ DiskFree
  PROVE  IInv'
<1>1. diskFull' \in BOOLEAN /\ UNCHANGED <<tasks, nProc, free, cleanup, store,
        pending, phase, todo, epoch, obs, restarts, orphaned, nilDeref>>
  BY DEF DiskFill, DiskFree
<1>2. QED
  BY <1>1 DEF IInv, TypeOK, EngineOrderConsistent, NoOrphanEngine, Registered,
              Has

\* A tick or an exit of an observer only moves that observer's state.
LEMMA ObserverTickExitIInv ==
  ASSUME IInv, NEW e \in 1..MaxStarts, ObserverTick(e) \/ ObserverExit(e)
  PROVE  IInv'
<1>1. /\ obs' \in [1..MaxStarts -> ObsStates]
      /\ UNCHANGED <<tasks, nProc, free, cleanup, store, pending, phase, todo,
                     epoch, diskFull, restarts, orphaned, nilDeref>>
  BY DEF IInv, TypeOK, ObserverTick, ObserverExit, ObsStates
<1>2. QED
  BY <1>1 DEF IInv, TypeOK, EngineOrderConsistent, NoOrphanEngine, Registered,
              Has

\* Start() begins its loop only while an epoch is left for its observer.
LEMMA StartBeginIInv ==
  ASSUME IInv, StartBegin
  PROVE  IInv'
<1>1. /\ phase' = "starting" /\ epoch < MaxStarts /\ todo' = Registered
      /\ UNCHANGED <<tasks, nProc, free, cleanup, store, pending, epoch, obs,
                     diskFull, restarts, orphaned, nilDeref>>
  BY DEF StartBegin, Registered
<1>2. QED
  BY <1>1 DEF IInv, TypeOK, EngineOrderConsistent, NoOrphanEngine, Phases,
              Registered, Has

\* Start() ends its loop by arming the observer of the next epoch.
LEMMA StartEndIInv ==
  ASSUME IInv, StartEnd
  PROVE  IInv'
<1>1. /\ epoch' \in 0..MaxStarts /\ obs' \in [1..MaxStarts -> ObsStates]
      /\ phase' = "running"
      /\ UNCHANGED <<tasks, nProc, free, cleanup, store, pending, todo,
                     diskFull, restarts, orphaned, nilDeref>>
  <2>1. epoch + 1 \in 1..MaxStarts
    BY BoundsAssumption DEF IInv, TypeOK, StartEnd
  <2>2. QED
    BY <2>1 DEF IInv, TypeOK, StartEnd, ObsStates
<1>2. QED
  BY <1>1 DEF IInv, TypeOK, EngineOrderConsistent, NoOrphanEngine, Phases,
              Registered, Has

\* New() saves the loaded catalog when load() returns.
LEMMA LoadEndIInv ==
  ASSUME IInv, LoadEnd
  PROVE  IInv'
<1>1. /\ store' \in [Ids -> Stored \cup {NoTask}] /\ phase' = "stopped"
      /\ UNCHANGED <<tasks, nProc, free, cleanup, pending, todo, epoch, obs,
                     diskFull, restarts, orphaned, nilDeref>>
  BY CatalogType DEF IInv, TypeOK, LoadEnd
<1>2. QED
  BY <1>1 DEF IInv, TypeOK, EngineOrderConsistent, NoOrphanEngine, Phases,
              Registered, Has

\* One iteration of Start()'s loop starts a task with its order, or
\* leaves it alone; it only installs cleanup rules of a visited id.
LEMMA StartStepIInv ==
  ASSUME IInv, NEW id \in Ids, StartStep(id)
  PROVE  IInv'
<1>1. tasks[id] \in Task
  BY NoTaskAssumption DEF IInv, TypeOK, StartStep, Registered, Has
<1>2. GoodMap(tasks') /\ \A i \in Ids : tasks'[i] # NoTask <=> tasks[i] # NoTask
  <2>1. CASE tasks' = [tasks EXCEPT ![id] = Started(tasks[id])]
    <3>1. GoodMap(tasks')
      BY <1>1, <2>1, GoodTasks, GoodOps, GoodExcept
    <3>2. Started(tasks[id]) # NoTask
      BY <1>1, TaskOps, NoTaskAssumption
    <3>3. QED
      BY <1>1, <2>1, <3>1, <3>2, NoTaskAssumption DEF IInv, TypeOK
  <2>2. CASE tasks' = tasks
    BY <2>2, GoodTasks
  <2>3. QED
    BY <2>1, <2>2 DEF StartStep
<1>3. /\ nProc' \in Int /\ cleanup' \subseteq Ids /\ todo' \subseteq todo
      /\ UNCHANGED <<free, store, pending, phase, epoch, obs, diskFull,
                     restarts, orphaned, nilDeref>>
  BY DEF IInv, TypeOK, StartStep, WithCleanup
<1>4. QED
  BY <1>2, <1>3 DEF IInv, TypeOK, GoodMap, EngineOrderConsistent,
                    NoOrphanEngine, Registered, Has

\* Stop() tells every engine to stop and removes the registered tasks'
\* cleanup rules, leaving orders and r.nProc alone.
LEMMA StopIInv ==
  ASSUME IInv, Stop
  PROVE  IInv'
<1>1. GoodMap(tasks')
  <2>1. \A i \in Ids : tasks[i] # NoTask =>
          [tasks[i] EXCEPT !.engine = "stop"] \in Task
    BY DEF IInv, TypeOK, Task, EngineOrders
  <2>2. QED
    BY <2>1, GoodTasks DEF Stop, GoodMap, Has
<1>2. /\ phase' = "stopped" /\ cleanup' \subseteq Ids
      /\ UNCHANGED <<nProc, free, store, pending, todo, epoch, obs, diskFull,
                     restarts, orphaned, nilDeref>>
  BY DEF IInv, TypeOK, Stop
<1>3. QED
  BY <1>1, <1>2 DEF IInv, TypeOK, GoodMap, EngineOrderConsistent,
                    NoOrphanEngine, Phases

\* The observer's sweep stops every valid disk task ordered to start and
\* subtracts their number from r.nProc.
LEMMA ObserverSweepIInv ==
  ASSUME IInv, NEW e \in 1..MaxStarts, ObserverSweep(e)
  PROVE  IInv'
<1> DEFINE hit == {id \in Registered :
                     tasks[id].valid /\ tasks[id].usesDisk /\
                     tasks[id].order = "start"}
<1>1. IsFiniteSet(hit) /\ Cardinality(hit) \in Nat
  <2>1. hit \subseteq Ids
    BY DEF Registered
  <2>2. QED
    BY <2>1, IdsAssumption, FS_Subset, FS_CardinalityType
<1>2. GoodMap(tasks')
  <2>1. \A i \in hit : tasks[i] \in Task
    BY NoTaskAssumption DEF IInv, TypeOK, Registered, Has
  <2>2. \A i \in hit : GoodEntry(Stopped(tasks[i]))
    BY <2>1, GoodOps
  <2>3. QED
    BY <2>2, GoodTasks DEF ObserverSweep, GoodMap, GoodEntry
<1>3. \A i \in Ids : tasks'[i] # NoTask <=> tasks[i] # NoTask
  <2>1. \A i \in hit : tasks[i] \in Task
    BY NoTaskAssumption DEF IInv, TypeOK, Registered, Has
  <2>2. QED
    BY <2>1, TaskOps, NoTaskAssumption DEF ObserverSweep
<1>4. /\ nProc' \in Int /\ obs' \in [1..MaxStarts -> ObsStates]
      /\ LockFree
      /\ UNCHANGED <<free, cleanup, store, pending, phase, todo, epoch,
                     diskFull, restarts, orphaned, nilDeref>>
  BY <1>1 DEF IInv, TypeOK, ObserverSweep, ObsStates
<1>5. QED
  BY <1>2, <1>3, <1>4 DEF IInv, TypeOK, GoodMap, EngineOrderConsistent,
                          NoOrphanEngine, Registered, Has, LockFree

\* StartProcess starts a task together with its order and saves.
LEMMA StartProcessIInv ==
  ASSUME IInv, NEW id \in Ids, StartProcess(id)
  PROVE  IInv'
<1>1. tasks[id] \in Task
  BY NoTaskAssumption DEF IInv, TypeOK, StartProcess, Has
<1>2. GoodMap(tasks')
  <2>1. CASE UNCHANGED tasks
    BY <2>1, GoodTasks
  <2>2. CASE tasks' = [tasks EXCEPT ![id] = Started(tasks[id])]
    BY <1>1, <2>2, GoodTasks, GoodOps, GoodExcept
  <2>3. QED
    BY <2>1, <2>2 DEF StartProcess
<1>3. store' \in [Ids -> Stored \cup {NoTask}]
  BY <1>2, CatalogType DEF StartProcess, GoodMap
<1>4. /\ nProc' \in Int /\ LockFree
      /\ UNCHANGED <<free, cleanup, pending, phase, todo, epoch, obs, diskFull,
                     restarts, orphaned, nilDeref>>
  BY DEF IInv, TypeOK, StartProcess
<1>5. QED
  BY <1>2, <1>3, <1>4 DEF IInv, TypeOK, GoodMap, EngineOrderConsistent,
                          NoOrphanEngine, LockFree

\* StopProcess stops a task's engine with its order and saves.
LEMMA StopProcessIInv ==
  ASSUME IInv, NEW id \in Ids, StopProcess(id)
  PROVE  IInv'
<1>1. tasks[id] \in Task /\ GoodEntry(tasks[id])
  BY NoTaskAssumption DEF IInv, TypeOK, StopProcess, Has, GoodEntry,
                          EngineOrderConsistent
<1>2. GoodMap(tasks')
  BY <1>1, GoodTasks, GoodOps, GoodExcept DEF StopProcess
<1>3. store' \in [Ids -> Stored \cup {NoTask}]
  BY <1>2, CatalogType DEF StopProcess, GoodMap
<1>4. nProc' \in Int
  BY <1>1, TaskOps DEF IInv, TypeOK, StopProcess
<1>5. /\ LockFree
      /\ UNCHANGED <<free, cleanup, pending, phase, todo, epoch, obs, diskFull,
                     restarts, orphaned, nilDeref>>
  BY DEF StopProcess
<1>6. QED
  BY <1>2, <1>3, <1>4, <1>5 DEF IInv, TypeOK, GoodMap, EngineOrderConsistent,
                                NoOrphanEngine, LockFree

\* DeleteProcess removes only a task ordered to stop, whose engine is
\* therefore not running: no handle is dropped while told to start.
LEMMA DeleteProcessIInv ==
  ASSUME IInv, NEW id \in Ids, DeleteProcess(id)
  PROVE  IInv'
<1>1. tasks[id] \in Task /\ tasks[id].engine # "start"
  BY NoTaskAssumption DEF IInv, TypeOK, DeleteProcess, Has,
                          EngineOrderConsistent
<1>2. GoodMap(tasks')
  BY <1>1, GoodTasks, GoodOps, GoodExcept DEF DeleteProcess
<1>3. store' \in [Ids -> Stored \cup {NoTask}]
  BY <1>2, CatalogType DEF DeleteProcess, GoodMap
<1>4. free' \subseteq Ports /\ cleanup' \subseteq Ids
  <2>1. tasks[id].playout \subseteq Ports
    BY <1>1 DEF Task
  <2>2. QED
    BY <2>1 DEF IInv, TypeOK, DeleteProcess
<1>5. orphaned' = orphaned
  BY <1>1 DEF IInv, TypeOK, DeleteProcess
<1>6. /\ LockFree
      /\ UNCHANGED <<nProc, pending, phase, todo, epoch, obs, diskFull,
                     restarts, nilDeref>>
  BY DEF DeleteProcess
<1>7. QED
  BY <1>2, <1>3, <1>4, <1>5, <1>6 DEF IInv, TypeOK, GoodMap,
                                      EngineOrderConsistent, NoOrphanEngine,
                                      LockFree

\* createTask under the read lock takes ports from the pool and, when all
\* were obtained, parks a task whose engine was never started.
LEMMA AddBuildIInv ==
  ASSUME IInv, NEW c \in Clients, NEW cfg \in Configs, AddBuild(c, cfg)
  PROVE  IInv'
<1>1. PICK S \in Grab(cfg.playout, free) :
        /\ free' = free \ S
        /\ pending' = IF PortsOk(S, cfg.playout)
                        THEN [pending EXCEPT ![c] = NewTask(cfg, S)]
                        ELSE pending
  BY DEF AddBuild
<1>2. S \subseteq Ports /\ free' \subseteq Ports
  BY <1>1, GrabSubset DEF IInv, TypeOK
<1>3. /\ pending' \in [Clients -> Task \cup {NoTask}]
      /\ \A x \in Clients : pending'[x] # NoTask => pending'[x].engine = "stop"
  BY <1>1, <1>2, NewTaskType DEF IInv, TypeOK
<1>4. UNCHANGED <<tasks, nProc, cleanup, store, phase, todo, epoch, obs,
                  diskFull, restarts, orphaned, nilDeref>>
  BY DEF AddBuild
<1>5. QED
  BY <1>2, <1>3, <1>4 DEF IInv, TypeOK, EngineOrderConsistent,
                          NoOrphanEngine, Registered, Has

\* The insertion under the write lock moves the parked task into the map
\* (started or not) or drops it.
LEMMA AddInsertIInv ==
  ASSUME IInv, NEW c \in Clients, AddInsert(c)
  PROVE  IInv'
<1> DEFINE t == pending[c]
           id == t.cfg.id
<1>1. t \in Task /\ t.engine = "stop" /\ id \in Ids
  <2>1. t \in Task /\ t.engine = "stop"
    BY NoTaskAssumption DEF IInv, TypeOK, AddInsert
  <2>2. t.cfg \in ConfigRec
    BY <2>1, ConfigsAssumption DEF Task
  <2>3. QED
    BY <2>1, <2>2 DEF ConfigRec
<1>2. GoodEntry(t) /\ GoodEntry(Started(t))
  BY <1>1, GoodOps DEF GoodEntry
<1>3. GoodMap(tasks')
  BY <1>1, <1>2, GoodTasks, GoodExcept DEF AddInsert
<1>4. store' \in [Ids -> Stored \cup {NoTask}]
  BY <1>3, CatalogType DEF AddInsert, GoodMap, IInv, TypeOK
<1>5. /\ pending' \in [Clients -> Task \cup {NoTask}]
      /\ \A x \in Clients : pending'[x] # NoTask => pending'[x].engine = "stop"
  BY DEF IInv, TypeOK, AddInsert
<1>6. nProc' \in Int /\ cleanup' \subseteq Ids
  BY <1>1 DEF IInv, TypeOK, AddInsert, WithCleanup
<1>7. /\ LockFree
      /\ UNCHANGED <<free, phase, todo, epoch, obs, diskFull, restarts,
                     orphaned, nilDeref>>
  BY DEF AddInsert
<1>8. QED
  BY <1>3, <1>4, <1>5, <1>6, <1>7 DEF IInv, TypeOK, GoodMap,
                                      EngineOrderConsistent, NoOrphanEngine,
                                      LockFree

\* The fields of a task that setPlayoutPorts and createTask produce.
LEMMA TaskFields ==
  ASSUME NEW t \in Task
  PROVE  /\ t.playout \subseteq Ports /\ t.order \in Orders
         /\ t.cfg \in Configs /\ t.cfg.id \in Ids /\ t.cfg.disk \in BOOLEAN
  <1>1. t.cfg \in ConfigRec
    BY ConfigsAssumption DEF Task
  <1>2. QED
    BY <1>1 DEF Task, ConfigRec

\* UpdateProcess either fails after taking ports (the map is untouched) or
\* stops the old engine, removes the old task and inserts the new one.
LEMMA UpdateProcessIInv ==
  ASSUME IInv, NEW id \in Ids, NEW cfg \in Configs, UpdateProcess(id, cfg)
  PROVE  IInv'
<1>1. PICK S \in Grab(cfg.playout, free) : UpdateWith(id, cfg, S)
  BY DEF UpdateProcess
<1>2. S \subseteq Ports /\ free \ S \subseteq Ports
  BY <1>1, GrabSubset DEF IInv, TypeOK
<1>3. /\ LockFree
      /\ UNCHANGED <<pending, phase, todo, epoch, obs, diskFull, restarts>>
  BY DEF UpdateProcess
<1> DEFINE ok == /\ PortsOk(S, cfg.playout) /\ Has(id) /\ tasks[id].parser
                 /\ (cfg.id = id \/ ~Has(cfg.id))
<1>4. CASE ~ok
  <2>1. /\ UNCHANGED <<tasks, nProc, cleanup, store, orphaned>>
        /\ free' = free \ S /\ nilDeref' \in BOOLEAN
    BY <1>1, <1>4 DEF UpdateWith, IInv, TypeOK
  <2>2. QED
    BY <1>2, <1>3, <2>1 DEF IInv, TypeOK, EngineOrderConsistent,
                            NoOrphanEngine, LockFree
<1>5. CASE ok
  <2> DEFINE old == tasks[id]
             nid == cfg.id
             st == StopProc(old)
             n1 == nProc - StopDelta(old)
             nt == [NewTask(cfg, S) EXCEPT !.order = old.order]
             go == nt.order = "start" /\ MayStart(nt, n1)
             ne == IF go THEN Started(nt) ELSE nt
             m  == [[tasks EXCEPT ![id] = NoTask] EXCEPT ![nid] = ne]
  <2>1. /\ tasks' = m
        /\ nProc' = n1 + (IF go THEN 1 ELSE 0)
        /\ free' = (free \ S) \cup old.playout
        /\ cleanup' = WithCleanup(cleanup \ {id}, cfg, nid)
        /\ orphaned' = (orphaned \/ st.engine = "start")
        /\ store' = Catalog(m)
        /\ UNCHANGED nilDeref
    BY <1>1, <1>5 DEF UpdateWith
  <2>2. old \in Task /\ GoodEntry(old)
    BY <1>5, NoTaskAssumption DEF IInv, TypeOK, Has, GoodEntry,
                                  EngineOrderConsistent
  <2>3. nt \in Task /\ nt.engine = "stop"
    <3>1. NewTask(cfg, S) \in Task /\ NewTask(cfg, S).engine = "stop"
      BY <1>2, NewTaskType
    <3>2. old.order \in Orders
      BY <2>2, TaskFields
    <3>3. QED
      BY <3>1, <3>2 DEF Task
  <2>4. GoodEntry(ne)
    BY <2>3, GoodOps DEF GoodEntry
  <2>5. GoodMap(m)
    <3>1. nid \in Ids
      BY ConfigsAssumption DEF ConfigRec
    <3>2. GoodMap([tasks EXCEPT ![id] = NoTask])
      BY <2>2, GoodTasks, GoodOps, GoodExcept
    <3>3. QED
      BY <2>4, <3>1, <3>2, GoodExcept
  <2>6. store' \in [Ids -> Stored \cup {NoTask}]
    BY <2>1, <2>5, CatalogType DEF GoodMap
  <2>7. nProc' \in Int
    BY <2>1, <2>2, TaskOps DEF IInv, TypeOK
  <2>8. free' \subseteq Ports /\ cleanup' \subseteq Ids
    <3>1. old.playout \subseteq Ports /\ nid \in Ids
      BY <2>2, TaskFields, ConfigsAssumption DEF ConfigRec
    <3>2. QED
      BY <1>2, <2>1, <3>1 DEF IInv, TypeOK, WithCleanup
  <2>9. orphaned' = orphaned
    BY <2>1, <2>2, TaskOps DEF IInv, TypeOK
  <2>10. GoodMap(tasks') /\ UNCHANGED nilDeref
    BY <2>1, <2>5
  <2>11. QED
    BY <1>3, <2>6, <2>7, <2>8, <2>9, <2>10
       DEF IInv, TypeOK, GoodMap, EngineOrderConsistent, NoOrphanEngine,
           LockFree
<1>6. QED
  BY <1>4, <1>5

\* ReloadProcess marks the task invalid; when it gets its ports it stops
\* the engine of a task ordered to start before it replaces the handle.
LEMMA ReloadProcessIInv ==
  ASSUME IInv, NEW id \in Ids, ReloadProcess(id)
  PROVE  IInv'
<1> DEFINE t == tasks[id]
<1>1. t \in Task /\ GoodEntry(t)
  BY NoTaskAssumption DEF IInv, TypeOK, ReloadProcess, Has, GoodEntry,
                          EngineOrderConsistent
<1>2. /\ LockFree
      /\ UNCHANGED <<cleanup, pending, phase, todo, epoch, obs, diskFull,
                     restarts, nilDeref>>
  BY DEF ReloadProcess
<1>3. CASE RefFails(t.cfg, tasks)
  <2>1. /\ tasks' = [tasks EXCEPT ![id] = [t EXCEPT !.valid = FALSE]]
        /\ UNCHANGED <<nProc, free, store, orphaned>>
    BY <1>3 DEF ReloadProcess
  <2>2. GoodEntry([t EXCEPT !.valid = FALSE])
    <3>1. [t EXCEPT !.valid = FALSE] \in Task
      BY <1>1 DEF Task
    <3>2. QED
      BY <1>1, <3>1, NoTaskAssumption DEF GoodEntry
  <2>3. GoodMap(tasks')
    BY <2>1, <2>2, GoodTasks, GoodExcept
  <2>4. QED
    BY <1>2, <2>1, <2>3 DEF IInv, TypeOK, GoodMap, EngineOrderConsistent,
                            NoOrphanEngine, LockFree
<1>4. CASE ~RefFails(t.cfg, tasks)
  <2>1. PICK S \in Grab(t.cfg.playout, free \cup t.playout) : ReloadWith(id, S)
    BY <1>4 DEF ReloadProcess
  <2> DEFINE was == t.order = "start"
             t1  == [t EXCEPT !.valid = FALSE, !.usesDisk = t.cfg.disk,
                              !.playout = S]
             t2  == IF was THEN StopProc(t1) ELSE t1
             n2  == nProc - (IF was THEN StopDelta(t1) ELSE 0)
             t3  == [t2 EXCEPT !.parser = TRUE, !.engine = "stop",
                               !.valid = TRUE]
             go  == was /\ MayStart(t3, n2)
  <2>2. S \subseteq Ports /\ free' \subseteq Ports
    <3>1. free \cup t.playout \subseteq Ports
      BY <1>1, TaskFields DEF IInv, TypeOK
    <3>2. QED
      BY <2>1, <3>1, GrabSubset DEF ReloadWith
  <2>3. t1 \in Task /\ GoodEntry(t1)
    <3>1. t.cfg.disk \in BOOLEAN
      BY <1>1, TaskFields
    <3>2. t1 \in Task
      BY <1>1, <2>2, <3>1 DEF Task
    <3>3. QED
      BY <1>1, <3>2, NoTaskAssumption DEF GoodEntry
  <2>4. t2 \in Task /\ GoodEntry(t2) /\ t2.engine # "start"
    <3>1. CASE was
      BY <2>3, <3>1, TaskOps, GoodOps
    <3>2. CASE ~was
      BY <2>3, <3>2, NoTaskAssumption DEF GoodEntry
    <3>3. QED
      BY <3>1, <3>2
  <2>5. t3 \in Task /\ GoodEntry(t3) /\ GoodEntry(Started(t3))
    <3>1. t3 \in Task
      BY <2>4 DEF Task, EngineOrders
    <3>2. QED
      BY <3>1, GoodOps DEF GoodEntry
  <2>6. n2 \in Int
    BY <2>3, TaskOps DEF IInv, TypeOK
  <2>7. CASE ~PortsOk(S, t.cfg.playout)
    <3>1. /\ tasks' = [tasks EXCEPT ![id] = t1]
          /\ UNCHANGED <<nProc, store, orphaned>>
      BY <2>1, <2>7 DEF ReloadWith
    <3>2. GoodMap(tasks')
      BY <2>3, <3>1, GoodTasks, GoodExcept
    <3>3. QED
      BY <1>2, <2>2, <3>1, <3>2 DEF IInv, TypeOK, GoodMap,
                                    EngineOrderConsistent, NoOrphanEngine,
                                    LockFree
  <2>8. CASE PortsOk(S, t.cfg.playout)
    <3>1. /\ tasks' = [tasks EXCEPT ![id] = IF go THEN Started(t3) ELSE t3]
          /\ nProc' = n2 + (IF go THEN 1 ELSE 0)
          /\ orphaned' = (orphaned \/ t2.engine = "start")
          /\ store' = Catalog(tasks')
      BY <2>1, <2>8 DEF ReloadWith
    <3>2. GoodMap(tasks')
      BY <2>5, <3>1, GoodTasks, GoodExcept
    <3>3. store' \in [Ids -> Stored \cup {NoTask}]
      BY <3>1, <3>2, CatalogType DEF GoodMap
    <3>4. nProc' \in Int /\ orphaned' = orphaned
      BY <2>4, <2>6, <3>1 DEF IInv, TypeOK
    <3>5. QED
      BY <1>2, <2>2, <3>2, <3>3, <3>4 DEF IInv, TypeOK, GoodMap,
                                          EngineOrderConsistent,
                                          NoOrphanEngine, LockFree
  <2>9. QED
    BY <2>7, <2>8
<1>5. QED
  BY <1>3, <1>4

\* New() loads the catalog into tasks without engines and starts over
\* with a full pool, no cleanup rules and r.nProc = 0.
LEMMA ProgramRestartIInv ==
  ASSUME IInv, ProgramRestart
  PROVE  IInv'
<1>1. \A i \in Ids : store[i] # NoTask =>
        Loaded(store[i]) \in Task /\ Loaded(store[i]).engine = "none"
  BY LoadedType DEF IInv, TypeOK
<1>2. GoodMap(tasks')
  BY <1>1 DEF ProgramRestart, GoodMap
<1>3. todo' \subseteq {i \in Ids : tasks'[i] # NoTask}
  BY <1>1, NoTaskAssumption DEF ProgramRestart
<1>4. /\ restarts' \in 0..MaxRestarts /\ phase' = "loading"
      /\ obs' \in [1..MaxStarts -> ObsStates]
      /\ nProc' = 0 /\ free' = Ports /\ cleanup' = {}
      /\ pending' = [c \in Clients |-> NoTask]
      /\ UNCHANGED <<store, epoch, diskFull, orphaned, nilDeref>>
  BY BoundsAssumption DEF IInv, TypeOK, ProgramRestart, ObsStates
<1>5. QED
  BY <1>2, <1>3, <1>4 DEF IInv, TypeOK, GoodMap, EngineOrderConsistent,
                          NoOrphanEngine, Registered, Has, Phases

\* One iteration of load() validates a loaded task: on success it gets
\* ports, a parser and an engine that has not been started.
LEMMA LoadStepIInv ==
  ASSUME IInv, NEW id \in Ids, LoadStep(id)
  PROVE  IInv'
<1> DEFINE t == tasks[id]
<1>1. t \in Task /\ GoodEntry(t)
  BY NoTaskAssumption DEF IInv, TypeOK, LoadStep, Registered, Has,
                          GoodEntry, EngineOrderConsistent
<1>2. /\ phase = "loading" /\ phase' = "loading" /\ todo' \subseteq todo
      /\ UNCHANGED <<nProc, cleanup, store, pending, epoch, obs, diskFull,
                     restarts, orphaned, nilDeref>>
  BY DEF LoadStep
<1>3. /\ GoodMap(tasks') /\ free' \subseteq Ports
      /\ \A i \in Ids : tasks'[i] # NoTask <=> tasks[i] # NoTask
  <2>1. CASE UNCHANGED <<tasks, free>>
    BY <2>1, GoodTasks DEF IInv, TypeOK
  <2>2. CASE \E S \in Grab(t.cfg.playout, free) :
               /\ free' = free \ S
               /\ tasks' = [tasks EXCEPT ![id] =
                    IF PortsOk(S, t.cfg.playout)
                      THEN [t EXCEPT !.usesDisk = t.cfg.disk, !.playout = S,
                                     !.parser = TRUE, !.engine = "stop",
                                     !.valid = TRUE]
                      ELSE [t EXCEPT !.usesDisk = t.cfg.disk, !.playout = S]]
    <3>1. PICK S \in Grab(t.cfg.playout, free) :
               /\ free' = free \ S
               /\ tasks' = [tasks EXCEPT ![id] =
                    IF PortsOk(S, t.cfg.playout)
                      THEN [t EXCEPT !.usesDisk = t.cfg.disk, !.playout = S,
                                     !.parser = TRUE, !.engine = "stop",
                                     !.valid = TRUE]
                      ELSE [t EXCEPT !.usesDisk = t.cfg.disk, !.playout = S]]
      BY <2>2
    <3>2. S \subseteq Ports /\ free' \subseteq Ports /\ t.cfg.disk \in BOOLEAN
      BY <1>1, <3>1, GrabSubset, TaskFields DEF IInv, TypeOK
    <3> DEFINE e == tasks'[id]
    <3>3. e \in Task /\ e # NoTask /\ GoodEntry(e)
      <4>1. e \in Task
        BY <1>1, <3>1, <3>2 DEF IInv, TypeOK, Task, EngineOrders
      <4>2. e.order = t.order /\ (e.engine = t.engine \/ e.engine = "stop")
        BY <3>1 DEF IInv, TypeOK
      <4>3. QED
        BY <1>1, <4>1, <4>2, NoTaskAssumption DEF GoodEntry
    <3>4. QED
      BY <3>1, <3>2, <3>3, <1>1, GoodTasks, GoodExcept, NoTaskAssumption
         DEF IInv, TypeOK
  <2>3. QED
    BY <2>1, <2>2 DEF LoadStep
<1>4. QED
  BY <1>2, <1>3 DEF IInv, TypeOK, GoodMap, EngineOrderConsistent,
                    NoOrphanEngine, Registered, Has

-----------------------------------------------------------------------------
(* The theorems.                                                           *)

\* Every operation of the supervisor, and a stuttering step, keeps IInv.
LEMMA NextIInv == IInv /\ [Next]_vars => IInv'
<1> SUFFICES ASSUME IInv, [Next]_vars PROVE IInv'
  OBVIOUS
<1>1. CASE \E c \in Clients, cfg \in Configs : AddBuild(c, cfg)
  BY <1>1, AddBuildIInv
<1>2. CASE \E c \in Clients : AddInsert(c)
  BY <1>2, AddInsertIInv
<1>3. CASE \E id \in Ids, cfg \in Configs : UpdateProcess(id, cfg)
  BY <1>3, UpdateProcessIInv
<1>4. CASE \E id \in Ids : DeleteProcess(id) \/ StartProcess(id)
                          \/ StopProcess(id) \/ ReloadProcess(id)
  BY <1>4, DeleteProcessIInv, StartProcessIInv, StopProcessIInv,
     ReloadProcessIInv
<1>5. CASE StartBegin
  BY <1>5, StartBeginIInv
<1>6. CASE \E id \in Ids : StartStep(id)
  BY <1>6, StartStepIInv
<1>7. CASE StartEnd
  BY <1>7, StartEndIInv
<1>8. CASE Stop
  BY <1>8, StopIInv
<1>9. CASE \E e \in 1..MaxStarts :
             ObserverTick(e) \/ ObserverExit(e) \/ ObserverSweep(e)
  BY <1>9, ObserverTickExitIInv, ObserverSweepIInv
<1>10. CASE DiskFill \/ DiskFree
  BY <1>10, DiskIInv
<1>11. CASE ProgramRestart
  BY <1>11, ProgramRestartIInv
<1>12. CASE \E id \in Ids : LoadStep(id)
  BY <1>12, LoadStepIInv
<1>13. CASE LoadEnd
  BY <1>13, LoadEndIInv
<1>14. CASE UNCHANGED vars
  BY <1>14 DEF vars, IInv, TypeOK, EngineOrderConsistent, NoOrphanEngine,
               Registered, Has
<1>15. QED
  BY <1>1, <1>2, <1>3, <1>4, <1>5, <1>6, <1>7, <1>8, <1>9, <1>10, <1>11,
     <1>12, <1>13, <1>14 DEF Next

\* IInv holds in every reachable state of the supervisor.
THEOREM IInvInvariant == Spec => []IInv
BY InitIInv, NextIInv, PTL DEF Spec

\* The type invariant holds in every reachable state: every task, catalog
\* entry, pending build and counter keeps its shape under every operation.
THEOREM TypeCorrect == Spec => []TypeOK
<1>1. IInv => TypeOK
  BY DEF IInv
<1>2. QED
  BY <1>1, IInvInvariant, PTL

\* No operation of the supervisor (DeleteProcess, UpdateProcess,
\* ReloadProcess, Stop, the observer) ever drops an engine handle that is
\* still told to run: for every number of processes, ports, clients and
\* every cap.
THEOREM NoOrphan == Spec => []NoOrphanEngine
<1>1. IInv => NoOrphanEngine
  BY DEF IInv
<1>2. QED
  BY <1>1, IInvInvariant, PTL

=============================================================================
