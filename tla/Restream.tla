------------------------------ MODULE Restream ------------------------------
(***************************************************************************)
(* The supervisor of src/restream/restream.go: the task registry          *)
(* (r.tasks, one RWMutex), the lifecycle operations on a task (Add,       *)
(* Update, Delete, Start, Stop, Reload), the running-process counter      *)
(* r.nProc and its cap, the playout ports borrowed from the engine's      *)
(* pool, the cleanup rules installed on the filesystems, the persisted    *)
(* catalog (save/load), the global Start/Stop latch and the disk          *)
(* observer goroutine.                                                     *)
(*                                                                         *)
(* Every operation that holds the write lock for its whole duration is    *)
(* one atomic step.  AddProcess is two steps (createTask under the read   *)
(* lock, insertion under the write lock); load() and Start() are loops    *)
(* that hold the write lock, modelled one iteration per step while        *)
(* `phase` keeps every other writer out; the observer takes a tick        *)
(* outside the lock and sweeps under it.                                   *)
(*                                                                         *)
(* Data is abstracted: a config is a record of the facts the control flow *)
(* depends on (its ID, the process its input references, whether an      *)
(* output is a file on a disk filesystem, how many inputs need a playout  *)
(* port, Autostart, whether it has cleanup rules).  Address validation    *)
(* and placeholder expansion are assumed to succeed; the engine handle    *)
(* is represented by the order it was last given (Start / Stop).          *)
(***************************************************************************)
EXTENDS Integers, FiniteSets

CONSTANTS
  Ids,           \* process IDs
  Clients,       \* callers that may run AddProcess concurrently
  Ports,         \* the engine's playout port pool (GetPort / PutPort)
  Configs,       \* the process configs callers submit
  MaxProcesses,  \* Config.MaxProcesses; 0 means no limit
  MaxStarts,     \* bound on the number of global Start() calls
  MaxRestarts,   \* bound on the number of program restarts (New + load)
  NoTask,        \* an absent map entry (a lookup with ok == false)
  NoRef          \* a config whose inputs reference no other process

\* The facts about a process config that the supervisor's control flow reads.
ConfigRec ==
  [id : Ids, ref : Ids \cup {NoRef}, disk : BOOLEAN, playout : Nat,
   autostart : BOOLEAN, cleanup : BOOLEAN]

ASSUME IdsAssumption == IsFiniteSet(Ids) /\ NoTask \notin Ids /\ NoRef \notin Ids
ASSUME PortsAssumption == IsFiniteSet(Ports)
ASSUME ConfigsAssumption == Configs \subseteq ConfigRec
ASSUME MaxProcessesAssumption == MaxProcesses \in Nat
ASSUME BoundsAssumption == MaxStarts \in Nat /\ MaxRestarts \in Nat

Orders == {"start", "stop"}

\* The order of the engine handle task.ffmpeg; "none" when it is nil.
EngineOrders == {"none", "start", "stop"}

\* The in-memory task (struct task, lines 72-85).
Task ==
  [order : Orders, engine : EngineOrders, valid : BOOLEAN, parser : BOOLEAN,
   usesDisk : BOOLEAN, cfg : Configs, playout : SUBSET Ports]

\* NoTask stands for a missing map entry and is no task.
ASSUME NoTaskAssumption == NoTask \notin Task

\* A catalog entry as the store keeps it (app.Process: Order and Config).
Stored == [order : Orders, cfg : Configs]

\* Nor is it a catalog entry.
ASSUME StoredAssumption == NoTask \notin Stored

Phases == {"loading", "stopped", "starting", "running"}

ObsStates == {"none", "idle", "pending", "exited"}

VARIABLES
  tasks,     \* r.tasks: id -> task, or NoTask
  nProc,     \* r.nProc
  free,      \* ports the engine's pool can still hand out
  cleanup,   \* ids for which cleanup rules are installed on the filesystems
  store,     \* the catalog last written by save()
  pending,   \* per caller: the task createTask built for AddProcess, or NoTask
  phase,     \* loading (New), stopped / running (the Start/Stop latches),
             \* starting (inside Start())
  todo,      \* ids the loop of load() or Start() has still to visit
  epoch,     \* number of Start() calls; epoch e owns observer obs[e]
  obs,       \* the observer goroutine started by the e-th Start()
  diskFull,  \* the disk filesystem reports size >= limit > 0
  restarts,  \* number of program restarts so far
  orphaned,  \* ghost: an engine handle was dropped while ordered to run
  nilDeref   \* ghost: UpdateProcess called a method on a nil parser

vars == <<tasks, nProc, free, cleanup, store, pending, phase, todo, epoch,
          obs, diskFull, restarts, orphaned, nilDeref>>

-----------------------------------------------------------------------------
(* Helpers translated from the code.                                       *)

Has(id) == tasks[id] # NoTask

Registered == {id \in Ids : Has(id)}

\* No writer holds r.lock: load() and Start() hold it across their loops.
LockFree == phase \in {"stopped", "running"}

\* resolveAddress (lines 830-862) fails on a self-reference or on a
\* reference to a process that is not in the map m.
RefFails(cfg, m) == cfg.ref # NoRef /\ (cfg.ref = cfg.id \/ m[cfg.ref] = NoTask)

\* The ports setPlayoutPorts (lines 564-608) obtains from pool for k playout
\* inputs: one GetPort per input until the pool runs dry.
Grab(k, pool) ==
  {S \in SUBSET pool :
     Cardinality(S) = IF Cardinality(pool) < k THEN Cardinality(pool) ELSE k}

\* Mutant: setPlayoutPorts treats every GetPort error like
\* ErrNoPortrangerProvided and goes on without the port.
PortsOkSkipErrors(S, k) == Cardinality(S) <= k

\* Every playout input got its port (no GetPort error).
PortsOk(S, k) == Cardinality(S) = k

\* The task createTask (lines 441-515) returns when every step succeeds.
NewTask(cfg, S) ==
  [order |-> IF cfg.autostart THEN "start" ELSE "stop", engine |-> "stop",
   valid |-> TRUE, parser |-> TRUE, usesDisk |-> cfg.disk, cfg |-> cfg,
   playout |-> S]

\* Mutant: startProcess without its check that the task is valid.
MayStartUnchecked(t, n) ==
  /\ ~(t.order = "start" /\ t.engine = "start")
  /\ ~(MaxProcesses > 0 /\ n >= MaxProcesses)

\* startProcess (lines 1039-1066) starts t when n processes are counted.
MayStart(t, n) ==
  /\ t.valid
  /\ ~(t.order = "start" /\ t.engine = "start")
  /\ ~(MaxProcesses > 0 /\ n >= MaxProcesses)

\* Mutant: startProcess starts the engine but forgets to set Order.
StartedEngineOnly(t) == [t EXCEPT !.engine = "start"]

Started(t) == [t EXCEPT !.order = "start", !.engine = "start"]

\* stopProcess (lines 1082-1105) acts unless the handle is nil or both
\* orders already say stop; when it acts it decrements r.nProc.
Stoppable(t) == t.engine # "none" /\ ~(t.order = "stop" /\ t.engine = "stop")

Stopped(t) == [t EXCEPT !.order = "stop", !.engine = "stop"]

StopProc(t) == IF Stoppable(t) THEN Stopped(t) ELSE t

StopDelta(t) == IF Stoppable(t) THEN 1 ELSE 0

\* Mutant: save() writes the order without the process config.
CatalogNoCfg(m) ==
  [id \in Ids |-> IF m[id] = NoTask THEN NoTask ELSE [order |-> m[id].order]]

\* save() (lines 379-389): the catalog of map m.
Catalog(m) ==
  [id \in Ids |-> IF m[id] = NoTask THEN NoTask
                  ELSE [order |-> m[id].order, cfg |-> m[id].cfg]]

\* A task as load() (lines 289-295) creates it before validating it.
Loaded(s) ==
  [order |-> s.order, cfg |-> s.cfg, engine |-> "none", valid |-> FALSE,
   parser |-> FALSE, usesDisk |-> FALSE, playout |-> {}]

\* The observer context of epoch e has been cancelled by Stop().
CtxDone(e) == ~(phase = "running" /\ e = epoch)

WithCleanup(set, cfg, id) == IF cfg.cleanup THEN set \cup {id} ELSE set

-----------------------------------------------------------------------------
(* New() with an empty store: load() finds nothing, save() writes nothing. *)
Init ==
  /\ tasks = [id \in Ids |-> NoTask]
  /\ nProc = 0
  /\ free = Ports
  /\ cleanup = {}
  /\ store = [id \in Ids |-> NoTask]
  /\ pending = [c \in Clients |-> NoTask]
  /\ phase = "stopped"
  /\ todo = {}
  /\ epoch = 0
  /\ obs = [e \in 1..MaxStarts |-> "none"]
  /\ diskFull = FALSE
  /\ restarts = 0
  /\ orphaned = FALSE
  /\ nilDeref = FALSE

-----------------------------------------------------------------------------
(* The API operations.                                                     *)

\* AddProcess, first half (lines 407-413): createTask under the read lock.
\* A reference error returns before any state changes; a GetPort error
\* returns after the ports obtained so far have left the pool.
AddBuild(c, cfg) ==
  /\ LockFree
  /\ pending[c] = NoTask
  /\ ~RefFails(cfg, tasks)
  /\ \E S \in Grab(cfg.playout, free) :
       /\ free' = free \ S
       /\ pending' = IF PortsOk(S, cfg.playout)
                       THEN [pending EXCEPT ![c] = NewTask(cfg, S)]
                       ELSE pending
  /\ UNCHANGED <<tasks, nProc, cleanup, store, phase, todo, epoch, obs,
                 diskFull, restarts, orphaned, nilDeref>>

\* AddProcess, second half (lines 415-438) under the write lock: the id
\* check, insertion, cleanup rules, startProcess and its rollback, save.
AddInsert(c) ==
  /\ LockFree
  /\ pending[c] # NoTask
  /\ LET t  == pending[c]
         id == t.cfg.id
     IN  /\ pending' = [pending EXCEPT ![c] = NoTask]
         /\ \/ /\ Has(id)
               /\ UNCHANGED <<tasks, nProc, cleanup, store>>
            \/ /\ ~Has(id)
               /\ t.order = "start"
               /\ ~MayStart(t, nProc)
               /\ cleanup' = WithCleanup(cleanup, t.cfg, id)
               /\ UNCHANGED <<tasks, nProc, store>>
            \/ /\ ~Has(id)
               /\ t.order = "start"
               /\ MayStart(t, nProc)
               /\ cleanup' = WithCleanup(cleanup, t.cfg, id)
               /\ tasks' = [tasks EXCEPT ![id] = Started(t)]
               /\ nProc' = nProc + 1
               /\ store' = Catalog(tasks')
            \/ /\ ~Has(id)
               /\ t.order = "stop"
               /\ cleanup' = WithCleanup(cleanup, t.cfg, id)
               /\ tasks' = [tasks EXCEPT ![id] = t]
               /\ UNCHANGED nProc
               /\ store' = Catalog(tasks')
  /\ UNCHANGED <<free, phase, todo, epoch, obs, diskFull, restarts,
                 orphaned, nilDeref>>

\* UpdateProcess (lines 864-911) with createTask, stopProcess,
\* deleteProcess and startProcess inlined.  The ports of the new task are
\* taken before every check that can still fail.  deleteProcess cannot
\* refuse here: a task with a parser has an engine, so stopProcess has
\* just set its order to stop.  UpdateWith is the update once createTask
\* has obtained the ports S.
UpdateWith(id, cfg, S) ==
  LET old == tasks[id]
      nid == cfg.id
  IN
  \/ /\ ~PortsOk(S, cfg.playout)
     /\ free' = free \ S
     /\ UNCHANGED <<tasks, nProc, cleanup, store, orphaned, nilDeref>>
  \/ /\ PortsOk(S, cfg.playout)
     /\ ~Has(id)
     /\ free' = free \ S
     /\ UNCHANGED <<tasks, nProc, cleanup, store, orphaned, nilDeref>>
  \/ /\ PortsOk(S, cfg.playout)
     /\ Has(id)
     /\ ~old.parser
     /\ free' = free \ S
     /\ nilDeref' = TRUE
     /\ UNCHANGED <<tasks, nProc, cleanup, store, orphaned>>
  \/ /\ PortsOk(S, cfg.playout)
     /\ Has(id)
     /\ old.parser
     /\ nid # id
     /\ Has(nid)
     /\ free' = free \ S
     /\ UNCHANGED <<tasks, nProc, cleanup, store, orphaned, nilDeref>>
  \/ /\ PortsOk(S, cfg.playout)
     /\ Has(id)
     /\ old.parser
     /\ nid = id \/ ~Has(nid)
     /\ LET st == StopProc(old)
            n1 == nProc - StopDelta(old)
            nt == [NewTask(cfg, S) EXCEPT !.order = old.order]
            go == nt.order = "start" /\ MayStart(nt, n1)
            m  == [[tasks EXCEPT ![id] = NoTask] EXCEPT
                     ![nid] = IF go THEN Started(nt) ELSE nt]
        IN  /\ st.order = "stop"
            /\ tasks' = m
            /\ nProc' = n1 + (IF go THEN 1 ELSE 0)
            /\ free' = (free \ S) \cup old.playout
            /\ cleanup' = WithCleanup(cleanup \ {id}, cfg, nid)
            /\ orphaned' = (orphaned \/ st.engine = "start")
            /\ store' = Catalog(m)
            /\ UNCHANGED nilDeref

UpdateProcess(id, cfg) ==
  /\ LockFree
  /\ ~RefFails(cfg, tasks)
  /\ \E S \in Grab(cfg.playout, free) : UpdateWith(id, cfg, S)
  /\ UNCHANGED <<pending, phase, todo, epoch, obs, diskFull, restarts>>

\* Mutant: deleteProcess without the check that the order is stop.
DeleteProcessNoOrderCheck(id) ==
  /\ LockFree
  /\ Has(id)
  /\ tasks' = [tasks EXCEPT ![id] = NoTask]
  /\ free' = free \cup tasks[id].playout
  /\ cleanup' = cleanup \ {id}
  /\ orphaned' = (orphaned \/ tasks[id].engine = "start")
  /\ store' = Catalog(tasks')
  /\ UNCHANGED <<nProc, pending, phase, todo, epoch, obs, diskFull, restarts,
                 nilDeref>>

\* Mutant: deleteProcess calls unsetPlayoutPorts before the order check,
\* so a refused delete still returns the task's ports to the pool.
DeleteProcessPutFirst(id) ==
  /\ LockFree
  /\ Has(id)
  /\ free' = free \cup tasks[id].playout
  /\ \/ /\ tasks[id].order = "stop"
        /\ tasks' = [tasks EXCEPT ![id] = NoTask]
        /\ cleanup' = cleanup \ {id}
        /\ orphaned' = (orphaned \/ tasks[id].engine = "start")
        /\ store' = Catalog(tasks')
     \/ /\ tasks[id].order # "stop"
        /\ UNCHANGED <<tasks, cleanup, orphaned, store>>
  /\ UNCHANGED <<nProc, pending, phase, todo, epoch, obs, diskFull, restarts,
                 nilDeref>>

\* DeleteProcess (lines 993-1023): only a task ordered to stop; its ports
\* go back to the pool and its cleanup rules are removed.
DeleteProcess(id) ==
  /\ LockFree
  /\ Has(id)
  /\ tasks[id].order = "stop"
  /\ tasks' = [tasks EXCEPT ![id] = NoTask]
  /\ free' = free \cup tasks[id].playout
  /\ cleanup' = cleanup \ {id}
  /\ orphaned' = (orphaned \/ tasks[id].engine = "start")
  /\ store' = Catalog(tasks')
  /\ UNCHANGED <<nProc, pending, phase, todo, epoch, obs, diskFull, restarts,
                 nilDeref>>

\* Mutant: StartProcess returns before save().
StartProcessNoSave(id) ==
  /\ LockFree
  /\ Has(id)
  /\ tasks[id].valid
  /\ \/ /\ tasks[id].order = "start"
        /\ tasks[id].engine = "start"
        /\ UNCHANGED <<tasks, nProc>>
     \/ /\ MayStart(tasks[id], nProc)
        /\ tasks' = [tasks EXCEPT ![id] = Started(@)]
        /\ nProc' = nProc + 1
  /\ UNCHANGED <<store, free, cleanup, pending, phase, todo, epoch, obs,
                 diskFull, restarts, orphaned, nilDeref>>

\* StartProcess (lines 1025-1066): a no-op when both orders say start,
\* otherwise refused at the cap; saved when it returns no error.
StartProcess(id) ==
  /\ LockFree
  /\ Has(id)
  /\ tasks[id].valid
  /\ \/ /\ tasks[id].order = "start"
        /\ tasks[id].engine = "start"
        /\ UNCHANGED <<tasks, nProc>>
     \/ /\ MayStart(tasks[id], nProc)
        /\ tasks' = [tasks EXCEPT ![id] = Started(@)]
        /\ nProc' = nProc + 1
  /\ store' = Catalog(tasks')
  /\ UNCHANGED <<free, cleanup, pending, phase, todo, epoch, obs, diskFull,
                 restarts, orphaned, nilDeref>>

\* StopProcess (lines 1068-1105).
StopProcess(id) ==
  /\ LockFree
  /\ Has(id)
  /\ tasks' = [tasks EXCEPT ![id] = StopProc(@)]
  /\ nProc' = nProc - StopDelta(tasks[id])
  /\ store' = Catalog(tasks')
  /\ UNCHANGED <<free, cleanup, pending, phase, todo, epoch, obs, diskFull,
                 restarts, orphaned, nilDeref>>

\* ReloadProcess (lines 1133-1207): the task is marked invalid first; a
\* reference error or a GetPort error returns with it invalid and its
\* engine untouched.  On success a running task is stopped, gets a new
\* engine handle and is started again; the start's error is ignored.
\* The reload once setPlayoutPorts has drawn the ports S from the pool
\* (the task's own ports released first).
ReloadWith(id, S) ==
  LET t   == tasks[id]
      was == t.order = "start"
      t1  == [t EXCEPT !.valid = FALSE, !.usesDisk = t.cfg.disk, !.playout = S]
      t2  == IF was THEN StopProc(t1) ELSE t1
      n2  == nProc - (IF was THEN StopDelta(t1) ELSE 0)
      t3  == [t2 EXCEPT !.parser = TRUE, !.engine = "stop", !.valid = TRUE]
      go  == was /\ MayStart(t3, n2)
  IN
  /\ free' = (free \cup t.playout) \ S
  /\ \/ /\ ~PortsOk(S, t.cfg.playout)
        /\ tasks' = [tasks EXCEPT ![id] = t1]
        /\ UNCHANGED <<nProc, store, orphaned>>
     \/ /\ PortsOk(S, t.cfg.playout)
        /\ tasks' = [tasks EXCEPT ![id] = IF go THEN Started(t3) ELSE t3]
        /\ nProc' = n2 + (IF go THEN 1 ELSE 0)
        /\ orphaned' = (orphaned \/ t2.engine = "start")
        /\ store' = Catalog(tasks')

\* Mutant: setPlayoutPorts requests the new ports before unsetPlayoutPorts
\* returns the task's old ones, so a reload draws from the pool alone.
ReloadProcessGetFirst(id) ==
  /\ LockFree
  /\ Has(id)
  /\ \/ /\ RefFails(tasks[id].cfg, tasks)
        /\ tasks' = [tasks EXCEPT ![id].valid = FALSE]
        /\ UNCHANGED <<nProc, free, store, orphaned>>
     \/ /\ ~RefFails(tasks[id].cfg, tasks)
        /\ \E S \in Grab(tasks[id].cfg.playout, free) : ReloadWith(id, S)
  /\ UNCHANGED <<cleanup, pending, phase, todo, epoch, obs, diskFull,
                 restarts, nilDeref>>

ReloadProcess(id) ==
  /\ LockFree
  /\ Has(id)
  /\ \/ /\ RefFails(tasks[id].cfg, tasks)
        /\ tasks' = [tasks EXCEPT ![id].valid = FALSE]
        /\ UNCHANGED <<nProc, free, store, orphaned>>
     \/ /\ ~RefFails(tasks[id].cfg, tasks)
        /\ \E S \in Grab(tasks[id].cfg.playout, free \cup tasks[id].playout) :
             ReloadWith(id, S)
  /\ UNCHANGED <<cleanup, pending, phase, todo, epoch, obs, diskFull,
                 restarts, nilDeref>>

-----------------------------------------------------------------------------
(* Start() and Stop() of the supervisor (lines 173-227).                   *)

\* startOnce: the loop visits every task under the write lock.
StartBegin ==
  /\ phase = "stopped"
  /\ epoch < MaxStarts
  /\ phase' = "starting"
  /\ todo' = Registered
  /\ UNCHANGED <<tasks, nProc, free, cleanup, store, pending, epoch, obs,
                 diskFull, restarts, orphaned, nilDeref>>

\* One iteration (lines 178-185): start a task ordered to start (errors
\* ignored, nothing saved) and install its cleanup rules.
StartStep(id) ==
  /\ phase = "starting"
  /\ id \in todo
  /\ todo' = todo \ {id}
  /\ \/ /\ tasks[id].order = "start"
        /\ MayStart(tasks[id], nProc)
        /\ tasks' = [tasks EXCEPT ![id] = Started(@)]
        /\ nProc' = nProc + 1
     \/ /\ ~(tasks[id].order = "start" /\ MayStart(tasks[id], nProc))
        /\ UNCHANGED <<tasks, nProc>>
  /\ cleanup' = WithCleanup(cleanup, tasks[id].cfg, id)
  /\ UNCHANGED <<free, store, pending, phase, epoch, obs, diskFull, restarts,
                 orphaned, nilDeref>>

\* Lines 187-198: a fresh observer context, one observer for the disk
\* filesystem, and the stop latch re-armed.
StartEnd ==
  /\ phase = "starting"
  /\ todo = {}
  /\ phase' = "running"
  /\ epoch' = epoch + 1
  /\ obs' = [obs EXCEPT ![epoch + 1] = "idle"]
  /\ UNCHANGED <<tasks, nProc, free, cleanup, store, pending, todo, diskFull,
                 restarts, orphaned, nilDeref>>

\* stopOnce (lines 202-227): every engine is stopped without touching the
\* tasks' orders or r.nProc, the registered tasks' cleanup rules are
\* removed and the observer context is cancelled.
Stop ==
  /\ phase = "running"
  /\ phase' = "stopped"
  /\ tasks' = [id \in Ids |->
                 IF Has(id) /\ tasks[id].engine # "none"
                   THEN [tasks[id] EXCEPT !.engine = "stop"]
                   ELSE tasks[id]]
  /\ cleanup' = cleanup \ Registered
  /\ UNCHANGED <<nProc, free, store, pending, todo, epoch, obs, diskFull,
                 restarts, orphaned, nilDeref>>

-----------------------------------------------------------------------------
(* The observer goroutine of epoch e (observe, lines 229-267).             *)

\* A tick finds the filesystem full (lines 237-244).  select picks the
\* ticker even when the context is already done if both are ready.
ObserverTick(e) ==
  /\ obs[e] = "idle"
  /\ diskFull
  /\ obs' = [obs EXCEPT ![e] = "pending"]
  /\ UNCHANGED <<tasks, nProc, free, cleanup, store, pending, phase, todo,
                 epoch, diskFull, restarts, orphaned, nilDeref>>

\* ctx.Done() is selected (lines 235-236).
ObserverExit(e) ==
  /\ obs[e] = "idle"
  /\ CtxDone(e)
  /\ obs' = [obs EXCEPT ![e] = "exited"]
  /\ UNCHANGED <<tasks, nProc, free, cleanup, store, pending, phase, todo,
                 epoch, diskFull, restarts, orphaned, nilDeref>>

\* Mutant: the sweep selects the tasks whose engine runs instead of the
\* tasks ordered to start.
ObserverSweepByEngine(e) ==
  /\ obs[e] = "pending"
  /\ LockFree
  /\ LET hit == {id \in Registered :
                   tasks[id].valid /\ tasks[id].usesDisk /\
                   tasks[id].engine = "start"}
     IN  /\ tasks' = [id \in Ids |->
                        IF id \in hit THEN Stopped(tasks[id]) ELSE tasks[id]]
         /\ nProc' = nProc - Cardinality(hit)
  /\ obs' = [obs EXCEPT ![e] = "idle"]
  /\ UNCHANGED <<free, cleanup, store, pending, phase, todo, epoch, diskFull,
                 restarts, orphaned, nilDeref>>

\* Under the write lock (lines 246-263): stopProcess on every valid task
\* that uses the disk and is ordered to start.  Nothing is saved.
ObserverSweep(e) ==
  /\ obs[e] = "pending"
  /\ LockFree
  /\ LET hit == {id \in Registered :
                   tasks[id].valid /\ tasks[id].usesDisk /\
                   tasks[id].order = "start"}
     IN  /\ tasks' = [id \in Ids |->
                        IF id \in hit THEN Stopped(tasks[id]) ELSE tasks[id]]
         /\ nProc' = nProc - Cardinality(hit)
  /\ obs' = [obs EXCEPT ![e] = "idle"]
  /\ UNCHANGED <<free, cleanup, store, pending, phase, todo, epoch, diskFull,
                 restarts, orphaned, nilDeref>>

-----------------------------------------------------------------------------
(* The environment: the disk fills up and is freed; the program exits     *)
(* and New() loads the persisted catalog again.                            *)

DiskFill ==
  /\ ~diskFull
  /\ diskFull' = TRUE
  /\ UNCHANGED <<tasks, nProc, free, cleanup, store, pending, phase, todo,
                 epoch, obs, restarts, orphaned, nilDeref>>

DiskFree ==
  /\ diskFull
  /\ diskFull' = FALSE
  /\ UNCHANGED <<tasks, nProc, free, cleanup, store, pending, phase, todo,
                 epoch, obs, restarts, orphaned, nilDeref>>

\* The program ends and New() (lines 112-171) starts over: a fresh port
\* pool, no cleanup rules, nProc = 0, and load() (lines 269-301) creates
\* a task, not yet validated, for every stored process.
ProgramRestart ==
  /\ restarts < MaxRestarts
  /\ restarts' = restarts + 1
  /\ tasks' = [id \in Ids |->
                 IF store[id] = NoTask THEN NoTask ELSE Loaded(store[id])]
  /\ nProc' = 0
  /\ free' = Ports
  /\ cleanup' = {}
  /\ pending' = [c \in Clients |-> NoTask]
  /\ phase' = "loading"
  /\ todo' = {id \in Ids : store[id] # NoTask}
  /\ obs' = [e \in 1..MaxStarts |-> "none"]
  /\ UNCHANGED <<store, epoch, diskFull, orphaned, nilDeref>>

\* One iteration of load()'s validation loop (lines 315-371), in map
\* order: a reference error or a GetPort error leaves the task invalid
\* without an engine or a parser.
LoadStep(id) ==
  /\ phase = "loading"
  /\ id \in todo
  /\ todo' = todo \ {id}
  /\ LET t == tasks[id] IN
     \/ /\ RefFails(t.cfg, tasks)
        /\ UNCHANGED <<tasks, free>>
     \/ /\ ~RefFails(t.cfg, tasks)
        /\ \E S \in Grab(t.cfg.playout, free) :
             /\ free' = free \ S
             /\ tasks' = [tasks EXCEPT ![id] =
                  IF PortsOk(S, t.cfg.playout)
                    THEN [t EXCEPT !.usesDisk = t.cfg.disk, !.playout = S,
                                   !.parser = TRUE, !.engine = "stop",
                                   !.valid = TRUE]
                    ELSE [t EXCEPT !.usesDisk = t.cfg.disk, !.playout = S]]
  /\ UNCHANGED <<nProc, cleanup, store, pending, phase, epoch, obs, diskFull,
                 restarts, orphaned, nilDeref>>

\* load() returns; New() saves (line 166) and arms only the stop latch.
LoadEnd ==
  /\ phase = "loading"
  /\ todo = {}
  /\ phase' = "stopped"
  /\ store' = Catalog(tasks)
  /\ UNCHANGED <<tasks, nProc, free, cleanup, pending, todo, epoch, obs,
                 diskFull, restarts, orphaned, nilDeref>>

-----------------------------------------------------------------------------
Next ==
  \/ \E c \in Clients, cfg \in Configs : AddBuild(c, cfg)
  \/ \E c \in Clients : AddInsert(c)
  \/ \E id \in Ids, cfg \in Configs : UpdateProcess(id, cfg)
  \/ \E id \in Ids : DeleteProcess(id) \/ StartProcess(id) \/ StopProcess(id)
                     \/ ReloadProcess(id)
  \/ StartBegin \/ (\E id \in Ids : StartStep(id)) \/ StartEnd \/ Stop
  \/ \E e \in 1..MaxStarts :
       ObserverTick(e) \/ ObserverExit(e) \/ ObserverSweep(e)
  \/ DiskFill \/ DiskFree
  \/ ProgramRestart \/ (\E id \in Ids : LoadStep(id)) \/ LoadEnd

Spec == Init /\ [][Next]_vars

-----------------------------------------------------------------------------
(* Properties.                                                             *)

Running == {id \in Registered : tasks[id].engine = "start"}

\* The type invariant.
TypeOK ==
  /\ tasks \in [Ids -> Task \cup {NoTask}]
  /\ nProc \in Int
  /\ free \subseteq Ports
  /\ cleanup \subseteq Ids
  /\ store \in [Ids -> Stored \cup {NoTask}]
  /\ pending \in [Clients -> Task \cup {NoTask}]
  /\ phase \in Phases
  /\ todo \subseteq Ids
  /\ epoch \in 0..MaxStarts
  /\ obs \in [1..MaxStarts -> ObsStates]
  /\ diskFull \in BOOLEAN
  /\ restarts \in 0..MaxRestarts
  /\ orphaned \in BOOLEAN
  /\ nilDeref \in BOOLEAN

\* Every engine handle the supervisor lets go of (DeleteProcess removing a
\* task, UpdateProcess replacing it, ReloadProcess swapping in a new handle)
\* has been told to stop: no ffmpeg process is left running that no task
\* can reach any more.
NoOrphanEngine == ~orphaned

\* Owners of playout ports: the registered tasks and the AddProcess calls
\* between createTask and insertion.
PortsOf(o) == IF o[1] = "task" THEN tasks[o[2]].playout ELSE pending[o[2]].playout

Owners ==
  {<<"task", id>> : id \in Registered} \cup
  {<<"build", c>> : c \in {x \in Clients : pending[x] # NoTask}}

\* A playout port is never held by two tasks (or builds) at once, and a
\* port the engine's pool can hand out again is held by none: the
\* unsetPlayoutPorts / setPlayoutPorts pairs of Reload, Update and Delete
\* never return a port that is still in use.
PortsExclusive ==
  /\ \A o \in Owners : PortsOf(o) \cap free = {}
  /\ \A o1, o2 \in Owners : o1 # o2 => PortsOf(o1) \cap PortsOf(o2) = {}

\* A task holds all its playout ports.
FullPorts(t) == t.valid => Cardinality(t.playout) = t.cfg.playout

\* Spec 4.5: a task the engine may run (a valid one) has a playout port
\* for each of its playout inputs.  setPlayoutPorts can fail after some
\* GetPort calls succeeded (line 598); createTask, reloadProcess and
\* load() must then leave the task invalid, whatever mix of reloads,
\* updates and restarts came before.
ValidTasksHavePorts == \A id \in Registered : FullPorts(tasks[id])

\* Every ffmpeg process the supervisor runs has a playout port for each of
\* its playout inputs, valid task or not.  A failed ReloadProcess leaves
\* the engine running (lines 1169-1172 return before stopProcess) after
\* setPlayoutPorts has already given the old ports back to the pool; the
\* reload must then have drawn all of them again.
RunningHavePorts ==
  \A id \in Running : Cardinality(tasks[id].playout) = tasks[id].cfg.playout

\* The engine of id runs after the step.
RunsAfter(id) == tasks'[id] # NoTask /\ tasks'[id].engine = "start"

\* The engine of id ran before the step, and the step left the task's
\* ports and config alone.
KeptRunning(id) ==
  /\ tasks[id] # NoTask /\ tasks[id].engine = "start"
  /\ tasks'[id].playout = tasks[id].playout /\ tasks'[id].cfg = tasks[id].cfg

\* No step starts an engine for an invalid task (startProcess refuses one,
\* lines 1045-1047), and no step gives a running engine other ports or
\* another config unless it builds a valid task for it: after every step,
\* a running engine belongs to a valid task or runs on as it did.
EnginesStartValid ==
  [][\A id \in Ids : RunsAfter(id) => tasks'[id].valid \/ KeptRunning(id)]_vars

\* Spec invariant 5: r.nProc counts the tasks whose engine was started and
\* not stopped since; the code's global Stop() stops every engine but
\* leaves r.nProc as it was.
NProcCountsRunning == nProc = Cardinality(Running)

\* Spec invariant 5 and the "start cap" test: with MaxProcesses > 0 no more
\* than MaxProcesses engines run at once.
CapRespected == MaxProcesses > 0 => Cardinality(Running) <= MaxProcesses

\* Spec 4.5 and 9: a failed AddProcess or UpdateProcess leaves no port
\* reserved; every port is in the pool or held by a task or a build.
PortsNotLeaked ==
  Ports = free \cup UNION {PortsOf(o) : o \in Owners}

\* Spec 3 (lifecycles): cleanup rules exist only for tasks in the registry;
\* AddProcess's rollback after a failed start must remove them.
CleanupOnlyForTasks == cleanup \subseteq Registered

\* Spec invariant 7: the persisted catalog is a valid input to load(); in
\* particular every reference in it names a stored process, so a task
\* valid before a restart is valid after it.
StoreSelfContained ==
  \A id \in Ids :
    store[id] # NoTask /\ store[id].cfg.ref # NoRef =>
      store[store[id].cfg.ref] # NoTask

\* Spec 7 (load is tolerant, invalid tasks are kept): UpdateProcess on a
\* task load() could not validate replaces it instead of calling
\* TransferReportHistory on its nil parser.
UpdateNeverNilParser == ~nilDeref

\* DeleteProcess needs the order stop, and StopProcess must be able to
\* get there: a task ordered to start has an engine StopProcess can stop.
StartedTaskStoppable ==
  phase # "loading" =>
    \A id \in Registered : tasks[id].order = "start" => tasks[id].engine # "none"

\* Spec 4.7: every successful mutation is saved, so when no writer holds
\* the lock the store records the order each task has in memory.
StoredOrderMatches ==
  LockFree =>
    \A id \in Registered : store[id] # NoTask /\ store[id].order = tasks[id].order

\* A task's engine runs on disk.
DiskWriter(id) == Has(id) /\ tasks[id].usesDisk /\ tasks[id].engine = "start"

\* Spec 8 (observer trips): while the supervisor runs and the disk stays
\* full, every engine that writes to disk is eventually stopped.
DiskFullStopsWriters ==
  (diskFull /\ phase = "running") ~>
    (~diskFull \/ phase # "running" \/ \A id \in Ids : ~DiskWriter(id))

\* The same for the tasks the observer considers: valid tasks that use the
\* disk are eventually no longer ordered to start.
DiskFullStopsValidWriters ==
  (diskFull /\ phase = "running") ~>
    (~diskFull \/ phase # "running" \/
     \A id \in Registered :
       ~(tasks[id].valid /\ tasks[id].usesDisk /\ tasks[id].order = "start"))

\* An engine handle is told to start only together with its task's order
\* (startProcess), and every path that stops the order stops the engine.
EngineOrderConsistent ==
  \A id \in Ids :
    tasks[id] # NoTask /\ tasks[id].engine = "start" => tasks[id].order = "start"

\* The inductive invariant behind NoOrphanEngine: besides the types, a
\* build waiting for insertion has an engine that was never started,
\* inside Start() an epoch is still left for its observer, and the loops
\* of load() and Start() visit only registered tasks.
IInv ==
  /\ TypeOK
  /\ phase = "starting" => epoch < MaxStarts
  /\ phase \in {"starting", "loading"} => todo \subseteq Registered
  /\ EngineOrderConsistent
  /\ \A c \in Clients : pending[c] # NoTask => pending[c].engine = "stop"
  /\ NoOrphanEngine

\* No engine runs while load() validates the catalog: New() starts from
\* nil handles and only Start() may start them.
LoadingIdle == phase = "loading" => Running = {}

\* The invariant behind the refinement proof.
RInv == IInv /\ LoadingIdle

\* The observer's ticker fires every 10 seconds and its sweep waits only
\* for the write lock, which every other holder releases.
Fairness ==
  \A e \in 1..MaxStarts : WF_vars(ObserverTick(e)) /\ WF_vars(ObserverSweep(e))

FairSpec == Spec /\ Fairness

-----------------------------------------------------------------------------
(* The supervisor implements the abstract catalog of ProcessCatalog: a    *)
(* process's order is its task's Order (absent without a task), the       *)
(* persisted order is the one save() last wrote, and the running set is  *)
(* the set of tasks whose engine was told to start.                       *)

OrderOf(x) == IF x = NoTask THEN "absent" ELSE x.order

memBar == [id \in Ids |-> OrderOf(tasks[id])]

diskBar == [id \in Ids |-> OrderOf(store[id])]

Abs == INSTANCE ProcessCatalog WITH mem <- memBar, disk <- diskBar, run <- Running

\* Every step of the supervisor is a step of the abstract catalog or leaves
\* it unchanged: only the observer changes an order without save(), only
\* a stopped process is deleted, UpdateProcess keeps the order, and
\* Start/Stop touch engines, not orders.
Refinement == Abs!Spec

\* save() follows every API call that changes an order, so where the store
\* and memory disagree about a process, the store says start and memory
\* says stop: the observer stopped it without saving.  A restart can only
\* bring back a start the observer took away, never lose a user's order.
StoreLagsOnlyByObserver == Abs!DiskLagsOnlyBySystemStop

=============================================================================
