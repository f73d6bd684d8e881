------------------------- MODULE RestreamRefinement -------------------------
(***************************************************************************)
(* Proof that the supervisor of Restream.tla implements the abstract      *)
(* catalog of ProcessCatalog.tla under the refinement mapping memBar,     *)
(* diskBar, Running, and that therefore the persisted catalog lags memory *)
(* only where the observer stopped a process.                              *)
(***************************************************************************)
EXTENDS RestreamProofs, TLAPS

-----------------------------------------------------------------------------
(* The mapping as operators of a task map.                                 *)

Bar(m) == [i \in Ids |-> OrderOf(m[i])]

RunSet(m) == {i \in Ids : m[i] # NoTask /\ m[i].engine = "start"}

LEMMA BarDefs ==
  /\ memBar = Bar(tasks) /\ diskBar = Bar(store) /\ Running = RunSet(tasks)
  /\ memBar' = Bar(tasks') /\ diskBar' = Bar(store') /\ Running' = RunSet(tasks')
BY DEF memBar, diskBar, Bar, Running, RunSet, Registered, Has

\* Writing one entry of r.tasks changes one process's order.
LEMMA BarExcept ==
  ASSUME NEW m, NEW X, m \in [Ids -> X], NEW id \in Ids, NEW t
  PROVE  Bar([m EXCEPT ![id] = t]) = [Bar(m) EXCEPT ![id] = OrderOf(t)]
BY DEF Bar

\* save() writes the order of every task.
LEMMA CatalogBar ==
  ASSUME NEW m \in [Ids -> Task \cup {NoTask}]
  PROVE  Bar(Catalog(m)) = Bar(m)
<1>1. ASSUME NEW i \in Ids, m[i] # NoTask
      PROVE  Catalog(m)[i] \in Stored /\ Catalog(m)[i].order = m[i].order
  BY <1>1 DEF Catalog, Stored, Task
<1>2. QED
  BY <1>1, StoredAssumption DEF Bar, OrderOf, Catalog

-----------------------------------------------------------------------------
(* No engine runs during load().                                           *)

LEMMA InitRInv == Init => RInv
<1>1. Init => LoadingIdle
  BY DEF Init, LoadingIdle
<1>2. QED
  BY <1>1, InitIInv DEF RInv

\* The steps that keep the phase and r.tasks keep LoadingIdle.
LEMMA IdleKeep ==
  ASSUME LoadingIdle, UNCHANGED <<phase, tasks>>
  PROVE  LoadingIdle'
BY BarDefs DEF LoadingIdle, RunSet

\* The steps that leave the phase other than loading.
LEMMA IdleLeave ==
  ASSUME phase' # "loading"
  PROVE  LoadingIdle'
BY DEF LoadingIdle

LEMMA NextLoadingIdle ==
  ASSUME IInv, LoadingIdle, [Next]_vars
  PROVE  LoadingIdle'
<1>1. CASE ProgramRestart
  <2>1. \A i \in Ids : tasks'[i] = NoTask \/ tasks'[i].engine = "none"
    BY <1>1, LoadedType DEF ProgramRestart, IInv, TypeOK
  <2>2. QED
    BY <2>1, BarDefs DEF LoadingIdle, RunSet
<1>2. ASSUME NEW id \in Ids, LoadStep(id) PROVE LoadingIdle'
  <2>1. phase' = phase /\ phase = "loading"
    BY <1>2 DEF LoadStep
  <2>2. tasks[id] \in Task
    BY <1>2, NoTaskAssumption DEF LoadStep, IInv, TypeOK, Registered, Has
  <2>3. tasks[id].engine # "start"
    BY <2>1, <2>2, NoTaskAssumption, BarDefs DEF LoadingIdle, RunSet
  <2>4. \/ tasks' = tasks
        \/ /\ tasks' = [tasks EXCEPT ![id] = tasks'[id]]
           /\ tasks'[id].engine \in {"stop", tasks[id].engine}
    <3>1. CASE UNCHANGED tasks
      BY <3>1
    <3>2. CASE ~UNCHANGED tasks
      <4>1. PICK S \in Grab(tasks[id].cfg.playout, free) :
              tasks' = [tasks EXCEPT ![id] =
                IF PortsOk(S, tasks[id].cfg.playout)
                  THEN [tasks[id] EXCEPT !.usesDisk = tasks[id].cfg.disk,
                          !.playout = S, !.parser = TRUE, !.engine = "stop",
                          !.valid = TRUE]
                  ELSE [tasks[id] EXCEPT !.usesDisk = tasks[id].cfg.disk,
                          !.playout = S]]
        BY <1>2, <3>2 DEF LoadStep
      <4>2. QED
        BY <4>1, <2>2 DEF IInv, TypeOK
    <3>3. QED
      BY <3>1, <3>2
  <2>5. \A i \in Ids : tasks'[i] = NoTask \/ tasks'[i].engine # "start"
    <3>1. \A i \in Ids : tasks[i] = NoTask \/ tasks[i].engine # "start"
      BY <2>1, BarDefs DEF LoadingIdle, RunSet
    <3>2. QED
      BY <3>1, <2>3, <2>4 DEF IInv, TypeOK
  <2>6. QED
    BY <2>5, BarDefs DEF LoadingIdle, RunSet
<1>3. CASE LoadEnd
  BY <1>3, IdleLeave DEF LoadEnd
<1>4. CASE StartBegin \/ StartEnd \/ Stop \/ (\E id \in Ids : StartStep(id))
  BY <1>4, IdleLeave DEF StartBegin, StartEnd, Stop, StartStep
<1>5. CASE \E e \in 1..MaxStarts : ObserverTick(e) \/ ObserverExit(e)
  BY <1>5, IdleKeep DEF ObserverTick, ObserverExit
<1>6. CASE DiskFill \/ DiskFree \/ UNCHANGED vars
  BY <1>6, IdleKeep DEF DiskFill, DiskFree, vars
<1>7. CASE \/ \E c \in Clients, cfg \in Configs : AddBuild(c, cfg)
           \/ \E c \in Clients : AddInsert(c)
           \/ \E id \in Ids, cfg \in Configs : UpdateProcess(id, cfg)
           \/ \E id \in Ids : DeleteProcess(id) \/ StartProcess(id)
                              \/ StopProcess(id) \/ ReloadProcess(id)
           \/ \E e \in 1..MaxStarts : ObserverSweep(e)
  <2>1. LockFree /\ phase' = phase
    BY <1>7 DEF AddBuild, AddInsert, UpdateProcess, DeleteProcess,
                StartProcess, StopProcess, ReloadProcess, ObserverSweep
  <2>2. QED
    BY <2>1, IdleLeave DEF LockFree
<1>8. QED
  BY <1>1, <1>2, <1>3, <1>4, <1>5, <1>6, <1>7 DEF Next

\* RInv holds in every reachable state.
THEOREM RInvInvariant == Spec => []RInv
<1>1. RInv /\ [Next]_vars => RInv'
  BY NextIInv, NextLoadingIdle DEF RInv
<1>2. QED
  BY <1>1, InitRInv, PTL DEF Spec


-----------------------------------------------------------------------------
(* Each step of the supervisor maps to a step of the abstract catalog.     *)

AbsStep == [Abs!Next]_Abs!absVars

\* Writing one entry of r.tasks moves one process's order and engine.
LEMMA PutStep ==
  ASSUME NEW id \in Ids, NEW t \in Task \cup {NoTask},
         tasks \in [Ids -> Task \cup {NoTask}],
         tasks' = [tasks EXCEPT ![id] = t]
  PROVE  /\ memBar' = [memBar EXCEPT ![id] = OrderOf(t)]
         /\ Running' = IF t # NoTask /\ t.engine = "start"
                         THEN Running \cup {id} ELSE Running \ {id}
         /\ tasks' \in [Ids -> Task \cup {NoTask}]
<1>1. memBar' = [memBar EXCEPT ![id] = OrderOf(t)]
  BY BarExcept, BarDefs
<1>2. Running' = IF t # NoTask /\ t.engine = "start"
                   THEN Running \cup {id} ELSE Running \ {id}
  BY BarDefs DEF RunSet
<1>3. QED
  BY <1>1, <1>2

\* What save() writes is what memory holds.
LEMMA SavedStep ==
  ASSUME tasks' \in [Ids -> Task \cup {NoTask}], store' = Catalog(tasks')
  PROVE  diskBar' = memBar'
BY CatalogBar, BarDefs

\* The order of a task.
LEMMA OrderOfTask ==
  ASSUME NEW t \in Task
  PROVE  OrderOf(t) = t.order /\ t.order # "absent"
BY NoTaskAssumption DEF OrderOf, Task, Orders

\* A step that touches neither r.tasks nor the store is a stutter.
LEMMA QuietStep ==
  ASSUME UNCHANGED <<tasks, store>>
  PROVE  AbsStep
BY BarDefs DEF AbsStep, Abs!absVars

\* Whether a task's engine runs.
LEMMA RunningAt ==
  ASSUME NEW id \in Ids, tasks[id] \in Task
  PROVE  id \in Running <=> tasks[id].engine = "start"
BY BarDefs, NoTaskAssumption DEF RunSet

\* Rewriting a task with its order and whether its engine runs kept.
LEMMA SameOrderRun ==
  ASSUME NEW id \in Ids, tasks \in [Ids -> Task \cup {NoTask}],
         tasks[id] \in Task, NEW f \in Task,
         tasks' = [tasks EXCEPT ![id] = f], f.order = tasks[id].order,
         f.engine = "start" <=> tasks[id].engine = "start"
  PROVE  memBar' = memBar /\ Running' = Running
<1>1. memBar' = [memBar EXCEPT ![id] = f.order] /\ memBar[id] = tasks[id].order
  BY PutStep, OrderOfTask DEF memBar
<1>2. memBar' = memBar
  BY <1>1 DEF memBar
<1>3. CASE f.engine = "start"
  <2>1. Running' = Running \cup {id} /\ id \in Running
    BY <1>3, PutStep, RunningAt, NoTaskAssumption
  <2>2. QED
    BY <1>2, <2>1
<1>4. CASE f.engine # "start"
  <2>1. Running' = Running \ {id} /\ id \notin Running
    BY <1>4, PutStep, RunningAt
  <2>2. QED
    BY <1>2, <2>1
<1>5. QED
  BY <1>2, <1>3, <1>4

\* A step that rewrites a task keeping its order and whether its engine
\* runs, and does not save, is a stutter.
LEMMA SameStep ==
  ASSUME IInv, NEW id \in Ids, tasks[id] \in Task, NEW f \in Task,
         tasks' = [tasks EXCEPT ![id] = f], f.order = tasks[id].order,
         f.engine = "start" <=> tasks[id].engine = "start",
         UNCHANGED store
  PROVE  AbsStep
<1>1. memBar' = memBar /\ Running' = Running
  BY SameOrderRun DEF IInv, TypeOK
<1>2. diskBar' = diskBar
  BY BarDefs
<1>3. QED
  BY <1>1, <1>2 DEF AbsStep, Abs!absVars

\* save() without a change of r.tasks.
LEMMA SaveStep ==
  ASSUME IInv, UNCHANGED tasks, store' = Catalog(tasks)
  PROVE  AbsStep
<1>1. Abs!Save
  BY CatalogBar, BarDefs DEF IInv, TypeOK, Abs!Save
<1>2. QED
  BY <1>1 DEF AbsStep, Abs!Next

\* A saved rewrite of a task that keeps its order and leaves its engine
\* off (stopProcess refusing, a reload that cannot stop the engine).
LEMMA KeepStep ==
  ASSUME IInv, NEW id \in Ids, tasks[id] \in Task, NEW f \in Task,
         tasks' = [tasks EXCEPT ![id] = f], f.order = tasks[id].order,
         f.engine # "start", tasks[id].engine # "start",
         store' = Catalog(tasks')
  PROVE  AbsStep
<1>1. tasks \in [Ids -> Task \cup {NoTask}]
  BY DEF IInv, TypeOK
<1>2. memBar' = memBar /\ Running' = Running
  BY <1>1, SameOrderRun
<1>3. diskBar' = memBar
  BY <1>1, <1>2, PutStep, SavedStep
<1>4. Abs!Save
  BY <1>2, <1>3 DEF Abs!Save
<1>5. QED
  BY <1>4 DEF AbsStep, Abs!Next

\* A saved write of a task with the order o whose engine runs exactly when
\* o is start: a user's order on an existing process.
LEMMA OrderStep ==
  ASSUME IInv, NEW id \in Ids, tasks[id] \in Task, NEW f \in Task,
         tasks' = [tasks EXCEPT ![id] = f],
         f.engine = "start" <=> f.order = "start",
         store' = Catalog(tasks')
  PROVE  AbsStep
<1>1. tasks \in [Ids -> Task \cup {NoTask}]
  BY DEF IInv, TypeOK
<1>2. f.order \in Abs!Orders
  BY DEF Task, Orders, Abs!Orders
<1>3. Abs!SetOrder(id, f.order)
  <2>1. memBar' = [memBar EXCEPT ![id] = f.order] /\ memBar[id] # "absent"
    BY <1>1, PutStep, OrderOfTask DEF memBar
  <2>2. Running' = IF f.order = "start" THEN Running \cup {id} ELSE Running \ {id}
    BY <1>1, PutStep, NoTaskAssumption
  <2>3. diskBar' = memBar'
    BY <1>1, PutStep, SavedStep
  <2>4. QED
    BY <2>1, <2>2, <2>3 DEF Abs!SetOrder, Abs!Absent
<1>4. QED
  BY <1>2, <1>3 DEF AbsStep, Abs!Next


\* A saved insertion of a task under a free id: a new process.
LEMMA CreateStep ==
  ASSUME IInv, NEW id \in Ids, ~Has(id), NEW f \in Task,
         tasks' = [tasks EXCEPT ![id] = f],
         f.engine = "start" <=> f.order = "start",
         store' = Catalog(tasks')
  PROVE  AbsStep
<1>1. tasks \in [Ids -> Task \cup {NoTask}]
  BY DEF IInv, TypeOK
<1>2. f.order \in Abs!Orders
  BY DEF Task, Orders, Abs!Orders
<1>3. Abs!Create(id, f.order)
  <2>1. memBar' = [memBar EXCEPT ![id] = f.order] /\ memBar[id] = "absent"
    BY <1>1, PutStep, OrderOfTask DEF memBar, Has, OrderOf
  <2>2. id \notin Running
    BY BarDefs DEF RunSet, Has
  <2>3. Running' = IF f.order = "start" THEN Running \cup {id} ELSE Running
    <3>1. Running' = IF f.engine = "start" THEN Running \cup {id} ELSE Running \ {id}
      BY <1>1, PutStep, NoTaskAssumption
    <3>2. QED
      BY <2>2, <3>1
  <2>4. diskBar' = memBar'
    BY <1>1, PutStep, SavedStep
  <2>5. QED
    BY <2>1, <2>3, <2>4 DEF Abs!Create, Abs!Absent
<1>4. QED
  BY <1>2, <1>3 DEF AbsStep, Abs!Next

\* The actions that touch neither r.tasks nor the store.
LEMMA QuietRef ==
  ASSUME \/ \E c \in Clients, cfg \in Configs : AddBuild(c, cfg)
         \/ StartBegin \/ StartEnd \/ DiskFill \/ DiskFree \/ UNCHANGED vars
         \/ \E e \in 1..MaxStarts : ObserverTick(e) \/ ObserverExit(e)
  PROVE  AbsStep
<1>1. UNCHANGED <<tasks, store>>
  BY DEF AddBuild, StartBegin, StartEnd, DiskFill, DiskFree, vars,
         ObserverTick, ObserverExit
<1>2. QED
  BY <1>1, QuietStep

\* AddProcess inserts a new process (started or not) or changes nothing.
LEMMA AddInsertRef ==
  ASSUME IInv, NEW c \in Clients, AddInsert(c)
  PROVE  AbsStep
<1> DEFINE t == pending[c]
           id == t.cfg.id
<1>1. t \in Task /\ t.engine = "stop" /\ id \in Ids
  BY TaskFields DEF AddInsert, IInv, TypeOK
<1>2. CASE UNCHANGED <<tasks, store>>
  BY <1>2, QuietStep
<1>3. CASE ~Has(id) /\ tasks' = [tasks EXCEPT ![id] = Started(t)]
           /\ store' = Catalog(tasks')
  BY <1>1, <1>3, TaskOps, CreateStep
<1>4. CASE ~Has(id) /\ t.order = "stop" /\ tasks' = [tasks EXCEPT ![id] = t]
           /\ store' = Catalog(tasks')
  BY <1>1, <1>4, CreateStep
<1>5. QED
  BY <1>2, <1>3, <1>4 DEF AddInsert

\* DeleteProcess removes a process ordered to stop.
LEMMA DeleteRef ==
  ASSUME IInv, NEW id \in Ids, DeleteProcess(id)
  PROVE  AbsStep
<1>1. tasks \in [Ids -> Task \cup {NoTask}] /\ tasks[id] \in Task
  BY NoTaskAssumption DEF IInv, TypeOK, DeleteProcess, Has
<1>2. tasks' = [tasks EXCEPT ![id] = NoTask] /\ store' = Catalog(tasks')
      /\ tasks[id].order = "stop"
  BY DEF DeleteProcess
<1>3. Abs!Remove(id)
  <2>1. memBar' = [memBar EXCEPT ![id] = "absent"] /\ memBar[id] = "stop"
    BY <1>1, <1>2, PutStep, OrderOfTask DEF memBar, OrderOf
  <2>2. Running' = Running \ {id}
    BY <1>1, <1>2, PutStep
  <2>3. diskBar' = memBar'
    BY <1>1, <1>2, PutStep, SavedStep
  <2>4. QED
    BY <2>1, <2>2, <2>3 DEF Abs!Remove, Abs!Absent
<1>4. QED
  BY <1>3 DEF AbsStep, Abs!Next

\* StartProcess orders a process to start, or only saves.
LEMMA StartProcessRef ==
  ASSUME IInv, NEW id \in Ids, StartProcess(id)
  PROVE  AbsStep
<1>1. tasks[id] \in Task
  BY NoTaskAssumption DEF IInv, TypeOK, StartProcess, Has
<1>2. CASE UNCHANGED tasks
  BY <1>2, SaveStep DEF StartProcess
<1>3. CASE tasks' = [tasks EXCEPT ![id] = Started(tasks[id])]
  BY <1>1, <1>3, TaskOps, OrderStep DEF StartProcess
<1>4. QED
  BY <1>2, <1>3 DEF StartProcess

\* StopProcess orders a process to stop, or only saves.
LEMMA StopProcessRef ==
  ASSUME IInv, NEW id \in Ids, StopProcess(id)
  PROVE  AbsStep
<1>1. tasks[id] \in Task
  BY NoTaskAssumption DEF IInv, TypeOK, StopProcess, Has
<1>2. tasks' = [tasks EXCEPT ![id] = StopProc(tasks[id])] /\ store' = Catalog(tasks')
  BY DEF StopProcess
<1>3. CASE Stoppable(tasks[id])
  BY <1>1, <1>2, <1>3, TaskOps, OrderStep DEF StopProc
<1>4. CASE ~Stoppable(tasks[id])
  <2>1. StopProc(tasks[id]) = tasks[id] /\ tasks[id].engine # "start"
    BY <1>4 DEF StopProc, Stoppable
  <2>2. QED
    BY <1>1, <1>2, <2>1, KeepStep
<1>5. QED
  BY <1>3, <1>4

\* An iteration of Start() resumes the engine of a process ordered to start.
LEMMA StartStepRef ==
  ASSUME IInv, NEW id \in Ids, StartStep(id)
  PROVE  AbsStep
<1>1. tasks \in [Ids -> Task \cup {NoTask}] /\ tasks[id] \in Task
  BY NoTaskAssumption DEF IInv, TypeOK, StartStep, Registered, Has
<1>2. UNCHANGED store
  BY DEF StartStep
<1>3. CASE tasks[id].order = "start"
           /\ tasks' = [tasks EXCEPT ![id] = Started(tasks[id])]
  <2>1. Abs!Resume(id)
    <3>1. memBar' = [memBar EXCEPT ![id] = "start"] /\ memBar[id] = "start"
      BY <1>1, <1>3, PutStep, TaskOps, OrderOfTask DEF memBar
    <3>2. memBar' = memBar
      BY <3>1 DEF memBar
    <3>3. Running' = Running \cup {id}
      BY <1>1, <1>3, PutStep, TaskOps, NoTaskAssumption
    <3>4. QED
      BY <1>2, <3>1, <3>2, <3>3, BarDefs DEF Abs!Resume
  <2>2. QED
    BY <2>1 DEF AbsStep, Abs!Next
<1>4. CASE UNCHANGED tasks
  BY <1>2, <1>4, QuietStep
<1>5. QED
  BY <1>3, <1>4 DEF StartStep

\* New() saves what load() left in memory.
LEMMA LoadEndRef ==
  ASSUME IInv, LoadEnd
  PROVE  AbsStep
BY SaveStep DEF LoadEnd

\* An iteration of load() validates a task: no order changes and no engine
\* starts.
LEMMA LoadStepRef ==
  ASSUME RInv, NEW id \in Ids, LoadStep(id)
  PROVE  AbsStep
<1>1. tasks[id] \in Task /\ phase = "loading"
  BY NoTaskAssumption DEF RInv, IInv, TypeOK, LoadStep, Registered, Has
<1>2. tasks[id].engine # "start"
  BY <1>1, RunningAt DEF RInv, LoadingIdle
<1>3. UNCHANGED store
  BY DEF LoadStep
<1>4. CASE UNCHANGED tasks
  BY <1>3, <1>4, QuietStep
<1>5. CASE ~UNCHANGED tasks
  <2> DEFINE t == tasks[id]
  <2>1. PICK S \in Grab(t.cfg.playout, free) :
          tasks' = [tasks EXCEPT ![id] =
            IF PortsOk(S, t.cfg.playout)
              THEN [t EXCEPT !.usesDisk = t.cfg.disk, !.playout = S,
                             !.parser = TRUE, !.engine = "stop", !.valid = TRUE]
              ELSE [t EXCEPT !.usesDisk = t.cfg.disk, !.playout = S]]
    BY <1>5 DEF LoadStep
  <2>2. S \subseteq Ports /\ t.cfg.disk \in BOOLEAN
    BY <1>1, <2>1, GrabSubset, TaskFields DEF RInv, IInv, TypeOK
  <2>3. CASE PortsOk(S, t.cfg.playout)
    <3> DEFINE f == [t EXCEPT !.usesDisk = t.cfg.disk, !.playout = S,
                              !.parser = TRUE, !.engine = "stop", !.valid = TRUE]
    <3>1. f \in Task /\ f.order = t.order /\ f.engine = "stop"
      BY <1>1, <2>2 DEF Task, EngineOrders
    <3>2. QED
      BY <1>1, <1>2, <1>3, <2>1, <2>3, <3>1, SameStep DEF RInv
  <2>4. CASE ~PortsOk(S, t.cfg.playout)
    <3> DEFINE f == [t EXCEPT !.usesDisk = t.cfg.disk, !.playout = S]
    <3>1. f \in Task /\ f.order = t.order /\ f.engine = t.engine
      BY <1>1, <2>2 DEF Task
    <3>2. QED
      BY <1>1, <1>3, <2>1, <2>4, <3>1, SameStep DEF RInv
  <2>5. QED
    BY <2>3, <2>4
<1>6. QED
  BY <1>4, <1>5


\* Stop() halts every engine and keeps the orders.
LEMMA StopRef ==
  ASSUME IInv, Stop
  PROVE  AbsStep
<1>1. \A i \in Ids : Has(i) => [tasks[i] EXCEPT !.engine = "stop"] \in Task
  BY DEF IInv, TypeOK, Task, EngineOrders, Has
<1>2. memBar' = memBar
  BY <1>1, NoTaskAssumption DEF Stop, memBar, OrderOf, Has
<1>3. Running' = {}
  BY BarDefs DEF Stop, RunSet, Has
<1>4. diskBar' = diskBar
  BY DEF Stop, diskBar
<1>5. Abs!Halt
  BY <1>2, <1>3, <1>4 DEF Abs!Halt
<1>6. QED
  BY <1>5 DEF AbsStep, Abs!Next

\* The observer's sweep stops, without saving, the processes it selects.
LEMMA SweepRef ==
  ASSUME IInv, NEW e \in 1..MaxStarts, ObserverSweep(e)
  PROVE  AbsStep
<1> DEFINE hit == {id \in Registered :
                     tasks[id].valid /\ tasks[id].usesDisk /\
                     tasks[id].order = "start"}
<1>1. tasks' = [id \in Ids |-> IF id \in hit THEN Stopped(tasks[id]) ELSE tasks[id]]
      /\ UNCHANGED store
  BY DEF ObserverSweep
<1>2. \A i \in hit : tasks[i] \in Task /\ i \in Ids
  BY DEF IInv, TypeOK, Registered, Has
<1>3. hit \in SUBSET Ids /\ hit \subseteq {i \in Ids : memBar[i] = "start"}
  BY <1>2, OrderOfTask DEF memBar
<1>4. memBar' = [i \in Ids |-> IF i \in hit THEN "stop" ELSE memBar[i]]
  BY <1>1, <1>2, TaskOps, OrderOfTask DEF memBar
<1>5. Running' = Running \ hit
  BY <1>1, <1>2, TaskOps, NoTaskAssumption, BarDefs DEF RunSet
<1>6. diskBar' = diskBar
  BY <1>1 DEF diskBar
<1>7. Abs!SystemStop(hit)
  BY <1>3, <1>4, <1>5, <1>6 DEF Abs!SystemStop
<1>8. QED
  BY <1>3, <1>7 DEF AbsStep, Abs!Next

\* New() loads the persisted catalog with no engine.
LEMMA RestartRef ==
  ASSUME IInv, ProgramRestart
  PROVE  AbsStep
<1>1. tasks' = [id \in Ids |-> IF store[id] = NoTask THEN NoTask
                                ELSE Loaded(store[id])]
      /\ UNCHANGED store
  BY DEF ProgramRestart
<1>2. \A i \in Ids : store[i] # NoTask =>
        /\ Loaded(store[i]) \in Task /\ Loaded(store[i]).engine = "none"
        /\ Loaded(store[i]).order = store[i].order
  BY LoadedType DEF IInv, TypeOK, Loaded
<1>3. memBar' = diskBar
  BY <1>1, <1>2, NoTaskAssumption DEF memBar, diskBar, OrderOf
<1>4. Running' = {}
  BY <1>1, <1>2, BarDefs DEF RunSet
<1>5. diskBar' = diskBar
  BY <1>1 DEF diskBar
<1>6. Abs!Reboot
  BY <1>3, <1>4, <1>5 DEF Abs!Reboot
<1>7. QED
  BY <1>6 DEF AbsStep, Abs!Next


\* UpdateProcess moves a process to the id of its new config and keeps its
\* order, or changes nothing the catalog shows.
LEMMA UpdateRef ==
  ASSUME IInv, NEW id \in Ids, NEW cfg \in Configs, UpdateProcess(id, cfg)
  PROVE  AbsStep
<1>1. PICK S \in Grab(cfg.playout, free) : UpdateWith(id, cfg, S)
  BY DEF UpdateProcess
<1> DEFINE old == tasks[id]
           nid == cfg.id
           nt  == [NewTask(cfg, S) EXCEPT !.order = old.order]
           go  == nt.order = "start" /\ MayStart(nt, nProc - StopDelta(old))
           X   == IF go THEN Started(nt) ELSE nt
           T1  == [tasks EXCEPT ![id] = NoTask]
<1>2. CASE UNCHANGED <<tasks, store>>
  BY <1>2, QuietStep
<1>3. CASE /\ Has(id) /\ (nid = id \/ ~Has(nid))
           /\ tasks' = [T1 EXCEPT ![nid] = X] /\ store' = Catalog(tasks')
  <2>1. tasks \in [Ids -> Task \cup {NoTask}] /\ old \in Task /\ nid \in Ids
    BY <1>3, NoTaskAssumption, ConfigsAssumption DEF IInv, TypeOK, Has, ConfigRec
  <2>2. nt \in Task /\ nt.engine = "stop" /\ nt.order = old.order
    <3>1. S \subseteq Ports
      BY GrabSubset DEF IInv, TypeOK
    <3>2. NewTask(cfg, S) \in Task /\ NewTask(cfg, S).engine = "stop"
      BY <3>1, NewTaskType
    <3>3. QED
      BY <2>1, <3>2 DEF Task
  <2>3. X \in Task /\ X.order = old.order /\ (X.engine = "start" => old.order = "start")
    BY <2>2, TaskOps
  <2>4. memBar' = [[memBar EXCEPT ![id] = "absent"] EXCEPT ![nid] = memBar[id]]
    <3>1. T1 \in [Ids -> Task \cup {NoTask}]
      BY <2>1
    <3>2. Bar(T1) = [memBar EXCEPT ![id] = "absent"]
      BY <2>1, BarExcept, BarDefs DEF OrderOf
    <3>3. memBar' = [Bar(T1) EXCEPT ![nid] = OrderOf(X)]
      BY <1>3, <2>1, <3>1, BarExcept, BarDefs
    <3>4. OrderOf(X) = memBar[id]
      BY <2>1, <2>3, OrderOfTask DEF memBar
    <3>5. QED
      BY <3>2, <3>3, <3>4
  <2>5. Running' = (Running \ {id}) \cup (IF X.engine = "start" THEN {nid} ELSE {})
    <3>1. nid # id => nid \notin Running
      BY <1>3, BarDefs DEF RunSet, Has
    <3>2. QED
      BY <1>3, <2>1, <2>3, <3>1, NoTaskAssumption, BarDefs DEF RunSet
  <2>6. diskBar' = memBar'
    BY <1>3, <2>1, <2>3, SavedStep
  <2>7. Abs!Move(id, nid)
    <3>1. memBar[id] # "absent" /\ (nid = id \/ memBar[nid] = "absent")
      BY <1>3, <2>1, OrderOfTask DEF memBar, Has, OrderOf
    <3>2. \/ Running' = Running \ {id}
          \/ memBar[id] = "start" /\ Running' = (Running \ {id}) \cup {nid}
      BY <2>1, <2>3, <2>5, OrderOfTask DEF memBar
    <3>3. QED
      BY <2>4, <2>6, <3>1, <3>2 DEF Abs!Move, Abs!Absent
  <2>8. QED
    BY <2>1, <2>7 DEF AbsStep, Abs!Next
<1>4. QED
  BY <1>1, <1>2, <1>3 DEF UpdateWith


\* ReloadProcess re-creates a task.  It ends ordered to start with its
\* engine running, or ordered to stop, or, when the old engine had no
\* handle, ordered to start with the new engine not started.  A failed
\* reload changes nothing the catalog shows.
LEMMA ReloadRef ==
  ASSUME IInv, NEW id \in Ids, ReloadProcess(id)
  PROVE  AbsStep
<1> DEFINE t == tasks[id]
<1>1. t \in Task
  BY NoTaskAssumption DEF IInv, TypeOK, ReloadProcess, Has
<1>2. CASE tasks' = [tasks EXCEPT ![id].valid = FALSE] /\ UNCHANGED store
  <2> DEFINE f == [t EXCEPT !.valid = FALSE]
  <2>1. /\ f \in Task /\ tasks' = [tasks EXCEPT ![id] = f]
        /\ f.order = t.order /\ f.engine = t.engine
    BY <1>1, <1>2 DEF Task
  <2>2. QED
    BY <1>1, <1>2, <2>1, SameStep
<1>3. ASSUME NEW S \in Grab(t.cfg.playout, free \cup t.playout), ReloadWith(id, S)
      PROVE  AbsStep
  <2> DEFINE was == t.order = "start"
             t1  == [t EXCEPT !.valid = FALSE, !.usesDisk = t.cfg.disk, !.playout = S]
             t2  == IF was THEN StopProc(t1) ELSE t1
             n2  == nProc - (IF was THEN StopDelta(t1) ELSE 0)
             t3  == [t2 EXCEPT !.parser = TRUE, !.engine = "stop", !.valid = TRUE]
             go  == was /\ MayStart(t3, n2)
  <2>1. S \subseteq Ports /\ t.cfg.disk \in BOOLEAN
    BY <1>1, GrabSubset, TaskFields DEF IInv, TypeOK
  <2>2. t1 \in Task /\ t1.order = t.order /\ t1.engine = t.engine
    BY <1>1, <2>1 DEF Task
  <2>3. t2 \in Task /\ t3 \in Task /\ t3.order = t2.order /\ t3.engine = "stop"
    BY <2>2, TaskOps DEF Task, EngineOrders
  <2>4. CASE tasks' = [tasks EXCEPT ![id] = t1] /\ UNCHANGED store
    BY <1>1, <2>2, <2>4, SameStep
  <2>5. CASE go /\ tasks' = [tasks EXCEPT ![id] = Started(t3)]
             /\ store' = Catalog(tasks')
    BY <1>1, <2>3, <2>5, TaskOps, OrderStep
  <2>6. CASE ~go /\ tasks' = [tasks EXCEPT ![id] = t3]
             /\ store' = Catalog(tasks')
    <3>1. CASE t3.order = "stop"
      BY <1>1, <2>3, <2>6, <3>1, OrderStep
    <3>2. CASE t3.order # "stop"
      <4>1. t2.order # "stop" /\ was
        BY <2>2, <2>3, <3>2 DEF Task, Orders
      <4>2. ~Stoppable(t1)
        BY <2>2, <4>1, TaskOps DEF StopProc
      <4>3. t.engine # "start" /\ t3.order = t.order
        BY <2>2, <2>3, <4>1, <4>2 DEF Stoppable, StopProc
      <4>4. QED
        BY <1>1, <2>3, <2>6, <4>3, KeepStep
    <3>3. QED
      BY <3>1, <3>2
  <2>7. QED
    BY <1>3, <2>4, <2>5, <2>6 DEF ReloadWith
<1>4. QED
  BY <1>2, <1>3 DEF ReloadProcess


LEMMA NextRef ==
  ASSUME RInv, [Next]_vars
  PROVE  AbsStep
<1> USE DEF RInv
<1>1. CASE \E c \in Clients : AddInsert(c)
  BY <1>1, AddInsertRef
<1>2. CASE \E id \in Ids, cfg \in Configs : UpdateProcess(id, cfg)
  BY <1>2, UpdateRef
<1>3. CASE \E id \in Ids : DeleteProcess(id) \/ StartProcess(id)
                          \/ StopProcess(id) \/ ReloadProcess(id)
  BY <1>3, DeleteRef, StartProcessRef, StopProcessRef, ReloadRef
<1>4. CASE \E id \in Ids : StartStep(id)
  BY <1>4, StartStepRef
<1>5. CASE Stop
  BY <1>5, StopRef
<1>6. CASE \E e \in 1..MaxStarts : ObserverSweep(e)
  BY <1>6, SweepRef
<1>7. CASE ProgramRestart
  BY <1>7, RestartRef
<1>8. CASE \E id \in Ids : LoadStep(id)
  BY <1>8, LoadStepRef
<1>9. CASE LoadEnd
  BY <1>9, LoadEndRef
<1>10. CASE \/ \E c \in Clients, cfg \in Configs : AddBuild(c, cfg)
            \/ StartBegin \/ StartEnd \/ DiskFill \/ DiskFree \/ UNCHANGED vars
            \/ \E e \in 1..MaxStarts : ObserverTick(e) \/ ObserverExit(e)
  BY <1>10, QuietRef
<1>11. QED
  BY <1>1, <1>2, <1>3, <1>4, <1>5, <1>6, <1>7, <1>8, <1>9, <1>10 DEF Next

\* New() with an empty store is the empty catalog.
LEMMA InitRef == Init => Abs!Init
BY BarDefs DEF Init, Abs!Init, Abs!Absent, memBar, diskBar, OrderOf, RunSet

\* The supervisor implements the abstract catalog: every operation of
\* restream.go, under every interleaving of callers, Start/Stop, the
\* observer and restarts, is a step of ProcessCatalog or leaves the
\* process orders, the saved orders and the running engines as they were.
THEOREM Implementation == Spec => Refinement
<1>1. RInv /\ [Next]_vars => [Abs!Next]_Abs!absVars
  BY NextRef DEF AbsStep
<1>2. QED
  BY <1>1, InitRef, RInvInvariant, PTL DEF Spec, Refinement, Abs!Spec

\* Every API call that changes an order saves it, so the persisted catalog
\* differs from memory only where the observer stopped a process ordered
\* to start: a restart never loses an order a user gave.
THEOREM StoreLags == Spec => []StoreLagsOnlyByObserver
<1>1. Abs!AbsInv => Abs!DiskLagsOnlyBySystemStop
  BY DEF Abs!AbsInv
<1>2. QED
  BY <1>1, Implementation, Abs!AbsInvariant, PTL
     DEF Refinement, StoreLagsOnlyByObserver

=============================================================================
