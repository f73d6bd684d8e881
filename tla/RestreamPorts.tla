---------------------------- MODULE RestreamPorts ----------------------------
(***************************************************************************)
(* Proof that the playout ports of Restream.tla are exclusive: no port is *)
(* held by two tasks or builds, and no port the pool can hand out again   *)
(* is held by anyone (PortsExclusive), for every set of ids, callers and  *)
(* ports.  The argument is about who holds which ports: every operation   *)
(* that hands a task or a build new ports takes them from the pool (or    *)
(* from what the same task held), and every port that goes back to the   *)
(* pool leaves its holder in the same step.                                *)
(***************************************************************************)
EXTENDS RestreamProofs

\* The ports a registered task holds (task.playout), per id.
HeldPorts == [i \in Ids |-> IF tasks[i] = NoTask THEN {} ELSE tasks[i].playout]

\* The ports a pending AddProcess build holds, per caller.
ParkedPorts ==
  [c \in Clients |-> IF pending[c] = NoTask THEN {} ELSE pending[c].playout]

\* Holders H (per id) and P (per caller) and the pool F are pairwise
\* disjoint.
Excl(H, P, F) ==
  /\ \A i \in Ids : H[i] \cap F = {}
  /\ \A c \in Clients : P[c] \cap F = {}
  /\ \A i, j \in Ids : i # j => H[i] \cap H[j] = {}
  /\ \A c, d \in Clients : c # d => P[c] \cap P[d] = {}
  /\ \A i \in Ids, c \in Clients : H[i] \cap P[c] = {}

\* PortsExclusive stated per holder.
PortsDisjoint == Excl(HeldPorts, ParkedPorts, free)

\* The inductive invariant: IInv (for the types) and the disjointness.
PInv == IInv /\ PortsDisjoint

-----------------------------------------------------------------------------
(* Lemmas about Excl: how holdings may change without two holders ever    *)
(* sharing a port.                                                         *)

\* A task's holding is replaced by ports taken from the pool or from what
\* it held; what is left of both may go back to the pool, or be dropped.
LEMMA ReassignHeld ==
  ASSUME NEW H \in [Ids -> SUBSET Ports], NEW P, NEW F, Excl(H, P, F),
         NEW i \in Ids, NEW S, S \subseteq F \cup H[i],
         NEW F2, F2 \subseteq (F \cup H[i]) \ S
  PROVE  Excl([H EXCEPT ![i] = S], P, F2)
BY DEF Excl

\* The same for a build's holding.
LEMMA ReassignParked ==
  ASSUME NEW H, NEW P \in [Clients -> SUBSET Ports], NEW F, Excl(H, P, F),
         NEW c \in Clients, NEW S, S \subseteq F \cup P[c],
         NEW F2, F2 \subseteq (F \cup P[c]) \ S
  PROVE  Excl(H, [P EXCEPT ![c] = S], F2)
BY DEF Excl

\* Ports taken from the pool and dropped.
LEMMA ShrinkFree ==
  ASSUME NEW H, NEW P, NEW F, Excl(H, P, F), NEW F2, F2 \subseteq F
  PROVE  Excl(H, P, F2)
BY DEF Excl

\* A build's ports move to a task that held none.
LEMMA MoveParked ==
  ASSUME NEW H \in [Ids -> SUBSET Ports], NEW P \in [Clients -> SUBSET Ports],
         NEW F, Excl(H, P, F), NEW i \in Ids, NEW c \in Clients, H[i] = {}
  PROVE  Excl([H EXCEPT ![i] = P[c]], [P EXCEPT ![c] = {}], F)
BY DEF Excl

\* The holders' ports, typed.
LEMMA HoldTypes ==
  ASSUME TypeOK
  PROVE  /\ HeldPorts \in [Ids -> SUBSET Ports]
         /\ ParkedPorts \in [Clients -> SUBSET Ports]
BY DEF TypeOK, HeldPorts, ParkedPorts, Task

\* The per-holder disjointness is PortsExclusive: an owner is a registered
\* task or a pending build, and its ports are its holding.
LEMMA DisjointExclusive == TypeOK /\ PortsDisjoint => PortsExclusive
<1> SUFFICES ASSUME TypeOK, PortsDisjoint PROVE PortsExclusive
  OBVIOUS
<1> DEFINE IsTask(o, i) == o = <<"task", i>> /\ PortsOf(o) = HeldPorts[i]
           IsBuild(o, c) == o = <<"build", c>> /\ PortsOf(o) = ParkedPorts[c]
<1>1. ASSUME NEW o \in Owners
      PROVE  (\E i \in Ids : IsTask(o, i)) \/ (\E c \in Clients : IsBuild(o, c))
  BY DEF Owners, PortsOf, HeldPorts, ParkedPorts, Registered, Has
<1>2. \A o \in Owners : PortsOf(o) \cap free = {}
  BY <1>1 DEF PortsDisjoint, Excl
<1>3. ASSUME NEW o1 \in Owners, NEW o2 \in Owners, o1 # o2
      PROVE  PortsOf(o1) \cap PortsOf(o2) = {}
  <2>1. CASE \E i \in Ids : IsTask(o1, i)
    <3>1. PICK i \in Ids : IsTask(o1, i)
      BY <2>1
    <3>2. CASE \E j \in Ids : IsTask(o2, j)
      <4>1. PICK j \in Ids : IsTask(o2, j)
        BY <3>2
      <4>2. i # j
        BY <1>3, <3>1, <4>1
      <4>3. QED
        BY <3>1, <4>1, <4>2 DEF PortsDisjoint, Excl
    <3>3. CASE \E d \in Clients : IsBuild(o2, d)
      <4>1. PICK d \in Clients : IsBuild(o2, d)
        BY <3>3
      <4>2. QED
        BY <3>1, <4>1 DEF PortsDisjoint, Excl
    <3>4. QED
      BY <1>1, <3>2, <3>3
  <2>2. CASE \E c \in Clients : IsBuild(o1, c)
    <3>1. PICK c \in Clients : IsBuild(o1, c)
      BY <2>2
    <3>2. CASE \E j \in Ids : IsTask(o2, j)
      <4>1. PICK j \in Ids : IsTask(o2, j)
        BY <3>2
      <4>2. QED
        BY <3>1, <4>1 DEF PortsDisjoint, Excl
    <3>3. CASE \E d \in Clients : IsBuild(o2, d)
      <4>1. PICK d \in Clients : IsBuild(o2, d)
        BY <3>3
      <4>2. c # d
        BY <1>3, <3>1, <4>1
      <4>3. QED
        BY <3>1, <4>1, <4>2 DEF PortsDisjoint, Excl
    <3>4. QED
      BY <1>1, <3>2, <3>3
  <2>3. QED
    BY <1>1, <2>1, <2>2
<1>4. QED
  BY <1>2, <1>3 DEF PortsExclusive

\* A step that keeps every task present or absent with its ports, and the
\* builds and the pool as they were, keeps the holdings.
LEMMA SameHoldings ==
  ASSUME PortsDisjoint,
         \A i \in Ids : tasks'[i] = NoTask <=> tasks[i] = NoTask,
         \A i \in Ids : tasks[i] # NoTask => tasks'[i].playout = tasks[i].playout,
         UNCHANGED <<pending, free>>
  PROVE  PortsDisjoint'
<1>1. HeldPorts' = HeldPorts /\ ParkedPorts' = ParkedPorts
  BY DEF HeldPorts, ParkedPorts
<1>2. QED
  BY <1>1 DEF PortsDisjoint

\* The steps that touch no task's presence or ports, no build and not the
\* pool: PortsDisjoint is kept.
LEMMA QuietHoldings ==
  ASSUME PortsDisjoint, UNCHANGED <<tasks, pending, free>>
  PROVE  PortsDisjoint'
BY DEF PortsDisjoint, HeldPorts, ParkedPorts

\* startProcess and stopProcess keep a task's ports.
LEMMA OpsKeepPorts ==
  ASSUME NEW t \in Task
  PROVE  /\ Started(t).playout = t.playout /\ Started(t) # NoTask
         /\ Stopped(t).playout = t.playout /\ Stopped(t) # NoTask
         /\ StopProc(t).playout = t.playout /\ StopProc(t) # NoTask
BY TaskOps, NoTaskAssumption DEF Started, Stopped, StopProc, Task

-----------------------------------------------------------------------------
(* Every action keeps PortsDisjoint.                                       *)

\* Start() and its end, the disk, the observer's tick and exit and the end
\* of load() touch no holding.
LEMMA QuietPorts ==
  ASSUME PInv,
         \/ StartBegin \/ StartEnd \/ DiskFill \/ DiskFree \/ LoadEnd
         \/ \E e \in 1..MaxStarts : ObserverTick(e) \/ ObserverExit(e)
  PROVE  PortsDisjoint'
<1>1. UNCHANGED <<tasks, pending, free>>
  BY DEF StartBegin, StartEnd, DiskFill, DiskFree, LoadEnd, ObserverTick,
         ObserverExit
<1>2. QED
  BY <1>1, QuietHoldings DEF PInv

\* Start()'s loop, Stop(), the observer's sweep, StartProcess and
\* StopProcess change engines and orders, never who holds which port.
LEMMA EnginePorts ==
  ASSUME PInv,
         \/ \E id \in Ids : StartStep(id) \/ StartProcess(id) \/ StopProcess(id)
         \/ Stop
         \/ \E e \in 1..MaxStarts : ObserverSweep(e)
  PROVE  PortsDisjoint'
<1>1. \A i \in Ids : tasks[i] # NoTask => tasks[i] \in Task
  BY DEF PInv, IInv, TypeOK
<1>2. UNCHANGED <<pending, free>>
  BY DEF StartStep, StartProcess, StopProcess, Stop, ObserverSweep
<1>3. /\ \A i \in Ids : tasks'[i] = NoTask <=> tasks[i] = NoTask
      /\ \A i \in Ids : tasks[i] # NoTask => tasks'[i].playout = tasks[i].playout
  <2>1. CASE \E id \in Ids : StartStep(id) \/ StartProcess(id) \/ StopProcess(id)
    <3>1. PICK id \in Ids : StartStep(id) \/ StartProcess(id) \/ StopProcess(id)
      BY <2>1
    <3>2. tasks[id] # NoTask
      BY <3>1 DEF StartStep, StartProcess, StopProcess, PInv, IInv, Registered,
                  Has
    <3>3. \/ tasks' = tasks
          \/ tasks' = [tasks EXCEPT ![id] = Started(tasks[id])]
          \/ tasks' = [tasks EXCEPT ![id] = StopProc(tasks[id])]
      BY <3>1 DEF StartStep, StartProcess, StopProcess
    <3>4. QED
      BY <1>1, <3>2, <3>3, OpsKeepPorts DEF PInv, IInv, TypeOK
  <2>2. CASE Stop
    <3>1. \A i \in Ids : tasks[i] # NoTask =>
            /\ [tasks[i] EXCEPT !.engine = "stop"] \in Task
            /\ [tasks[i] EXCEPT !.engine = "stop"].playout = tasks[i].playout
      BY <1>1 DEF Task, EngineOrders
    <3>2. QED
      BY <2>2, <3>1, NoTaskAssumption DEF Stop, Has
  <2>3. CASE \E e \in 1..MaxStarts : ObserverSweep(e)
    BY <1>1, <2>3, OpsKeepPorts DEF ObserverSweep, Registered, Has
  <2>4. QED
    BY <2>1, <2>2, <2>3
<1>4. QED
  BY <1>2, <1>3, SameHoldings DEF PInv

\* createTask takes its ports from the pool; a build that got them all
\* parks them, a failed one drops them.
LEMMA AddBuildPorts ==
  ASSUME PInv, NEW c \in Clients, NEW cfg \in Configs, AddBuild(c, cfg)
  PROVE  PortsDisjoint'
<1>1. PICK S \in Grab(cfg.playout, free) :
        /\ free' = free \ S
        /\ pending' = IF PortsOk(S, cfg.playout)
                        THEN [pending EXCEPT ![c] = NewTask(cfg, S)]
                        ELSE pending
  BY DEF AddBuild
<1>2. S \subseteq free /\ S \subseteq Ports
  BY <1>1, GrabSubset DEF PInv, IInv, TypeOK
<1>3. /\ UNCHANGED tasks /\ pending[c] = NoTask
      /\ HeldPorts' = HeldPorts /\ ParkedPorts[c] = {}
  BY DEF AddBuild, HeldPorts, ParkedPorts
<1>4. /\ HeldPorts \in [Ids -> SUBSET Ports]
      /\ ParkedPorts \in [Clients -> SUBSET Ports]
      /\ Excl(HeldPorts, ParkedPorts, free)
  BY HoldTypes DEF PInv, IInv, PortsDisjoint
<1>5. CASE PortsOk(S, cfg.playout)
  <2>1. NewTask(cfg, S) \in Task /\ NewTask(cfg, S).playout = S
    BY <1>2, NewTaskType DEF NewTask
  <2>2. ParkedPorts' = [ParkedPorts EXCEPT ![c] = S]
    BY <1>1, <1>5, <2>1, NoTaskAssumption DEF ParkedPorts, PInv, IInv, TypeOK
  <2>3. Excl(HeldPorts, [ParkedPorts EXCEPT ![c] = S], free \ S)
    BY <1>2, <1>3, <1>4, ReassignParked
  <2>4. QED
    BY <1>1, <1>3, <2>2, <2>3 DEF PortsDisjoint
<1>6. CASE ~PortsOk(S, cfg.playout)
  <2>1. ParkedPorts' = ParkedPorts
    BY <1>1, <1>6 DEF ParkedPorts
  <2>2. QED
    BY <1>1, <1>3, <1>4, <2>1, ShrinkFree DEF PortsDisjoint
<1>7. QED
  BY <1>5, <1>6

\* The insertion moves the build's ports to the new task, or drops them
\* when the id is taken or the start fails.
LEMMA AddInsertPorts ==
  ASSUME PInv, NEW c \in Clients, AddInsert(c)
  PROVE  PortsDisjoint'
<1> DEFINE t  == pending[c]
           id == t.cfg.id
<1>1. t \in Task /\ id \in Ids
  BY NoTaskAssumption, TaskFields DEF PInv, IInv, TypeOK, AddInsert
<1>2. /\ HeldPorts \in [Ids -> SUBSET Ports]
      /\ ParkedPorts \in [Clients -> SUBSET Ports]
      /\ Excl(HeldPorts, ParkedPorts, free)
  BY HoldTypes DEF PInv, IInv, PortsDisjoint
<1>3. /\ pending' = [pending EXCEPT ![c] = NoTask] /\ UNCHANGED free
      /\ ParkedPorts' = [ParkedPorts EXCEPT ![c] = {}]
  <2>1. pending' = [pending EXCEPT ![c] = NoTask] /\ UNCHANGED free
    BY DEF AddInsert
  <2>2. pending \in [Clients -> Task \cup {NoTask}]
    BY DEF PInv, IInv, TypeOK
  <2>3. QED
    BY <2>1, <2>2 DEF ParkedPorts
<1>4. CASE UNCHANGED tasks
  <2>1. HeldPorts' = HeldPorts
    BY <1>4 DEF HeldPorts
  <2>2. Excl(HeldPorts, [ParkedPorts EXCEPT ![c] = {}], free)
    BY <1>2, ReassignParked
  <2>3. QED
    BY <1>3, <2>1, <2>2 DEF PortsDisjoint
<1>5. CASE tasks' # tasks
  <2>1. /\ tasks[id] = NoTask
        /\ \/ tasks' = [tasks EXCEPT ![id] = Started(t)]
           \/ tasks' = [tasks EXCEPT ![id] = t]
    BY <1>5 DEF AddInsert, Has
  <2>2. HeldPorts[id] = {} /\ ParkedPorts[c] = t.playout
    <3>1. t # NoTask
      BY DEF AddInsert
    <3>2. QED
      BY <1>1, <2>1, <3>1 DEF HeldPorts, ParkedPorts
  <2>3. HeldPorts' = [HeldPorts EXCEPT ![id] = ParkedPorts[c]]
    BY <1>1, <2>1, <2>2, OpsKeepPorts, NoTaskAssumption
       DEF HeldPorts, PInv, IInv, TypeOK
  <2>4. QED
    BY <1>1, <1>2, <1>3, <2>2, <2>3, MoveParked DEF PortsDisjoint
<1>6. QED
  BY <1>4, <1>5

\* DeleteProcess returns the task's ports to the pool as the task leaves.
LEMMA DeletePorts ==
  ASSUME PInv, NEW id \in Ids, DeleteProcess(id)
  PROVE  PortsDisjoint'
<1>1. /\ HeldPorts \in [Ids -> SUBSET Ports]
      /\ Excl(HeldPorts, ParkedPorts, free)
  BY HoldTypes DEF PInv, IInv, PortsDisjoint
<1>2. /\ tasks' = [tasks EXCEPT ![id] = NoTask]
      /\ free' = free \cup tasks[id].playout
      /\ tasks[id] # NoTask /\ UNCHANGED pending
  BY DEF DeleteProcess, Has
<1>3. /\ HeldPorts' = [HeldPorts EXCEPT ![id] = {}]
      /\ free' = free \cup HeldPorts[id]
      /\ ParkedPorts' = ParkedPorts
  <2>1. tasks \in [Ids -> Task \cup {NoTask}]
    BY DEF PInv, IInv, TypeOK
  <2>2. QED
    BY <1>2, <2>1 DEF HeldPorts, ParkedPorts
<1>4. QED
  BY <1>1, <1>3, ReassignHeld DEF PortsDisjoint

\* New() starts over with a full pool, no builds and loaded tasks that
\* hold no port yet.
LEMMA RestartPorts ==
  ASSUME PInv, ProgramRestart
  PROVE  PortsDisjoint'
<1>1. \A i \in Ids : store[i] # NoTask => Loaded(store[i]).playout = {}
  BY DEF Loaded
<1>2. /\ HeldPorts' = [i \in Ids |-> {}]
      /\ ParkedPorts' = [c \in Clients |-> {}]
      /\ free' = Ports
  BY <1>1 DEF ProgramRestart, HeldPorts, ParkedPorts
<1>3. QED
  BY <1>2 DEF PortsDisjoint, Excl

\* One iteration of load() gives a loaded task the ports it took from the
\* pool (all it needs, or as many as the pool had).
LEMMA LoadStepPorts ==
  ASSUME PInv, NEW id \in Ids, LoadStep(id)
  PROVE  PortsDisjoint'
<1> DEFINE t == tasks[id]
<1>1. /\ HeldPorts \in [Ids -> SUBSET Ports]
      /\ Excl(HeldPorts, ParkedPorts, free)
      /\ tasks \in [Ids -> Task \cup {NoTask}]
  BY HoldTypes DEF PInv, IInv, PortsDisjoint, TypeOK
<1>2. UNCHANGED pending /\ ParkedPorts' = ParkedPorts
  BY DEF LoadStep, ParkedPorts
<1>3. CASE UNCHANGED <<tasks, free>>
  BY <1>2, <1>3, QuietHoldings DEF PInv
<1>4. CASE \E S \in Grab(t.cfg.playout, free) :
             /\ free' = free \ S
             /\ tasks' = [tasks EXCEPT ![id] =
                  IF PortsOk(S, t.cfg.playout)
                    THEN [t EXCEPT !.usesDisk = t.cfg.disk, !.playout = S,
                                   !.parser = TRUE, !.engine = "stop",
                                   !.valid = TRUE]
                    ELSE [t EXCEPT !.usesDisk = t.cfg.disk, !.playout = S]]
  <2>1. PICK S \in Grab(t.cfg.playout, free) :
             /\ free' = free \ S
             /\ tasks' = [tasks EXCEPT ![id] =
                  IF PortsOk(S, t.cfg.playout)
                    THEN [t EXCEPT !.usesDisk = t.cfg.disk, !.playout = S,
                                   !.parser = TRUE, !.engine = "stop",
                                   !.valid = TRUE]
                    ELSE [t EXCEPT !.usesDisk = t.cfg.disk, !.playout = S]]
    BY <1>4
  <2>2. t \in Task /\ S \subseteq free
    BY <2>1, GrabSubset, NoTaskAssumption
       DEF LoadStep, PInv, IInv, TypeOK, Registered, Has
  <2>3. tasks'[id] # NoTask /\ tasks'[id].playout = S
    <3>1. tasks'[id] \in Task
      <4>1. S \subseteq Ports /\ t.cfg.disk \in BOOLEAN
        BY <2>2, TaskFields DEF PInv, IInv, TypeOK
      <4>2. QED
        BY <1>1, <2>1, <2>2, <4>1 DEF Task, EngineOrders
    <3>2. QED
      BY <1>1, <2>1, <2>2, <3>1, NoTaskAssumption DEF Task
  <2>4. HeldPorts' = [HeldPorts EXCEPT ![id] = S]
    BY <1>1, <2>1, <2>3 DEF HeldPorts
  <2>5. QED
    BY <1>1, <1>2, <2>1, <2>2, <2>4, ReassignHeld DEF PortsDisjoint
<1>5. QED
  BY <1>3, <1>4 DEF LoadStep

\* UpdateProcess: a failed update drops the ports createTask took; a
\* successful one returns the old task's ports to the pool and gives the
\* new task (under the old or a new id) the ports it took from the pool.
LEMMA UpdatePorts ==
  ASSUME PInv, NEW id \in Ids, NEW cfg \in Configs, UpdateProcess(id, cfg)
  PROVE  PortsDisjoint'
<1>1. PICK S \in Grab(cfg.playout, free) : UpdateWith(id, cfg, S)
  BY DEF UpdateProcess
<1>2. /\ S \subseteq free /\ S \subseteq Ports
      /\ HeldPorts \in [Ids -> SUBSET Ports]
      /\ Excl(HeldPorts, ParkedPorts, free)
      /\ tasks \in [Ids -> Task \cup {NoTask}]
      /\ UNCHANGED pending /\ ParkedPorts' = ParkedPorts
  BY <1>1, GrabSubset, HoldTypes
     DEF PInv, IInv, TypeOK, PortsDisjoint, UpdateProcess, ParkedPorts
<1> DEFINE ok == /\ PortsOk(S, cfg.playout) /\ Has(id) /\ tasks[id].parser
                 /\ (cfg.id = id \/ ~Has(cfg.id))
<1>3. CASE ~ok
  <2>1. UNCHANGED tasks /\ free' = free \ S
    BY <1>1, <1>3 DEF UpdateWith
  <2>2. HeldPorts' = HeldPorts
    BY <2>1 DEF HeldPorts
  <2>3. QED
    BY <1>2, <2>1, <2>2, ShrinkFree DEF PortsDisjoint
<1>4. CASE ok
  <2> DEFINE old == tasks[id]
             nid == cfg.id
             n1 == nProc - StopDelta(old)
             nt == [NewTask(cfg, S) EXCEPT !.order = old.order]
             go == nt.order = "start" /\ MayStart(nt, n1)
             ne == IF go THEN Started(nt) ELSE nt
             H1 == [HeldPorts EXCEPT ![id] = {}]
  <2>1. /\ tasks' = [[tasks EXCEPT ![id] = NoTask] EXCEPT ![nid] = ne]
        /\ free' = (free \ S) \cup old.playout
    BY <1>1, <1>4 DEF UpdateWith
  <2>2. old \in Task /\ nid \in Ids /\ HeldPorts[id] = old.playout
    BY <1>2, <1>4, NoTaskAssumption, ConfigsAssumption
       DEF Has, ConfigRec, HeldPorts
  <2>3. ne # NoTask /\ ne.playout = S
    <3>1. nt \in Task /\ nt.playout = S
      <4>1. NewTask(cfg, S) \in Task /\ old.order \in Orders
        BY <1>2, <2>2, NewTaskType, TaskFields
      <4>2. QED
        BY <4>1 DEF Task, NewTask
    <3>2. Started(nt) # NoTask /\ Started(nt).playout = S /\ nt # NoTask
      BY <3>1, OpsKeepPorts, NoTaskAssumption
    <3>3. CASE go
      BY <3>2, <3>3
    <3>4. CASE ~go
      BY <3>1, <3>2, <3>4
    <3>5. QED
      BY <3>3, <3>4
  <2>4. HeldPorts' = [H1 EXCEPT ![nid] = S]
    <3>1. \A i \in Ids : tasks'[i] = IF i = nid THEN ne
                                     ELSE IF i = id THEN NoTask ELSE tasks[i]
      BY <1>2, <2>1, <2>2
    <3>2. \A i \in Ids : HeldPorts'[i] = IF i = nid THEN S
                                         ELSE IF i = id THEN {} ELSE HeldPorts[i]
      BY <2>3, <3>1 DEF HeldPorts
    <3>3. QED
      BY <2>2, <3>2 DEF HeldPorts
  <2>5. Excl(H1, ParkedPorts, free \cup HeldPorts[id])
    BY <1>2, ReassignHeld
  <2>6. S \cap HeldPorts[id] = {}
    BY <1>2 DEF Excl
  <2>7. Excl([H1 EXCEPT ![nid] = S], ParkedPorts, (free \ S) \cup old.playout)
    <3>1. H1 \in [Ids -> SUBSET Ports]
      BY <1>2
    <3>2. S \subseteq (free \cup HeldPorts[id]) \cup H1[nid]
      BY <1>2, <2>2
    <3>3. (free \ S) \cup old.playout
            \subseteq ((free \cup HeldPorts[id]) \cup H1[nid]) \ S
      BY <2>2, <2>6
    <3>4. QED
      BY <2>2, <2>5, <3>1, <3>2, <3>3, ReassignHeld
  <2>8. QED
    BY <1>2, <2>1, <2>4, <2>7 DEF PortsDisjoint
<1>5. QED
  BY <1>3, <1>4

\* ReloadProcess: the task's own ports go back to the pool and it takes
\* what it needs from the pool, in the same step (unsetPlayoutPorts, then
\* setPlayoutPorts); a reference error leaves its ports alone.
LEMMA ReloadPorts ==
  ASSUME PInv, NEW id \in Ids, ReloadProcess(id)
  PROVE  PortsDisjoint'
<1> DEFINE t == tasks[id]
<1>1. /\ t \in Task /\ HeldPorts[id] = t.playout
      /\ HeldPorts \in [Ids -> SUBSET Ports]
      /\ Excl(HeldPorts, ParkedPorts, free)
      /\ tasks \in [Ids -> Task \cup {NoTask}]
      /\ UNCHANGED pending /\ ParkedPorts' = ParkedPorts
  BY HoldTypes, NoTaskAssumption
     DEF PInv, IInv, TypeOK, PortsDisjoint, ReloadProcess, Has, HeldPorts,
         ParkedPorts
<1>2. CASE RefFails(t.cfg, tasks)
  <2>1. tasks' = [tasks EXCEPT ![id] = [t EXCEPT !.valid = FALSE]]
        /\ UNCHANGED free
    BY <1>2 DEF ReloadProcess
  <2>2. [t EXCEPT !.valid = FALSE] \in Task
    BY <1>1 DEF Task
  <2>3. tasks'[id] # NoTask /\ tasks'[id].playout = t.playout
    <3>1. [t EXCEPT !.valid = FALSE].playout = t.playout
      BY <1>1 DEF Task
    <3>2. QED
      BY <1>1, <2>1, <2>2, <3>1, NoTaskAssumption
  <2>4. HeldPorts' = HeldPorts
    BY <1>1, <2>1, <2>3 DEF HeldPorts
  <2>5. QED
    BY <1>1, <2>1, <2>4 DEF PortsDisjoint
<1>3. CASE ~RefFails(t.cfg, tasks)
  <2>1. PICK S \in Grab(t.cfg.playout, free \cup t.playout) : ReloadWith(id, S)
    BY <1>3 DEF ReloadProcess
  <2> DEFINE was == t.order = "start"
             t1  == [t EXCEPT !.valid = FALSE, !.usesDisk = t.cfg.disk,
                              !.playout = S]
             t2  == IF was THEN StopProc(t1) ELSE t1
             n2  == nProc - (IF was THEN StopDelta(t1) ELSE 0)
             t3  == [t2 EXCEPT !.parser = TRUE, !.engine = "stop",
                               !.valid = TRUE]
             go  == was /\ MayStart(t3, n2)
  <2>2. S \subseteq free \cup t.playout /\ S \subseteq Ports
    BY <1>1, <2>1, GrabSubset, TaskFields DEF PInv, IInv, TypeOK
  <2>3. /\ t1 \in Task /\ t1.playout = S
        /\ t2 \in Task /\ t2.playout = S
        /\ t3 \in Task /\ t3.playout = S
    <3>1. t1 \in Task /\ t1.playout = S
      BY <1>1, <2>2, TaskFields DEF Task
    <3>2. t2 \in Task /\ t2.playout = S
      BY <3>1, TaskOps, OpsKeepPorts
    <3>3. QED
      BY <3>1, <3>2 DEF Task, EngineOrders
  <2>4. /\ free' = (free \cup t.playout) \ S
        /\ \/ tasks' = [tasks EXCEPT ![id] = t1]
           \/ tasks' = [tasks EXCEPT ![id] = IF go THEN Started(t3) ELSE t3]
    BY <2>1 DEF ReloadWith
  <2>5. tasks'[id] # NoTask /\ tasks'[id].playout = S
    <3>1. /\ t1 # NoTask /\ t3 # NoTask
          /\ Started(t3) # NoTask /\ Started(t3).playout = S
      BY <2>3, OpsKeepPorts, NoTaskAssumption
    <3>2. CASE tasks' = [tasks EXCEPT ![id] = t1]
      BY <1>1, <2>3, <3>1, <3>2
    <3>3. CASE tasks' = [tasks EXCEPT ![id] = IF go THEN Started(t3) ELSE t3]
      BY <1>1, <2>3, <3>1, <3>3
    <3>4. QED
      BY <2>4, <3>2, <3>3
  <2>6. HeldPorts' = [HeldPorts EXCEPT ![id] = S]
    BY <1>1, <2>4, <2>5 DEF HeldPorts
  <2>7. QED
    BY <1>1, <2>2, <2>4, <2>6, ReassignHeld DEF PortsDisjoint
<1>4. QED
  BY <1>2, <1>3

-----------------------------------------------------------------------------
(* The theorem.                                                            *)

\* Every step of the supervisor keeps PInv.
LEMMA NextPInv == PInv /\ [Next]_vars => PInv'
<1> SUFFICES ASSUME PInv, [Next]_vars PROVE PInv'
  OBVIOUS
<1>1. IInv'
  BY NextIInv DEF PInv
<1>2. PortsDisjoint'
  <2>1. CASE \E c \in Clients, cfg \in Configs : AddBuild(c, cfg)
    BY <2>1, AddBuildPorts
  <2>2. CASE \E c \in Clients : AddInsert(c)
    BY <2>2, AddInsertPorts
  <2>3. CASE \E id \in Ids, cfg \in Configs : UpdateProcess(id, cfg)
    BY <2>3, UpdatePorts
  <2>4. CASE \E id \in Ids : DeleteProcess(id)
    BY <2>4, DeletePorts
  <2>5. CASE \E id \in Ids : ReloadProcess(id)
    BY <2>5, ReloadPorts
  <2>6. CASE \/ \E id \in Ids : StartStep(id) \/ StartProcess(id)
                               \/ StopProcess(id)
             \/ Stop
             \/ \E e \in 1..MaxStarts : ObserverSweep(e)
    BY <2>6, EnginePorts
  <2>7. CASE \/ StartBegin \/ StartEnd \/ DiskFill \/ DiskFree \/ LoadEnd
             \/ \E e \in 1..MaxStarts : ObserverTick(e) \/ ObserverExit(e)
    BY <2>7, QuietPorts
  <2>8. CASE ProgramRestart
    BY <2>8, RestartPorts
  <2>9. CASE \E id \in Ids : LoadStep(id)
    BY <2>9, LoadStepPorts
  <2>10. CASE UNCHANGED vars
    BY <2>10, QuietHoldings DEF vars, PInv
  <2>11. QED
    BY <2>1, <2>2, <2>3, <2>4, <2>5, <2>6, <2>7, <2>8, <2>9, <2>10 DEF Next
<1>3. QED
  BY <1>1, <1>2 DEF PInv

\* Initially no task or build exists and every port is in the pool.
LEMMA InitPInv == Init => PInv
<1> SUFFICES ASSUME Init PROVE PInv
  OBVIOUS
<1>1. HeldPorts = [i \in Ids |-> {}] /\ ParkedPorts = [c \in Clients |-> {}]
  BY DEF Init, HeldPorts, ParkedPorts
<1>2. QED
  BY <1>1, InitIInv DEF PInv, PortsDisjoint, Excl

\* No playout port is ever held by two tasks or builds, and none the pool
\* can hand out again is held: the unsetPlayoutPorts / setPlayoutPorts
\* pairs of ReloadProcess, UpdateProcess and DeleteProcess, AddProcess's
\* two halves and load() never hand out a port still in use, for every set
\* of ids, callers and ports.
THEOREM PortsNeverShared == Spec => []PortsExclusive
<1>1. PInv => PortsExclusive
  BY DisjointExclusive DEF PInv, IInv
<1>2. QED
  BY <1>1, InitPInv, NextPInv, PTL DEF Spec

-----------------------------------------------------------------------------
(* A valid task holds all its ports.                                       *)

\* The builds parked by AddProcess hold all their ports too: the
\* insertion makes them tasks without touching their ports.
BuildsHavePorts == \A c \in Clients : pending[c] # NoTask => FullPorts(pending[c])

\* load() creates every task invalid and validates each in one iteration
\* of its loop: a task it has still to visit is invalid.
LoadingInvalid == phase = "loading" => \A id \in todo : ~tasks[id].valid

\* Every entry of a task map that is a task holds all its ports.
MapFull(m) == \A i \in Ids : m[i] # NoTask => FullPorts(m[i])

\* The facts about ports on top of IInv.
Full == MapFull(tasks) /\ BuildsHavePorts /\ LoadingInvalid

\* The inductive invariant behind ValidTasksHavePorts.
VInv == IInv /\ Full

\* MapFull of the registry is ValidTasksHavePorts.
LEMMA MapFullTasks == MapFull(tasks) <=> ValidTasksHavePorts
BY DEF MapFull, ValidTasksHavePorts, Registered, Has

\* Writing an entry that holds all its ports, or removing one, keeps a map
\* full.
LEMMA FullExcept ==
  ASSUME NEW m, MapFull(m), m \in [Ids -> Task \cup {NoTask}], NEW id \in Ids,
         NEW t, t = NoTask \/ FullPorts(t)
  PROVE  MapFull([m EXCEPT ![id] = t])
BY DEF MapFull

\* startProcess, stopProcess and Stop() keep the flag, the ports and the
\* config of a task.
LEMMA OpsKeepFull ==
  ASSUME NEW t \in Task
  PROVE  /\ FullPorts(Started(t)) = FullPorts(t)
         /\ FullPorts(Stopped(t)) = FullPorts(t)
         /\ FullPorts(StopProc(t)) = FullPorts(t)
         /\ FullPorts([t EXCEPT !.engine = "stop"]) = FullPorts(t)
BY DEF FullPorts, Started, Stopped, StopProc, Task

\* A task createTask, a successful reloadProcess or a successful iteration
\* of load() builds once setPlayoutPorts got every port.
LEMMA BuiltFull ==
  ASSUME NEW t, t.valid = TRUE, NEW S, t.playout = S, NEW k, t.cfg.playout = k,
         PortsOk(S, k)
  PROVE  FullPorts(t)
BY DEF FullPorts, PortsOk

\* The steps that touch no task, no build and neither the phase nor the
\* loop of load() as it runs.
LEMMA QuietFull ==
  ASSUME VInv,
         \/ StartBegin \/ StartEnd \/ DiskFill \/ DiskFree \/ LoadEnd
         \/ \E e \in 1..MaxStarts : ObserverTick(e) \/ ObserverExit(e)
  PROVE  Full'
<1>1. UNCHANGED <<tasks, pending>>
  BY DEF StartBegin, StartEnd, DiskFill, DiskFree, LoadEnd, ObserverTick,
         ObserverExit
<1>2. phase' = "loading" => UNCHANGED <<phase, todo>>
  BY DEF StartBegin, StartEnd, DiskFill, DiskFree, LoadEnd, ObserverTick,
         ObserverExit
<1>3. QED
  BY <1>1, <1>2 DEF VInv, Full, MapFull, BuildsHavePorts, LoadingInvalid

\* Start()'s loop, Stop(), the sweep, StartProcess and StopProcess move
\* orders and engines only, and never while load() runs.
LEMMA EngineFull ==
  ASSUME VInv,
         \/ \E id \in Ids : StartStep(id) \/ StartProcess(id) \/ StopProcess(id)
         \/ Stop
         \/ \E e \in 1..MaxStarts : ObserverSweep(e)
  PROVE  Full'
<1>1. /\ tasks \in [Ids -> Task \cup {NoTask}] /\ MapFull(tasks)
      /\ \A i \in Ids : tasks[i] # NoTask => tasks[i] \in Task
  BY DEF VInv, Full, IInv, TypeOK
<1>2. UNCHANGED pending /\ phase' # "loading"
  BY DEF StartStep, StartProcess, StopProcess, Stop, ObserverSweep, LockFree
<1>3. MapFull(tasks')
  <2>1. CASE \E id \in Ids : StartStep(id) \/ StartProcess(id) \/ StopProcess(id)
    <3>1. PICK id \in Ids : StartStep(id) \/ StartProcess(id) \/ StopProcess(id)
      BY <2>1
    <3>2. tasks[id] \in Task /\ FullPorts(tasks[id])
      BY <1>1, <3>1 DEF StartStep, StartProcess, StopProcess, MapFull,
                        VInv, IInv, Registered, Has
    <3>3. \/ tasks' = tasks
          \/ tasks' = [tasks EXCEPT ![id] = Started(tasks[id])]
          \/ tasks' = [tasks EXCEPT ![id] = StopProc(tasks[id])]
      BY <3>1 DEF StartStep, StartProcess, StopProcess
    <3>4. FullPorts(Started(tasks[id])) /\ FullPorts(StopProc(tasks[id]))
      BY <3>2, OpsKeepFull
    <3>5. QED
      BY <1>1, <3>3, <3>4, FullExcept
  <2>2. CASE Stop
    <3>1. SUFFICES ASSUME NEW i \in Ids, tasks'[i] # NoTask
                   PROVE  FullPorts(tasks'[i])
      BY DEF MapFull
    <3>2. tasks[i] # NoTask
      BY <2>2, <3>1 DEF Stop, Has
    <3>3. tasks[i] \in Task /\ FullPorts(tasks[i])
      BY <1>1, <3>2 DEF MapFull
    <3>4. [tasks[i] EXCEPT !.engine = "stop"] \in Task
      BY <3>3 DEF Task, EngineOrders
    <3>5. FullPorts([tasks[i] EXCEPT !.engine = "stop"])
      BY <3>3, <3>4, OpsKeepFull
    <3>6. QED
      BY <2>2, <3>3, <3>5 DEF Stop
  <2>3. CASE \E e \in 1..MaxStarts : ObserverSweep(e)
    <3>1. SUFFICES ASSUME NEW i \in Ids, tasks'[i] # NoTask
                   PROVE  FullPorts(tasks'[i])
      BY DEF MapFull
    <3>2. tasks'[i] = tasks[i] \/ (tasks'[i] = Stopped(tasks[i]) /\ Has(i))
      BY <2>3 DEF ObserverSweep, Registered
    <3>3. tasks[i] # NoTask
      BY <3>1, <3>2 DEF Has
    <3>4. tasks[i] \in Task /\ FullPorts(tasks[i])
      BY <1>1, <3>3 DEF MapFull
    <3>5. QED
      BY <3>2, <3>4, OpsKeepFull
  <2>4. QED
    BY <2>1, <2>2, <2>3
<1>4. QED
  BY <1>2, <1>3 DEF VInv, Full, BuildsHavePorts, LoadingInvalid

\* createTask parks a build only once setPlayoutPorts got every port.
LEMMA AddBuildFull ==
  ASSUME VInv, NEW c \in Clients, NEW cfg \in Configs, AddBuild(c, cfg)
  PROVE  Full'
<1>1. PICK S \in Grab(cfg.playout, free) :
        pending' = IF PortsOk(S, cfg.playout)
                     THEN [pending EXCEPT ![c] = NewTask(cfg, S)]
                     ELSE pending
  BY DEF AddBuild
<1>2. UNCHANGED <<tasks, phase, todo>> /\ phase # "loading"
  BY DEF AddBuild, LockFree
<1>3. PortsOk(S, cfg.playout) => FullPorts(NewTask(cfg, S))
  BY DEF FullPorts, NewTask, PortsOk
<1>4. BuildsHavePorts'
  <2>1. pending \in [Clients -> Task \cup {NoTask}] /\ BuildsHavePorts
    BY DEF VInv, IInv, TypeOK, Full
  <2>2. QED
    BY <1>1, <1>3, <2>1 DEF BuildsHavePorts
<1>5. QED
  BY <1>2, <1>4 DEF VInv, Full, MapFull, LoadingInvalid

\* The insertion registers the parked build as it is, or started.
LEMMA AddInsertFull ==
  ASSUME VInv, NEW c \in Clients, AddInsert(c)
  PROVE  Full'
<1> DEFINE t  == pending[c]
           id == t.cfg.id
<1>1. t \in Task /\ id \in Ids /\ FullPorts(t)
  BY NoTaskAssumption, TaskFields
     DEF VInv, IInv, TypeOK, AddInsert, Full, BuildsHavePorts
<1>2. /\ UNCHANGED <<phase, todo>> /\ phase # "loading"
      /\ pending' = [pending EXCEPT ![c] = NoTask]
  BY DEF AddInsert, LockFree
<1>3. /\ tasks \in [Ids -> Task \cup {NoTask}] /\ MapFull(tasks)
      /\ pending \in [Clients -> Task \cup {NoTask}] /\ BuildsHavePorts
  BY DEF VInv, IInv, TypeOK, Full
<1>4. MapFull(tasks')
  <2>1. \/ tasks' = tasks
        \/ tasks' = [tasks EXCEPT ![id] = Started(t)]
        \/ tasks' = [tasks EXCEPT ![id] = t]
    BY DEF AddInsert
  <2>2. FullPorts(Started(t))
    BY <1>1, OpsKeepFull
  <2>3. QED
    BY <1>1, <1>3, <2>1, <2>2, FullExcept
<1>5. BuildsHavePorts'
  BY <1>2, <1>3 DEF BuildsHavePorts
<1>6. QED
  BY <1>2, <1>4, <1>5 DEF Full, LoadingInvalid

\* DeleteProcess removes a task and leaves the others as they are.
LEMMA DeleteFull ==
  ASSUME VInv, NEW id \in Ids, DeleteProcess(id)
  PROVE  Full'
<1>1. /\ tasks' = [tasks EXCEPT ![id] = NoTask]
      /\ UNCHANGED <<pending, phase, todo>> /\ phase # "loading"
  BY DEF DeleteProcess, LockFree
<1>2. tasks \in [Ids -> Task \cup {NoTask}] /\ MapFull(tasks)
  BY DEF VInv, IInv, TypeOK, Full
<1>3. MapFull(tasks')
  BY <1>1, <1>2, FullExcept
<1>4. QED
  BY <1>1, <1>3 DEF VInv, Full, BuildsHavePorts, LoadingInvalid

\* New() creates every stored task invalid and without ports, and load()
\* has all of them still to visit.
LEMMA RestartFull ==
  ASSUME VInv, ProgramRestart
  PROVE  Full'
<1>1. MapFull(tasks')
  BY DEF ProgramRestart, MapFull, FullPorts, Loaded
<1>2. BuildsHavePorts'
  BY DEF ProgramRestart, BuildsHavePorts
<1>3. LoadingInvalid'
  BY DEF ProgramRestart, LoadingInvalid, Loaded
<1>4. QED
  BY <1>1, <1>2, <1>3 DEF Full

\* An iteration of load() validates its task only with every port, and a
\* failed one leaves it as invalid as New() created it.
LEMMA LoadStepFull ==
  ASSUME VInv, NEW id \in Ids, LoadStep(id)
  PROVE  Full'
<1> DEFINE t == tasks[id]
<1>1. /\ tasks \in [Ids -> Task \cup {NoTask}] /\ MapFull(tasks)
      /\ t \in Task /\ ~t.valid
  BY NoTaskAssumption
     DEF VInv, IInv, TypeOK, Full, LoadingInvalid, LoadStep, Registered, Has
<1>2. /\ UNCHANGED <<pending, phase>> /\ phase = "loading"
      /\ todo' = todo \ {id}
  BY DEF LoadStep
<1>3. CASE RefFails(t.cfg, tasks)
  <2>1. UNCHANGED tasks
    BY <1>3 DEF LoadStep
  <2>2. QED
    BY <1>2, <2>1 DEF VInv, Full, MapFull, BuildsHavePorts, LoadingInvalid
<1>4. CASE ~RefFails(t.cfg, tasks)
  <2>1. PICK S \in Grab(t.cfg.playout, free) :
             tasks' = [tasks EXCEPT ![id] =
                  IF PortsOk(S, t.cfg.playout)
                    THEN [t EXCEPT !.usesDisk = t.cfg.disk, !.playout = S,
                                   !.parser = TRUE, !.engine = "stop",
                                   !.valid = TRUE]
                    ELSE [t EXCEPT !.usesDisk = t.cfg.disk, !.playout = S]]
    BY <1>4 DEF LoadStep
  <2>2. tasks'[id] # NoTask => FullPorts(tasks'[id])
    <3>1. CASE PortsOk(S, t.cfg.playout)
      BY <1>1, <2>1, <3>1 DEF FullPorts, PortsOk, Task
    <3>2. CASE ~PortsOk(S, t.cfg.playout)
      BY <1>1, <2>1, <3>2 DEF FullPorts, Task
    <3>3. QED
      BY <3>1, <3>2
  <2>3. MapFull(tasks')
    BY <1>1, <2>1, <2>2 DEF MapFull
  <2>4. LoadingInvalid'
    BY <1>1, <1>2, <2>1 DEF VInv, Full, LoadingInvalid
  <2>5. QED
    BY <1>2, <2>3, <2>4 DEF VInv, Full, BuildsHavePorts
<1>5. QED
  BY <1>3, <1>4

\* UpdateProcess installs the task createTask built, which got every port.
LEMMA UpdateFull ==
  ASSUME VInv, NEW id \in Ids, NEW cfg \in Configs, UpdateProcess(id, cfg)
  PROVE  Full'
<1>1. PICK S \in Grab(cfg.playout, free) : UpdateWith(id, cfg, S)
  BY DEF UpdateProcess
<1>2. /\ UNCHANGED <<pending, phase, todo>> /\ phase # "loading"
      /\ tasks \in [Ids -> Task \cup {NoTask}] /\ MapFull(tasks)
      /\ S \subseteq Ports
  BY <1>1, GrabSubset DEF UpdateProcess, LockFree, VInv, IInv, TypeOK, Full
<1> DEFINE ok == /\ PortsOk(S, cfg.playout) /\ Has(id) /\ tasks[id].parser
                 /\ (cfg.id = id \/ ~Has(cfg.id))
<1>3. MapFull(tasks')
  <2>1. CASE ~ok
    BY <1>1, <1>2, <2>1 DEF UpdateWith
  <2>2. CASE ok
    <3> DEFINE old == tasks[id]
               nid == cfg.id
               n1 == nProc - StopDelta(old)
               nt == [NewTask(cfg, S) EXCEPT !.order = old.order]
               go == nt.order = "start" /\ MayStart(nt, n1)
               ne == IF go THEN Started(nt) ELSE nt
    <3>1. tasks' = [[tasks EXCEPT ![id] = NoTask] EXCEPT ![nid] = ne]
      BY <1>1, <2>2 DEF UpdateWith
    <3>2. old \in Task /\ nid \in Ids
      BY <1>2, <2>2, NoTaskAssumption, ConfigsAssumption DEF Has, ConfigRec
    <3>3. nt \in Task /\ FullPorts(nt)
      <4>1. NewTask(cfg, S) \in Task /\ old.order \in Orders
        BY <1>2, <3>2, NewTaskType, TaskFields
      <4>2. nt \in Task
        BY <4>1 DEF Task, NewTask
      <4>3. FullPorts(nt)
        BY <2>2 DEF FullPorts, NewTask, PortsOk
      <4>4. QED
        BY <4>2, <4>3
    <3>4. FullPorts(ne)
      <4>1. CASE go
        BY <3>3, <4>1, OpsKeepFull
      <4>2. CASE ~go
        BY <3>3, <4>2
      <4>3. QED
        BY <4>1, <4>2
    <3>5. /\ MapFull([tasks EXCEPT ![id] = NoTask])
          /\ [tasks EXCEPT ![id] = NoTask] \in [Ids -> Task \cup {NoTask}]
      BY <1>2, FullExcept
    <3>6. QED
      BY <3>1, <3>2, <3>4, <3>5, FullExcept
  <2>3. QED
    BY <2>1, <2>2
<1>4. QED
  BY <1>2, <1>3 DEF VInv, Full, BuildsHavePorts, LoadingInvalid

\* ReloadProcess marks the task valid again only once setPlayoutPorts got
\* every port; on an error the task stays invalid.
LEMMA ReloadFull ==
  ASSUME VInv, NEW id \in Ids, ReloadProcess(id)
  PROVE  Full'
<1> DEFINE t == tasks[id]
<1>1. /\ UNCHANGED <<pending, phase, todo>> /\ phase # "loading"
      /\ tasks \in [Ids -> Task \cup {NoTask}] /\ MapFull(tasks)
      /\ t \in Task
  BY NoTaskAssumption
     DEF ReloadProcess, LockFree, VInv, IInv, TypeOK, Full, Has
<1>2. MapFull(tasks')
  <2>1. CASE RefFails(t.cfg, tasks)
    <3>1. tasks' = [tasks EXCEPT ![id] = [t EXCEPT !.valid = FALSE]]
      BY <2>1 DEF ReloadProcess
    <3>2. FullPorts([t EXCEPT !.valid = FALSE])
      BY <1>1 DEF FullPorts, Task
    <3>3. QED
      BY <1>1, <3>1, <3>2, FullExcept
  <2>2. CASE ~RefFails(t.cfg, tasks)
    <3>1. PICK S \in Grab(t.cfg.playout, free \cup t.playout) : ReloadWith(id, S)
      BY <2>2 DEF ReloadProcess
    <3> DEFINE was == t.order = "start"
               t1  == [t EXCEPT !.valid = FALSE, !.usesDisk = t.cfg.disk,
                                !.playout = S]
               t2  == IF was THEN StopProc(t1) ELSE t1
               n2  == nProc - (IF was THEN StopDelta(t1) ELSE 0)
               t3  == [t2 EXCEPT !.parser = TRUE, !.engine = "stop",
                                 !.valid = TRUE]
               go  == was /\ MayStart(t3, n2)
    <3>2. S \subseteq Ports
      BY <1>1, <3>1, GrabSubset, TaskFields DEF VInv, IInv, TypeOK
    <3>3. t1 \in Task /\ FullPorts(t1)
      BY <1>1, <3>2, TaskFields DEF Task, FullPorts
    <3>4. t2 \in Task /\ t2.cfg = t.cfg /\ t2.playout = S
      <4>1. t1.cfg = t.cfg /\ t1.playout = S
        BY <1>1 DEF Task
      <4>2. /\ StopProc(t1) \in Task /\ StopProc(t1).cfg = t1.cfg
            /\ StopProc(t1).playout = t1.playout
        BY <3>3, TaskOps, OpsKeepPorts DEF StopProc, Stopped, Task
      <4>3. QED
        BY <3>3, <4>1, <4>2
    <3>5. PortsOk(S, t.cfg.playout) => t3 \in Task /\ FullPorts(t3)
      <4>1. t3 \in Task
        BY <3>4 DEF Task, EngineOrders
      <4>2. PortsOk(S, t.cfg.playout) => FullPorts(t3)
        BY <3>4 DEF FullPorts, PortsOk
      <4>3. QED
        BY <4>1, <4>2
    <3>6. \/ tasks' = [tasks EXCEPT ![id] = t1]
          \/ /\ PortsOk(S, t.cfg.playout)
             /\ tasks' = [tasks EXCEPT ![id] = IF go THEN Started(t3) ELSE t3]
      BY <3>1 DEF ReloadWith
    <3>7. PortsOk(S, t.cfg.playout) => FullPorts(IF go THEN Started(t3) ELSE t3)
      BY <3>5, OpsKeepFull
    <3>8. QED
      BY <1>1, <3>3, <3>6, <3>7, FullExcept
  <2>3. QED
    BY <2>1, <2>2
<1>3. QED
  BY <1>1, <1>2 DEF VInv, Full, BuildsHavePorts, LoadingInvalid

\* Every step of the supervisor keeps VInv.
LEMMA NextVInv == VInv /\ [Next]_vars => VInv'
<1> SUFFICES ASSUME VInv, [Next]_vars PROVE VInv'
  OBVIOUS
<1>1. IInv'
  BY NextIInv DEF VInv
<1>2. Full'
  <2>1. CASE \E c \in Clients, cfg \in Configs : AddBuild(c, cfg)
    BY <2>1, AddBuildFull
  <2>2. CASE \E c \in Clients : AddInsert(c)
    BY <2>2, AddInsertFull
  <2>3. CASE \E id \in Ids, cfg \in Configs : UpdateProcess(id, cfg)
    BY <2>3, UpdateFull
  <2>4. CASE \E id \in Ids : DeleteProcess(id)
    BY <2>4, DeleteFull
  <2>5. CASE \E id \in Ids : ReloadProcess(id)
    BY <2>5, ReloadFull
  <2>6. CASE \/ \E id \in Ids : StartStep(id) \/ StartProcess(id)
                               \/ StopProcess(id)
             \/ Stop
             \/ \E e \in 1..MaxStarts : ObserverSweep(e)
    BY <2>6, EngineFull
  <2>7. CASE \/ StartBegin \/ StartEnd \/ DiskFill \/ DiskFree \/ LoadEnd
             \/ \E e \in 1..MaxStarts : ObserverTick(e) \/ ObserverExit(e)
    BY <2>7, QuietFull
  <2>8. CASE ProgramRestart
    BY <2>8, RestartFull
  <2>9. CASE \E id \in Ids : LoadStep(id)
    BY <2>9, LoadStepFull
  <2>10. CASE UNCHANGED vars
    BY <2>10 DEF vars, VInv, Full, MapFull, BuildsHavePorts, LoadingInvalid
  <2>11. QED
    BY <2>1, <2>2, <2>3, <2>4, <2>5, <2>6, <2>7, <2>8, <2>9, <2>10 DEF Next
<1>3. QED
  BY <1>1, <1>2 DEF VInv

\* Initially there is no task and no build, and load() is not running.
LEMMA InitVInv == Init => VInv
BY InitIInv DEF Init, VInv, Full, MapFull, BuildsHavePorts, LoadingInvalid

\* A task the supervisor holds as valid, and so may start, has a playout
\* port for every playout input: createTask, ReloadProcess and load() mark
\* a task valid only after setPlayoutPorts got every port (a GetPort
\* error at line 598 leaves it invalid), AddProcess's insertion and
\* UpdateProcess install only such tasks, and nothing else sets the flag
\* or changes the ports, for every set of ids, callers and ports.
THEOREM ValidTaskPorts == Spec => []ValidTasksHavePorts
<1>1. VInv => ValidTasksHavePorts
  BY MapFullTasks DEF VInv, Full
<1>2. QED
  BY <1>1, InitVInv, NextVInv, PTL DEF Spec

=============================================================================
