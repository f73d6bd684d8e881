--------------------------- MODULE RestreamMetadata ---------------------------
(***************************************************************************)
(* The metadata store of src/restream/restream.go: a key/value map per    *)
(* task (task.metadata) and one for the supervisor (r.metadata), written  *)
(* by SetProcessMetadata and SetMetadata, persisted by save() together    *)
(* with the process catalog and read back by load() when New() runs.      *)
(*                                                                         *)
(* The registry is abstracted to the set of ids in r.tasks: a process is  *)
(* added, replaced (UpdateProcess, possibly under a new id) or deleted.   *)
(* An operation that fails before it changes r.tasks (a build error, an   *)
(* id clash, a refused start, a delete of a running process, an empty key)*)
(* changes nothing here and is left out.  A metadata map is a function    *)
(* from keys to values or Unset; nil and the empty map are both the map   *)
(* with every key Unset, as the code never keeps an empty non-nil map.    *)
(***************************************************************************)
EXTENDS Naturals, TLAPS

CONSTANTS
  Ids,          \* process IDs
  Keys,         \* non-empty metadata keys
  Values,       \* metadata values
  Unset,        \* no value for a key (data == nil deletes the key)
  MaxRestarts   \* bound on the number of program restarts

ASSUME MetaAssumption == Unset \notin Values /\ MaxRestarts \in Nat

MetaMap == [Keys -> Values \cup {Unset}]

\* A nil metadata map.
Empty == [k \in Keys |-> Unset]

\* store.StoreData: the process ids, Metadata.Process and Metadata.System.
StoreData == [procs : SUBSET Ids, meta : [Ids -> MetaMap], sys : MetaMap]

VARIABLES
  reg,       \* the ids in r.tasks
  meta,      \* task.metadata of each registered task
  sys,       \* r.metadata
  store,     \* the StoreData save() last wrote
  restarts   \* number of program restarts so far

vars == <<reg, meta, sys, store, restarts>>

-----------------------------------------------------------------------------
\* Mutant: save() leaves out Metadata.Process.
SaveNoMeta(r, m, s) ==
  [procs |-> r, sys |-> IF r = {} THEN Empty ELSE s]

\* save() (lines 379-389): one process entry and one metadata entry per
\* task; Metadata.System is copied inside the loop over the tasks, so with
\* no task it keeps the empty value of store.NewStoreData().
Save(r, m, s) ==
  [procs |-> r,
   meta  |-> [id \in Ids |-> IF id \in r THEN m[id] ELSE Empty],
   sys   |-> IF r = {} THEN Empty ELSE s]

\* New() with an empty store (lines 112-171): load() finds nothing and
\* save() writes an empty StoreData.
Init ==
  /\ reg = {}
  /\ meta = [id \in Ids |-> Empty]
  /\ sys = Empty
  /\ store = Save({}, meta, sys)
  /\ restarts = 0

\* AddProcess (lines 406-439): createTask builds a task with nil metadata;
\* it is inserted under a free id and saved.
AddProcess(id) ==
  /\ id \notin reg
  /\ reg' = reg \cup {id}
  /\ meta' = [meta EXCEPT ![id] = Empty]
  /\ store' = Save(reg', meta', sys)
  /\ UNCHANGED <<sys, restarts>>

\* UpdateProcess (lines 864-911): the old task is deleted and the new one,
\* built by createTask with nil metadata, is inserted under nid.  Only
\* the order and the parser history are carried over.
UpdateProcess(id, nid) ==
  /\ id \in reg
  /\ nid = id \/ nid \notin reg
  /\ reg' = (reg \ {id}) \cup {nid}
  /\ meta' = [meta EXCEPT ![id] = Empty, ![nid] = Empty]
  /\ store' = Save(reg', meta', sys)
  /\ UNCHANGED <<sys, restarts>>

\* DeleteProcess (lines 993-1023), when the process is ordered to stop.
DeleteProcess(id) ==
  /\ id \in reg
  /\ reg' = reg \ {id}
  /\ meta' = [meta EXCEPT ![id] = Empty]
  /\ store' = Save(reg', meta', sys)
  /\ UNCHANGED <<sys, restarts>>

\* Mutant: SetProcessMetadata returns before save().
SetProcessMetadataNoSave(id, k, v) ==
  /\ id \in reg
  /\ meta' = [meta EXCEPT ![id][k] = v]
  /\ UNCHANGED <<reg, sys, store, restarts>>

\* SetProcessMetadata (lines 1417-1446): set the key, or delete it when the
\* data is nil (v = Unset); an emptied map becomes nil; then save().
SetProcessMetadata(id, k, v) ==
  /\ id \in reg
  /\ meta' = [meta EXCEPT ![id][k] = v]
  /\ store' = Save(reg, meta', sys)
  /\ UNCHANGED <<reg, sys, restarts>>

\* SetMetadata (lines 1469-1494): the same on r.metadata.
SetMetadata(k, v) ==
  /\ sys' = [sys EXCEPT ![k] = v]
  /\ store' = Save(reg, meta, sys')
  /\ UNCHANGED <<reg, meta, restarts>>

\* Mutant: load() does not attach the stored process metadata.
ProgramRestartNoMeta ==
  /\ restarts < MaxRestarts
  /\ restarts' = restarts + 1
  /\ reg' = store.procs
  /\ meta' = [id \in Ids |-> Empty]
  /\ sys' = store.sys
  /\ store' = Save(reg', meta', sys')

\* The program restarts: load() (lines 269-313) creates a task for every
\* stored process, attaches the stored metadata of the ids it created and
\* takes Metadata.System as r.metadata; New() then saves (line 166).
ProgramRestart ==
  /\ restarts < MaxRestarts
  /\ restarts' = restarts + 1
  /\ reg' = store.procs
  /\ meta' = [id \in Ids |-> IF id \in store.procs THEN store.meta[id] ELSE Empty]
  /\ sys' = store.sys
  /\ store' = Save(reg', meta', sys')

Next ==
  \/ \E id \in Ids : AddProcess(id) \/ DeleteProcess(id)
  \/ \E id, nid \in Ids : UpdateProcess(id, nid)
  \/ \E id \in Ids, k \in Keys, v \in Values \cup {Unset} :
       SetProcessMetadata(id, k, v)
  \/ \E k \in Keys, v \in Values \cup {Unset} : SetMetadata(k, v)
  \/ ProgramRestart

Spec == Init /\ [][Next]_vars

-----------------------------------------------------------------------------
(* Properties.                                                             *)

\* The type invariant.
TypeOK ==
  /\ reg \subseteq Ids
  /\ meta \in [Ids -> MetaMap]
  /\ sys \in MetaMap
  /\ store \in StoreData
  /\ restarts \in 0..MaxRestarts

\* Spec 3 (the catalog is persisted as a unit) and 4.11: after every
\* metadata or registry change the store holds every registered process
\* with its metadata, so a restart brings them back as they were.
StoreHoldsProcesses ==
  /\ store.procs = reg
  /\ \A id \in reg : store.meta[id] = meta[id]

\* Spec 3 and C9: the supervisor's own metadata is persisted with the
\* catalog; SetMetadata saves it and a restart brings it back.
StoreHoldsSystemMetadata == store.sys = sys

\* Spec invariant 7: Load followed by Save is a fixed point; the save()
\* of New() after load() writes back the catalog it read.
RestartKeepsStore == [][ProgramRestart => store' = store]_vars

\* Spec 4.11: a process's metadata changes only through SetProcessMetadata
\* while the process stays registered.
MetadataOnlyBySetter ==
  [][\A id \in reg \cap reg' :
       meta'[id] # meta[id] =>
         \E k \in Keys, v \in Values \cup {Unset} : SetProcessMetadata(id, k, v)]_vars


-----------------------------------------------------------------------------
(* Proofs.                                                                 *)

\* What save() leaves out: metadata of ids it did not write, and system
\* metadata when it wrote no process.
SavedShape ==
  /\ \A id \in Ids \ store.procs : store.meta[id] = Empty
  /\ store.procs = {} => store.sys = Empty

\* The inductive invariant.
MInv == TypeOK /\ StoreHoldsProcesses /\ SavedShape

\* save() writes a StoreData of the shape above that holds the tasks given.
LEMMA SaveFacts ==
  ASSUME NEW r \in SUBSET Ids, NEW m \in [Ids -> MetaMap], NEW s \in MetaMap
  PROVE  /\ Save(r, m, s) \in StoreData
         /\ Save(r, m, s).procs = r
         /\ \A id \in r : Save(r, m, s).meta[id] = m[id]
         /\ \A id \in Ids \ r : Save(r, m, s).meta[id] = Empty
         /\ r = {} => Save(r, m, s).sys = Empty
BY DEF Save, StoreData, MetaMap, Empty

LEMMA InitMInv == Init => MInv
<1> SUFFICES ASSUME Init PROVE MInv
  OBVIOUS
<1>1. meta \in [Ids -> MetaMap] /\ sys \in MetaMap
  BY DEF Init, MetaMap, Empty
<1>2. store = Save({}, meta, sys) /\ reg = {} /\ restarts \in 0..MaxRestarts
  BY MetaAssumption DEF Init
<1>3. QED
  BY <1>1, <1>2, SaveFacts DEF MInv, TypeOK, StoreHoldsProcesses, SavedShape

\* After a save of the new state the invariant holds again.
LEMMA SavedMInv ==
  ASSUME reg' \subseteq Ids, meta' \in [Ids -> MetaMap], sys' \in MetaMap,
         restarts' \in 0..MaxRestarts, store' = Save(reg', meta', sys')
  PROVE  MInv'
<1>1. /\ Save(reg', meta', sys') \in StoreData
      /\ Save(reg', meta', sys').procs = reg'
      /\ \A id \in reg' : Save(reg', meta', sys').meta[id] = meta'[id]
      /\ \A id \in Ids \ reg' : Save(reg', meta', sys').meta[id] = Empty
      /\ reg' = {} => Save(reg', meta', sys').sys = Empty
  BY DEF Save, StoreData, MetaMap, Empty
<1>2. QED
  BY <1>1 DEF MInv, TypeOK, StoreHoldsProcesses, SavedShape

LEMMA NextMInv == MInv /\ [Next]_vars => MInv'
<1> SUFFICES ASSUME MInv, [Next]_vars PROVE MInv'
  OBVIOUS
<1>0. Empty \in MetaMap
  BY DEF Empty, MetaMap
<1>1. ASSUME NEW id \in Ids, AddProcess(id) \/ DeleteProcess(id) PROVE MInv'
  BY <1>0, <1>1, SavedMInv DEF AddProcess, DeleteProcess, MInv, TypeOK
<1>2. ASSUME NEW id \in Ids, NEW nid \in Ids, UpdateProcess(id, nid) PROVE MInv'
  BY <1>0, <1>2, SavedMInv DEF UpdateProcess, MInv, TypeOK
<1>3. ASSUME NEW id \in Ids, NEW k \in Keys, NEW v \in Values \cup {Unset},
             SetProcessMetadata(id, k, v)
      PROVE  MInv'
  BY <1>3, SavedMInv DEF SetProcessMetadata, MInv, TypeOK, MetaMap
<1>4. ASSUME NEW k \in Keys, NEW v \in Values \cup {Unset}, SetMetadata(k, v)
      PROVE  MInv'
  BY <1>4, SavedMInv DEF SetMetadata, MInv, TypeOK, MetaMap
<1>5. CASE ProgramRestart
  <2>1. store.procs \subseteq Ids /\ store.sys \in MetaMap
        /\ \A id \in store.procs : store.meta[id] \in MetaMap
    BY DEF MInv, TypeOK, StoreData
  <2>2. QED
    BY <1>0, <1>5, <2>1, SavedMInv, MetaAssumption DEF ProgramRestart, MInv, TypeOK
<1>6. CASE UNCHANGED vars
  BY <1>6 DEF vars, MInv, TypeOK, StoreHoldsProcesses, SavedShape
<1>7. QED
  BY <1>1, <1>2, <1>3, <1>4, <1>5, <1>6 DEF Next

\* Every registry and metadata change is persisted: in every reachable
\* state the store holds the registered processes and their metadata.
THEOREM StoreHolds == Spec => []StoreHoldsProcesses
<1>1. MInv => StoreHoldsProcesses
  BY DEF MInv
<1>2. QED
  BY <1>1, InitMInv, NextMInv, PTL DEF Spec

\* Every variable keeps its type: the registry, the metadata maps and the
\* stored catalog stay well formed under AddProcess, UpdateProcess,
\* DeleteProcess, SetProcessMetadata, SetMetadata and the load()/save()
\* of a restart, for every set of ids, keys and values.
THEOREM MetaTypeCorrect == Spec => []TypeOK
<1>1. MInv => TypeOK
  BY DEF MInv
<1>2. QED
  BY <1>1, InitMInv, NextMInv, PTL DEF Spec

\* The save() of New() after load() writes back exactly the catalog it
\* read, for any number of processes, keys and values.
THEOREM LoadSaveFixedPoint == Spec => RestartKeepsStore
<1>1. MInv /\ [Next]_vars => [ProgramRestart => store' = store]_vars
  <2> SUFFICES ASSUME MInv, [Next]_vars, ProgramRestart PROVE store' = store
    OBVIOUS
  <2>1. store.procs \subseteq Ids /\ store.sys \in MetaMap
        /\ store.meta \in [Ids -> MetaMap]
    BY DEF MInv, TypeOK, StoreData
  <2>2. store' = Save(store.procs,
                      [id \in Ids |-> IF id \in store.procs THEN store.meta[id] ELSE Empty],
                      store.sys)
    BY DEF ProgramRestart
  <2>3. store \in StoreData
    BY DEF MInv, TypeOK
  <2>4. store = [procs |-> store.procs, meta |-> store.meta, sys |-> store.sys]
    BY <2>3 DEF StoreData
  <2>5. store'.procs = store.procs
    BY <2>2 DEF Save
  <2>6. store'.meta = store.meta
    BY <2>1, <2>2 DEF Save, MInv, SavedShape
  <2>7. store'.sys = store.sys
    BY <2>2 DEF Save, MInv, SavedShape
  <2>8. store' = [procs |-> store'.procs, meta |-> store'.meta, sys |-> store'.sys]
    BY <2>2 DEF Save
  <2>9. QED
    BY <2>4, <2>5, <2>6, <2>7, <2>8
<1>2. Spec => []MInv
  BY InitMInv, NextMInv, PTL DEF Spec
<1>3. QED
  BY <1>1, <1>2, PTL DEF Spec, RestartKeepsStore

=============================================================================
