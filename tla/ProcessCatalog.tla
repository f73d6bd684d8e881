--------------------------- MODULE ProcessCatalog ---------------------------
(***************************************************************************)
(* What the restream supervisor promises about its processes, without     *)
(* tasks, ports, parsers or locks.  Every process id is absent or carries  *)
(* a user order (start / stop).  The order lives in memory (mem) and in   *)
(* the persisted catalog (disk); run is the set of processes whose engine *)
(* runs.                                                                   *)
(*                                                                         *)
(* A user operation changes at most one process and persists the whole   *)
(* memory.  Only the system (the disk observer) may change an order       *)
(* without persisting it, and only from start to stop.  Engines run only  *)
(* for processes ordered to start; they are halted and resumed as a whole *)
(* by the supervisor's Stop and Start.  A restart of the program brings   *)
(* back what was persisted, with no engine running.                        *)
(***************************************************************************)
EXTENDS TLAPS

CONSTANT Ids

VARIABLES mem, disk, run

Absent == "absent"

Orders == {"start", "stop"}

States == Orders \cup {Absent}

absVars == <<mem, disk, run>>

Init ==
  /\ mem = [id \in Ids |-> Absent]
  /\ disk = mem
  /\ run = {}

\* A new process with order o; it runs at once when ordered to start.
Create(id, o) ==
  /\ mem[id] = Absent
  /\ mem' = [mem EXCEPT ![id] = o]
  /\ disk' = mem'
  /\ run' = IF o = "start" THEN run \cup {id} ELSE run

\* The user orders a process to start (its engine runs) or to stop.
SetOrder(id, o) ==
  /\ mem[id] # Absent
  /\ mem' = [mem EXCEPT ![id] = o]
  /\ disk' = mem'
  /\ run' = IF o = "start" THEN run \cup {id} ELSE run \ {id}

\* A user operation that changes no order persists the memory.
Save ==
  /\ disk' = mem
  /\ UNCHANGED <<mem, run>>

\* A process moves to the id nid (possibly its own) and keeps its order;
\* its engine is replaced and the new one may be left stopped.
Move(id, nid) ==
  /\ mem[id] # Absent
  /\ nid = id \/ mem[nid] = Absent
  /\ mem' = [[mem EXCEPT ![id] = Absent] EXCEPT ![nid] = mem[id]]
  /\ disk' = mem'
  /\ \/ run' = run \ {id}
     \/ /\ mem[id] = "start"
        /\ run' = (run \ {id}) \cup {nid}

\* Only a process ordered to stop can be removed.
Remove(id) ==
  /\ mem[id] = "stop"
  /\ mem' = [mem EXCEPT ![id] = Absent]
  /\ disk' = mem'
  /\ run' = run \ {id}

\* The supervisor's Start resumes the engine of a process ordered to start.
Resume(id) ==
  /\ mem[id] = "start"
  /\ run' = run \cup {id}
  /\ UNCHANGED <<mem, disk>>

\* The supervisor's Stop halts every engine and keeps the orders.
Halt ==
  /\ run' = {}
  /\ UNCHANGED <<mem, disk>>

\* The system stops the processes S ordered to start, without persisting.
SystemStop(S) ==
  /\ S \subseteq {id \in Ids : mem[id] = "start"}
  /\ mem' = [id \in Ids |-> IF id \in S THEN "stop" ELSE mem[id]]
  /\ run' = run \ S
  /\ UNCHANGED disk

\* The program restarts from the persisted catalog.
Reboot ==
  /\ mem' = disk
  /\ run' = {}
  /\ UNCHANGED disk

Next ==
  \/ \E id \in Ids, o \in Orders : Create(id, o) \/ SetOrder(id, o)
  \/ Save
  \/ \E id, nid \in Ids : Move(id, nid)
  \/ \E id \in Ids : Remove(id) \/ Resume(id)
  \/ Halt
  \/ \E S \in SUBSET Ids : SystemStop(S)
  \/ Reboot

Spec == Init /\ [][Next]_absVars

-----------------------------------------------------------------------------
TypeOK ==
  /\ mem \in [Ids -> States]
  /\ disk \in [Ids -> States]
  /\ run \subseteq Ids

\* An engine runs only for a process that exists and is ordered to start.
RunsOnlyStarted == \A id \in run : mem[id] = "start"

\* The persisted catalog differs from memory only where the system stopped
\* a process the user had ordered to start.
DiskLagsOnlyBySystemStop ==
  \A id \in Ids : mem[id] # disk[id] => mem[id] = "stop" /\ disk[id] = "start"


\* The two properties together with the types, which make them inductive.
AbsInv == TypeOK /\ RunsOnlyStarted /\ DiskLagsOnlyBySystemStop

\* Every operation of the catalog keeps engines to processes ordered to
\* start and lets memory run ahead of the persisted catalog only by the
\* system's unsaved stops.
THEOREM AbsInvariant == Spec => []AbsInv
<1>1. Init => AbsInv
  BY DEF Init, AbsInv, TypeOK, RunsOnlyStarted, DiskLagsOnlyBySystemStop,
         States
<1>2. AbsInv /\ [Next]_absVars => AbsInv'
  <2> SUFFICES ASSUME AbsInv, [Next]_absVars PROVE AbsInv'
    OBVIOUS
  <2> USE DEF AbsInv, TypeOK, RunsOnlyStarted, DiskLagsOnlyBySystemStop,
              States, Orders, Absent
  <2>1. ASSUME NEW id \in Ids, NEW o \in Orders, Create(id, o) PROVE AbsInv'
    BY <2>1 DEF Create
  <2>2. ASSUME NEW id \in Ids, NEW o \in Orders, SetOrder(id, o) PROVE AbsInv'
    BY <2>2 DEF SetOrder
  <2>3. CASE Save
    BY <2>3 DEF Save
  <2>4. ASSUME NEW id \in Ids, NEW nid \in Ids, Move(id, nid) PROVE AbsInv'
    BY <2>4 DEF Move
  <2>5. ASSUME NEW id \in Ids, Remove(id) PROVE AbsInv'
    BY <2>5 DEF Remove
  <2>6. ASSUME NEW id \in Ids, Resume(id) PROVE AbsInv'
    BY <2>6 DEF Resume
  <2>7. CASE Halt
    BY <2>7 DEF Halt
  <2>8. ASSUME NEW S \in SUBSET Ids, SystemStop(S) PROVE AbsInv'
    BY <2>8 DEF SystemStop
  <2>9. CASE Reboot
    BY <2>9 DEF Reboot
  <2>10. CASE UNCHANGED absVars
    BY <2>10 DEF absVars
  <2>11. QED
    BY <2>1, <2>2, <2>3, <2>4, <2>5, <2>6, <2>7, <2>8, <2>9, <2>10 DEF Next
<1>3. QED
  BY <1>1, <1>2, PTL DEF Spec

=============================================================================
