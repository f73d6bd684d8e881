----------------------------- MODULE ProbeRace -----------------------------
(***************************************************************************)
(* One task of src/restream/restream.go seen by ProbeWithTimeout (lines   *)
(* 1325-1384) while ReloadProcess (lines 1133-1207) rebuilds it.  Reload  *)
(* holds the write lock and writes the task's fields one after the other: *)
(* valid, then a fresh clone of the config, which resolvePlaceholders,    *)
(* resolveAddresses and setPlayoutPorts then complete in place.  Probe    *)
(* looks the task up under the read lock, releases it, and only then     *)
(* reads task.valid and task.config.                                       *)
(*                                                                         *)
(* The config is abstracted to how far it is built: "raw" (a clone of the *)
(* user config), "expanded" (placeholders replaced), "resolved" (input    *)
(* references replaced), "built" (playout ports set), which is what a    *)
(* successful build leaves.                                                *)
(***************************************************************************)
EXTENDS Naturals, TLAPS

CONSTANTS
  Probers,   \* goroutines calling Probe on the task
  MaxReloads \* bound on the number of ReloadProcess calls

ASSUME ProbeAssumption == MaxReloads \in Nat

CfgStates == {"raw", "expanded", "resolved", "built"}

VARIABLES
  locked,  \* r.lock is held for writing (by ReloadProcess)
  valid,   \* task.valid
  cfg,     \* how far task.config is built
  rpc,     \* where ReloadProcess is
  reloads, \* ReloadProcess calls so far
  probe,   \* per prober: where Probe is
  seen     \* per prober: the config state Probe built its command from

vars == <<locked, valid, cfg, rpc, reloads, probe, seen>>

Init ==
  /\ locked = FALSE
  /\ valid = TRUE
  /\ cfg = "built"
  /\ rpc = "idle"
  /\ reloads = 0
  /\ probe = [p \in Probers |-> "idle"]
  /\ seen = [p \in Probers |-> "built"]

\* ReloadProcess takes the write lock.
ReloadLock ==
  /\ rpc = "idle" /\ ~locked /\ reloads < MaxReloads
  /\ locked' = TRUE
  /\ rpc' = "locked"
  /\ reloads' = reloads + 1
  /\ UNCHANGED <<valid, cfg, probe, seen>>

\* A reloadProcess that leaves task.valid as it was.
ReloadInvalidateNoReset ==
  /\ rpc = "locked"
  /\ rpc' = "invalid"
  /\ UNCHANGED <<locked, valid, cfg, reloads, probe, seen>>

\* reloadProcess marks the task invalid.
ReloadInvalidate ==
  /\ rpc = "locked"
  /\ valid' = FALSE
  /\ rpc' = "invalid"
  /\ UNCHANGED <<locked, cfg, reloads, probe, seen>>

\* t.config = t.process.Config.Clone().
ReloadClone ==
  /\ rpc = "invalid"
  /\ cfg' = "raw"
  /\ rpc' = "cloned"
  /\ UNCHANGED <<locked, valid, reloads, probe, seen>>

\* resolvePlaceholders rewrites the clone in place.
ReloadPlaceholders ==
  /\ rpc = "cloned"
  /\ cfg' = "expanded"
  /\ rpc' = "expanded"
  /\ UNCHANGED <<locked, valid, reloads, probe, seen>>

\* resolveAddresses writes the resolved inputs back into the clone.
ReloadAddresses ==
  /\ rpc = "expanded"
  /\ cfg' = "resolved"
  /\ rpc' = "resolved"
  /\ UNCHANGED <<locked, valid, reloads, probe, seen>>

\* validateConfig reads the clone and writes nothing back into it.
ReloadValidate ==
  /\ rpc = "resolved"
  /\ rpc' = "validated"
  /\ UNCHANGED <<locked, valid, cfg, reloads, probe, seen>>

\* setPlayoutPorts writes the playout options into the clone's inputs.
ReloadPorts ==
  /\ rpc = "validated"
  /\ cfg' = "built"
  /\ rpc' = "built"
  /\ UNCHANGED <<locked, valid, reloads, probe, seen>>

\* The command, parser and engine are built, the task marked valid, the
\* engine restarted if it ran, the catalog saved and the lock released.
ReloadFinish ==
  /\ rpc = "built"
  /\ valid' = TRUE
  /\ locked' = FALSE
  /\ rpc' = "idle"
  /\ UNCHANGED <<cfg, reloads, probe, seen>>

\* resolveAddresses, validateConfig, setPlayoutPorts or ffmpeg.New fails:
\* reloadProcess returns the error, the task stays invalid with its
\* half-built config, nothing is saved and the deferred Unlock runs.
ReloadFail ==
  /\ rpc \in {"expanded", "resolved", "validated", "built"}
  /\ locked' = FALSE
  /\ rpc' = "idle"
  /\ UNCHANGED <<valid, cfg, reloads, probe, seen>>

\* Probe looks the task up under the read lock and releases it.
ProbeLookup(p) ==
  /\ probe[p] = "idle" /\ ~locked
  /\ probe' = [probe EXCEPT ![p] = "found"]
  /\ UNCHANGED <<locked, valid, cfg, rpc, reloads, seen>>

\* Probe reads task.valid without the lock; an invalid task gives an empty
\* probe.
ProbeCheckValid(p) ==
  /\ probe[p] = "found"
  /\ probe' = [probe EXCEPT ![p] = IF valid THEN "checked" ELSE "idle"]
  /\ UNCHANGED <<locked, valid, cfg, rpc, reloads, seen>>

\* Probe builds its command from task.config, still without the lock.
ProbeCommand(p) ==
  /\ probe[p] = "checked"
  /\ seen' = [seen EXCEPT ![p] = cfg]
  /\ probe' = [probe EXCEPT ![p] = "command"]
  /\ UNCHANGED <<locked, valid, cfg, rpc, reloads>>

\* The probe engine runs to its end and Probe returns.
ProbeRun(p) ==
  /\ probe[p] = "command"
  /\ probe' = [probe EXCEPT ![p] = "idle"]
  /\ UNCHANGED <<locked, valid, cfg, rpc, reloads, seen>>

Next ==
  \/ ReloadLock \/ ReloadInvalidate \/ ReloadClone \/ ReloadPlaceholders
  \/ ReloadAddresses \/ ReloadValidate \/ ReloadPorts \/ ReloadFinish
  \/ ReloadFail
  \/ \E p \in Probers :
       ProbeLookup(p) \/ ProbeCheckValid(p) \/ ProbeCommand(p) \/ ProbeRun(p)

Spec == Init /\ [][Next]_vars

-----------------------------------------------------------------------------
\* task.valid is an honest flag: whenever it is set, task.config is a fully
\* built config.  reloadProcess clears it before its first write to the
\* config and sets it after its last.
ValidMeansBuilt == valid => cfg = "built"

\* Probe runs the engine only on a fully built config (spec 7: operations
\* on the same task are serialised by the lock).  ProbeWithTimeout reads
\* task.config after releasing the read lock (line 1336), while a reload
\* may be rebuilding it.
ProbeSeesBuiltConfig == \A p \in Probers : probe[p] = "command" => seen[p] = "built"


-----------------------------------------------------------------------------
(* Proof that the flag is honest for every set of probers and every bound. *)

\* Where ReloadProcess is while it holds the lock after clearing the flag.
Rebuilding == {"invalid", "cloned", "expanded", "resolved", "validated", "built"}

\* The flag is clear while reload rebuilds, and the config is complete once
\* setPlayoutPorts has run: together with the flag's meaning, inductive.
FlagInv ==
  /\ valid \in BOOLEAN
  /\ rpc \in {"idle", "locked"} \cup Rebuilding
  /\ ValidMeansBuilt
  /\ rpc \in Rebuilding => ~valid
  /\ rpc = "built" => cfg = "built"

\* ValidMeansBuilt holds in every reachable state: the order of the writes
\* in reloadProcess (clear the flag, rebuild, set the flag) keeps it.
THEOREM ValidFlagHonest == Spec => []ValidMeansBuilt
<1>1. Init => FlagInv
  BY DEF Init, FlagInv, ValidMeansBuilt, Rebuilding
<1>2. FlagInv /\ [Next]_vars => FlagInv'
  <2> SUFFICES ASSUME FlagInv, [Next]_vars PROVE FlagInv'
    OBVIOUS
  <2> USE DEF FlagInv, ValidMeansBuilt, Rebuilding
  <2>1. CASE ReloadLock
    BY <2>1 DEF ReloadLock
  <2>2. CASE ReloadInvalidate
    BY <2>2 DEF ReloadInvalidate
  <2>3. CASE ReloadClone
    BY <2>3 DEF ReloadClone
  <2>4. CASE ReloadPlaceholders
    BY <2>4 DEF ReloadPlaceholders
  <2>5. CASE ReloadAddresses
    BY <2>5 DEF ReloadAddresses
  <2>6. CASE ReloadValidate
    BY <2>6 DEF ReloadValidate
  <2>7. CASE ReloadPorts
    BY <2>7 DEF ReloadPorts
  <2>8. CASE ReloadFinish
    BY <2>8 DEF ReloadFinish
  <2>9. CASE ReloadFail
    BY <2>9 DEF ReloadFail
  <2>10. ASSUME NEW p \in Probers,
                ProbeLookup(p) \/ ProbeCheckValid(p) \/ ProbeCommand(p) \/ ProbeRun(p)
         PROVE FlagInv'
    BY <2>10 DEF ProbeLookup, ProbeCheckValid, ProbeCommand, ProbeRun
  <2>11. CASE UNCHANGED vars
    BY <2>11 DEF vars
  <2>12. QED
    BY <2>1, <2>2, <2>3, <2>4, <2>5, <2>6, <2>7, <2>8, <2>9, <2>10, <2>11
    DEF Next
<1>3. FlagInv => ValidMeansBuilt
  BY DEF FlagInv
<1>4. QED
  BY <1>1, <1>2, <1>3, PTL DEF Spec

=============================================================================
