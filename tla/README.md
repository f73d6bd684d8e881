# TLA+ models of the restream supervisor

This directory holds the formal model of `src/restream/restream.go`, the
process supervisor of datarhei-core. It contains TLA+ modules, TLC
configurations, and TLAPS proofs. `PROJECT.json` lists the components,
runs, mutants, the source line each definition translates (`map`), the
findings, the hazards and the theorems.

## The system

`restream` keeps a map `r.tasks` from process id to `task`, guarded by one
`sync.RWMutex`. The parts that change state are:

| Part | Code | What it does |
|---|---|---|
| Registry | `AddProcess`, `UpdateProcess`, `DeleteProcess`, `createTask` | Builds a task from a config (reference resolution, validation, playout ports, parser, engine handle) and inserts, replaces or removes it. `AddProcess` builds under the read lock and inserts under the write lock. The others hold the write lock throughout. |
| Lifecycle | `startProcess`, `stopProcess`, `StartProcess`, `StopProcess`, `ReloadProcess`, `RestartProcess` | Moves the user order (`process.Order`) and the engine order together. Counts started engines in `r.nProc` and refuses a start at `MaxProcesses`. |
| Supervisor | `Start`, `Stop` | Two `sync.Once` latches, each re-arming the other. `Start` starts every task ordered to start, installs cleanup rules and launches one observer per disk filesystem. `Stop` stops every engine without touching orders or `r.nProc`, removes cleanup rules and cancels the observer. |
| Observer | `observe` | A goroutine per disk filesystem. On a tick that finds the disk full, it takes the write lock and calls `stopProcess` on every valid disk task ordered to start. It does not save. |
| Persistence | `save`, `load`, `New` | `save` writes every task's process entry after each successful mutation. `New` runs `load`, which creates every stored task first and then validates each one in map order, keeping tasks that fail as invalid. |
| Ports | `setPlayoutPorts`, `unsetPlayoutPorts` | Borrow and return ports of the engine's pool. |
| Cleanup rules | `setCleanup`, `unsetCleanup` | Per-id rule sets on the filesystems. |

| Metadata | `SetProcessMetadata`, `SetMetadata`, `save`, `load` | A key/value map per task and one for the supervisor, persisted with the catalog. |
| Address validation | `validateConfig`, `validateOutputAddress` | Normalises every output address against the base directory of each disk filesystem and reports whether the config writes files. |
| Probe | `ProbeWithTimeout` | Looks a task up under the read lock, then builds a probe command from its config. |

Not modelled: placeholder expansion, input-address validation and the
read-only queries other than `Probe`. See the last section.

## Modules

* `Restream.tla` is the supervisor. Each operation holding the write lock
  for its whole duration is one action. `AddProcess` is two actions:
  `AddBuild` (createTask under the read lock, parking the task in
  `pending[c]` for caller `c`) and `AddInsert` (the write-locked half).
  The loops of `load()` and `Start()` hold the lock, so they are one action
  per iteration (`LoadStep`, `StartStep`). The `phase` variable keeps
  every other writer out while they run (`LockFree`).

  The observer is `ObserverTick` (outside the lock), `ObserverSweep`
  (under it) and `ObserverExit` (context cancelled). Its state is
  `obs[e]` for the observer launched by the e-th `Start()`.
  `ProgramRestart` is a new process running `New()` on the saved catalog.
  `DiskFill` and `DiskFree` are the environment.

  State corresponds to the code as follows:
  * `tasks`: `r.tasks`. Each task is a record of order, engine order
    (`"none"` for a nil handle), valid, parser, usesDisk, config and
    playout ports.
  * `nProc`: `r.nProc`.
  * `free`: the engine's port pool.
  * `cleanup`: the ids with rules installed.
  * `store`: the last catalog `save()` wrote.
  * `orphaned` and `nilDeref`: ghosts recording a dropped running engine
    handle and a call on a nil parser.

  Data is abstracted. A config (`ConfigRec`) keeps only what the control
  flow reads: its id, the process its input references, whether an output
  is a disk file, how many inputs need a playout port, Autostart, and
  whether it has cleanup rules. `UpdateWith` and `ReloadWith` are the
  bodies of `UpdateProcess` and `ReloadProcess` once the ports `S` are
  drawn. `Grab` draws any `k` ports of a pool, or all of them when fewer
  remain, which models a `GetPort` failure.
* `MCRestream.tla` gives the three configs TLC uses:
  * `a`: disk output, one playout input, Autostart, cleanup rules.
  * `b`: references `a`, disk output, one playout input, Autostart.
  * a second `b`: no reference, no disk, two playout inputs, not
    started, cleanup rules.

  So Update can rename, ports run short, and deleting `a` leaves `b`
  dangling.
* `RestreamProofs.tla` holds the TLAPS proofs of the invariants.
* `RestreamPorts.tla` extends it with the proofs about playout ports:
  who holds which port (`HeldPorts` per id, `ParkedPorts` per
  `AddProcess` caller), and whether a task holds all its ports.
* `RestreamEngines.tla` extends `RestreamPorts` and `RestreamRefinement`
  with the proofs about running engines: every engine runs with all its
  playout ports, and no step starts the engine of an invalid task.
* `ProcessCatalog.tla` is the abstract specification: what the supervisor
  promises about its processes without tasks, ports, parsers or locks.
  `mem` is each id's order in memory (`"absent"`, `"start"`, `"stop"`),
  `disk` the saved orders, `run` the processes whose engine runs. User
  operations (`Create`, `SetOrder`, `Move`, `Remove`, `Save`) persist the
  whole memory. The supervisor's `Resume` and `Halt` move only `run`.
  `SystemStop` is the one step that changes orders without saving, and only
  from start to stop. `Reboot` brings back the disk with nothing running.
* `Restream.tla` ends with the refinement mapping `memBar`, `diskBar` and
  `Running` (the tasks whose engine order is start), and
  `Refinement == Abs!Spec` for `Abs == INSTANCE ProcessCatalog WITH ...`.
  `RestreamRefinement.tla` proves it.
* `RestreamMetadata.tla` models the metadata maps. The registry is
  abstracted to the set of ids in `r.tasks`; failed operations change
  nothing and are left out. `Save` is `save()` (lines 379-389): the system
  metadata is copied inside the loop over tasks. `ProgramRestart` is
  `New()` with `load()` then `save()`.
* `OutputAddress.tla` models `validateOutputAddress` as a recursive
  operator and the output loop of `validateConfig` as a state machine
  (`CheckOutputs`, `BeginOutput`, `ValidateAt` once per disk
  filesystem, `EndOutput`, `Finish`). An address is a sequence of tokens:
  single characters, plus `dev`, `file:`, a URL start `u:` and a tee
  option group `[o]`. `Str` spells tokens out so that `strings.HasPrefix`
  compares characters, as the code does. `Abs` and `Clean` follow
  `filepath.Abs` and `filepath.Clean` on rooted paths. `url.HasScheme` is
  outside this repository: an address has a scheme when it starts with
  a letter run and a colon, which among the tokens are `u:`, `pipe:` and
  `file:`. So a second `file:`, left after line 772 strips the first,
  makes the address a URL. The engine's allow-lists and `url.Validate` accept
  everything, so the only rejection is the basedir check. `address` is
  `io.Address`, the loop's copy; `output` (the config) is never written,
  as in the code.
* `ProbeRace.tla` is one task seen by `ProbeWithTimeout` while
  `ReloadProcess` rebuilds it. The reload is split into its writes, all
  under the write lock: clear `valid`, clone the config, expand
  placeholders, resolve references, set playout ports, then set `valid`
  and unlock. Any of the last four can fail. The config is abstracted to
  how far it is built. Probe's lookup takes the read lock; its reads of
  `valid` and of the config come after `RUnlock`, as at line 1336.
* `MCRestreamMetadata.tla`, `MCOutputAddress.tla` and `MCProbeRace.tla`
  give those modules their TLC instances.

## Runs

The runs on `MCRestream` use Ids `{"a","b"}`, Ports `{p1,p2}` and
`MaxProcesses = 1`.

| Run | cfg | Expect | Shows |
|---|---|---|---|
| safety | `MCRestream.cfg` | pass (84,442 states) | See below. |
| cap | `MCRestream_cap.cfg` | violation | `stopProcess` decrements `r.nProc` for a task refused at the cap. More than `MaxProcesses` engines then run. |
| portleak | `MCRestream_portleak.cfg` | violation | `AddProcess` loses a playout port: a config with two playout inputs gets the last free port, `GetPort` fails for the second, and `createTask` returns at line 490 without giving the first back. The same invariant also rejects the other leaks the model has (UpdateProcess's checks after `createTask`, line 873; an `AddProcess` that finds its id taken), but TLC reports the shortest trace. |
| nilparser | `MCRestream_nilparser.cfg` | violation | Updating a task that `load()` could not validate calls a method on its nil parser. |
| diskwriter | `MCRestream_diskwriter.cfg` | violation | A reload whose reference fails marks the task invalid with its engine still running. The observer skips invalid tasks, so it writes to the full disk forever. |
| metadata | `MCRestreamMetadata.cfg` | pass (200 states) | The store holds every registered process with its metadata (`StoreHoldsProcesses`), and a restart writes back exactly what it read (`RestartKeepsStore`). |
| sysmeta | `MCRestreamMetadata_sysmeta.cfg` | violation | `SetMetadata` with no process registered is not persisted (`StoreHoldsSystemMetadata`). |
| outputaddr | `MCOutputAddress.cfg` | pass (2,765,769 states) | Configs with one output (every address of up to four tokens) or two (every pair of addresses of up to three tokens over `/`, `d`, `2`, `.`, `|`, `-`), plus none, against no disk, base `/d`, or `/d` and `/2` in both orders. The loop's state stays well formed (`TypeOK`, including `maxFails` at most one per filesystem) and every path through it ends. |
| basedir | `MCOutputAddress_basedir.cfg` | violation | `/dev` (and `/d2`) is accepted as a file inside base `/d`, because line 803 compares string prefixes (`FilesInsideBase`). `file:file:/2` breaks the same property another way: line 772 strips one `file:` and the rest is taken for a URL, which skips the basedir check. |
| writeback | `MCOutputAddress_writeback.cfg` | violation | The accepted form never reaches the config: `validateConfig` assigns it to the range variable `io`, a copy (`NormalisedFormStored`). |
| flag | `MCProbeRace.cfg` | pass (2,504 states) | `task.valid` is set only while the config is fully built (`ValidMeansBuilt`). |
| probe | `MCProbeRace_probe.cfg` | violation | A probe that read `valid` before a reload builds its command from the half-built clone (`ProbeSeesBuiltConfig`). |

The safety run covers two concurrent callers, two `Start()` epochs and one
restart, under `FairSpec` (the observer weakly fair). It shows:
* No engine handle is dropped while it is told to run (`NoOrphanEngine`).
* No playout port is held by two tasks or builds, or both held and free
  (`PortsExclusive`).
* A valid task holds a playout port for each of its playout inputs
  (`ValidTasksHavePorts`). `setPlayoutPorts` can fail after some `GetPort`
  calls succeeded (line 598), and every caller must then leave the task
  invalid.
* Every running engine holds a playout port for each of its playout
  inputs, valid task or not (`RunningHavePorts`). A reload that fails at
  `setPlayoutPorts` (lines 1169-1172) returns before `stopProcess`, so the
  engine keeps running after its old ports went back to the pool. The
  reload must have drawn all of them again, which holds because
  `unsetPlayoutPorts` runs before the new `GetPort` calls.
* No step starts an engine for an invalid task, and a running engine of
  an invalid task keeps its ports and config (`EnginesStartValid`, an
  action property).

It also checks `TypeOK` and `RInv`, the inductive invariant `IInv` plus
`LoadingIdle` (no engine runs while `load()` is in progress). And it checks
`StoreLagsOnlyByObserver`: the saved catalog differs from memory only where
the observer stopped a process ordered to start. That is the abstract
`DiskLagsOnlyBySystemStop` read through the mapping, so a restart can bring
back an old order only after an observer stop. It checks `Refinement`, that
the supervisor implements `ProcessCatalog`. And it checks the liveness
property `DiskFullStopsValidWriters`: under weak fairness of the observer's
tick and sweep, a disk that stays full while the supervisor runs ends with
no valid disk task ordered to start.

`Restream.tla` also states properties that TLC finds violated with the
same constants, with no run of their own in `PROJECT.json`:
* `NProcCountsRunning`: `Stop()` leaves `r.nProc` unchanged, so after Stop
  and Start it no longer counts the running engines.
* `CleanupOnlyForTasks`: the rollback of `AddProcess` after a refused start
  leaves cleanup rules behind.
* `StoreSelfContained`: deleting a referenced process saves a catalog with
  a dangling reference.
* `StartedTaskStoppable`: an invalid loaded task ordered to start can
  neither be stopped nor deleted.
* `StoredOrderMatches`: the observer's stop is not saved.

`OutputAddress.tla` states `VerdictAsSpecified`: the chained loop of
`validateConfig` should accept an output exactly when some base accepts it
on its own, and report a file exactly when one of them would. TLC finds it
violated with the outputaddr constants. With bases `/2` then `/d`, the
output `file:file:` is a URL for `/2`, which returns `file:`. For `/d` that
becomes the empty path, which `filepath.Abs` turns into the working
directory `/d`, a file, although no base alone reports one.

`RestreamMetadata.tla` likewise states `MetadataOnlyBySetter`, which
`UpdateProcess` violates by dropping the process's metadata. To reproduce
any of these, check that property alone with the constants of the
module's passing cfg.

Every action and every disjunct of `Next` fires in the safety run (checked
with TLC's coverage report). Each property of the passing runs has a
mutant that TLC catches:
* `save` without the config breaks `TypeOK`.
* `deleteProcess` without its order check breaks `NoOrphanEngine`.
* `deleteProcess` returning the ports before the order check breaks
  `PortsExclusive`.
* `setPlayoutPorts` going on after a `GetPort` error (`PortsOkSkipErrors`)
  breaks `ValidTasksHavePorts`.
* `reloadProcess` asking for the new ports before giving back the old
  ones (`ReloadProcessGetFirst`) breaks `RunningHavePorts`.
* `startProcess` without its validity check (`MayStartUnchecked`) breaks
  `EnginesStartValid`.
* `startProcess` not setting the order breaks `RInv`.
* `StartProcess` without `save()` breaks `StoreLagsOnlyByObserver`.
* `deleteProcess` without its order check breaks `Refinement` (a running
  engine survives its process).
* `save()` without the process metadata breaks `TypeOK` of the metadata
  model.
* `SetProcessMetadata` without `save()` breaks `StoreHoldsProcesses`.
* A restart that loads no metadata breaks `RestartKeepsStore`.
* Not resetting `maxFails` per output breaks `TypeOK` of the address model.
* A reload that does not clear `valid` breaks `ValidMeansBuilt`.
* A sweep selecting running engines instead of tasks ordered to start
  breaks the liveness property.

**Bounds.** Two ids are enough for one task to reference the other and for
Update to rename onto a taken id. Two ports, with one config needing two,
make `GetPort` run dry. Two callers produce the AddProcess race. A cap of
one makes every start compete. Two `Start()` epochs give a stale observer
a later epoch to act in. One restart exercises `load()` on every catalog
the first run can save.

The address run enumerates every address of up to four tokens over ten
tokens. That is enough for `/d2`, `/dev/2`, `../2` and `./2` (relative to
the working directory `/d`), `file:` prefixes, a URL, `-`, and tees with
an option group or an empty element. Two bases, in both orders, are
enough for an address accepted by one base and rejected by the other, in
either order. Two outputs over a smaller alphabet carry the loop's
counters from one output to the next. The probe model uses two probers and two reloads. A
reload can then fail and be followed by one that succeeds, with a probe
overlapping each step.

**Fairness.** Only the observer is fair: `WF` on `ObserverTick(e)` and
`ObserverSweep(e)`. The ticker fires every 10 seconds. The sweep waits only
for the write lock, and every holder releases it when its call returns.
API calls, restarts and disk changes are the environment and get no
fairness.

## Proofs

`RestreamProofs.tla` proves, for every value of the constants:

* `IInvInvariant`: `Spec => []IInv`.
* `TypeCorrect`: `Spec => []TypeOK`.
* `NoOrphan`: `Spec => []NoOrphanEngine`.

They rest on these constant assumptions:
* `Ids` and `Ports` are finite.
* `NoTask` and `NoRef` are not ids.
* `NoTask` is not a task.
* Every config is a `ConfigRec`.
* The bounds are natural numbers.

`NoOrphanEngine` alone is not inductive. Whether a step can drop a running
handle depends on the handle's state. `IInv` strengthens it with four
facts:
* `EngineOrderConsistent`: an engine told to start belongs to a task
  ordered to start. This is what makes `deleteProcess`'s order check and
  the `stopProcess` before every replacement sufficient.
* A parked `AddProcess` build has an engine that was never started.
* Inside `Start()` an epoch is left for the new observer.
* The loops of `load()` and `Start()` visit only registered tasks.

`InitIInv` and one lemma per action (`…IInv`) give
`IInv /\ [Next]_vars => IInv'` (`NextIInv`). The action lemmas rest on
lemmas about the helpers:
* `TaskOps`: `startProcess` and `stopProcess` keep a task and relate its
  two orders.
* `GoodExcept`: writing a good entry keeps the map good.
* `NewTaskType`, `CatalogType`, `LoadedType`, `GrabSubset` and
  `TaskFields`.

TLC checks `IInv` itself in the safety run.

`RestreamRefinement.tla` proves `RInvInvariant` (`Spec => []RInv`),
`Implementation` (`Spec => Refinement`) and `StoreLags`
(`Spec => []StoreLagsOnlyByObserver`). The argument:
* `Init` maps to `Abs!Init`.
* Under `RInv`, every step maps to an abstract step or a stutter
  (`NextRef`, one lemma per action).
  * Add, Update, Delete, StartProcess and StopProcess map to `Create`,
    `Move`, `Remove` and `SetOrder`.
  * A failed reload maps to `SetOrder` or a stutter.
  * The loops of `Start()` and `load()` map to `Resume` and stutters.
  * `Stop()` maps to `Halt`.
  * The observer's sweep maps to `SystemStop`.
  * A restart maps to `Reboot`.

`LoadingIdle` is needed because a `LoadStep` that starts a task is a
`Resume`, which requires the abstract memory to say start. `IInv` supplies
the engine/order consistency that makes a running engine a started
process. `ProcessCatalog.tla` proves `AbsInvariant` for the abstract
specification, and `StoreLags` is its instance through the mapping.

`RestreamMetadata.tla` proves `StoreHolds` (`Spec => []StoreHoldsProcesses`)
and `LoadSaveFixedPoint` (`Spec => RestartKeepsStore`). Both use the
inductive `MInv`: types, the stored processes, and the shape of a saved
store (metadata `Empty` outside the registered ids). `ProbeRace.tla`
proves `ValidFlagHonest` (`Spec => []ValidMeansBuilt`) with `FlagInv`:
the flag is clear from the invalidation to the end of the rebuild, and the
config is complete once the ports are set.

`RestreamMetadata.tla` also proves `MetaTypeCorrect`
(`Spec => []TypeOK`) from `MInv`.

`RestreamPorts.tla` proves two theorems about playout ports, from the
same assumptions as `RestreamProofs.tla`:
* `PortsNeverShared`: `Spec => []PortsExclusive`.
* `ValidTaskPorts`: `Spec => []ValidTasksHavePorts`.

`PortsExclusive` quantifies over pairs of owners, which is awkward to
carry through a step. The proof restates it per holder as `PortsDisjoint
== Excl(HeldPorts, ParkedPorts, free)`: the holdings of the ids, of the
callers and the pool are pairwise disjoint. `PInv == IInv /\
PortsDisjoint` is inductive; `IInv` supplies the types. Four lemmas about
`Excl` carry every step:
* `ReassignHeld` and `ReassignParked`: one holder's ports are replaced by
  ports taken from the pool or from what it held, and the rest may return
  to the pool.
* `ShrinkFree`: ports leave the pool and go nowhere (a failed build).
* `MoveParked`: a parked build's ports pass to a new task.

Each action has a lemma (`AddBuildPorts`, `UpdatePorts`, `ReloadPorts`,
...), and `DisjointExclusive` turns `PortsDisjoint` back into
`PortsExclusive`.

`ValidTasksHavePorts` is not inductive either. `AddProcess` inserts a
parked build, so parked builds must hold all their ports too
(`BuildsHavePorts`). A failed iteration of `load()` keeps the task's
`valid` flag, so the tasks `load()` has still to visit must be invalid
(`LoadingInvalid`). `VInv == IInv /\ Full` adds both, and TLC checked it
on the safety run's instance before it was proved.

`RestreamEngines.tla` proves two more theorems, from the same
assumptions:
* `RunningPorts`: `Spec => []RunningHavePorts`.
* `EnginesValid`: `Spec => EnginesStartValid`.

Both rest on the inductive invariant `EInv == VInv /\ LoadingIdle /\
RunFull`. `RunFull` says that a task whose engine runs holds all its
ports. `NextStepValid` shows that every step meets the step condition of
`EnginesStartValid`, with one lemma per action:
* Every start goes through `MayStart`, which requires `valid`.
* `Stop()`, the sweep and `stopProcess` only stop engines.
* A parked build, a loaded task and a task `load()` validates have no
  running engine. For `load()` this is what `LoadingIdle` gives.
* A reload with a failed reference keeps the engine, its ports and its
  config.
* A reload that fails at `setPlayoutPorts` cannot hit a running engine.
  By `RunFull` the engine's task holds all `k` of its ports, and they are
  in the pool the reload draws from. So the pool has at least `k` ports
  (`GrabAll`, from `FS_Subset`), and the draw gets all `k`.

`RunFull` then carries over each step:
* An engine that runs after the step belongs to a valid task, which
  holds all its ports by `VInv`.
* Otherwise it ran before on the same ports and config, and `RunFull`
  held for it then.

TLC checked `EInv` on the safety run's instance before it was proved.

Only model-checked:
* The liveness property. Fairness and `ENABLED` are outside TLAPS.
* Every violated property.
* Everything about `OutputAddress`. Its path helpers are RECURSIVE operators. A
  module that reaches one loses the SMT backend, and what a recursive
  definition computes for every input cannot be proved here.

## Not modelled

* **Placeholders and input addresses.** Placeholder expansion is pure
  string rewriting. Input validation only consults the engine's allow-list
  and `url.Validate`, which are outside this repository. `Restream` still
  assumes every config validates and keeps only `usesDisk`.
  `OutputAddress` leaves out the ID checks and `TrimSpace`, since its
  alphabet has no spaces.
* **The stale copy of a referenced address (line 855).** It needs the
  registry and real addresses together. Because of the `writeback`
  finding, the copied address is the unnormalised one in any case.
* **`RestartProcess`.** It calls `Kill` on the engine, which restarts
  itself. No modelled state changes.
* **A failing `ffmpeg.New`** in `createTask` and `load`. It is assumed to
  succeed. In `reloadProcess` it is one of `ProbeRace`'s failures.
* **The other queries** (`GetProcess*`, `GetPlayout`, `GetMetadata`,
  `Skills`). They read under the read lock and change nothing.
  `UpdateProcess` and `DeleteProcess` racing a probe replace the task
  object rather than write to it, so Probe's stale pointer still sees a
  complete config. Only the in-place rebuild of `ReloadProcess` is
  modelled against it.
