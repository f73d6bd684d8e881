\* The supervisor with two process IDs, two concurrent AddProcess callers,
\* two playout ports, a cap of one running process, two Start() epochs and
\* one program restart; the observer is weakly fair (FairSpec).
CONSTANTS
  Ids = {"a", "b"}
  Clients = {c1, c2}
  Ports = {p1, p2}
  Configs <- MCConfigs
  MaxProcesses = 1
  MaxStarts = 2
  MaxRestarts = 1
  NoTask = NoTask
  NoRef = NoRef
SPECIFICATION FairSpec
INVARIANT TypeOK
INVARIANT NoOrphanEngine
INVARIANT PortsExclusive
INVARIANT ValidTasksHavePorts
INVARIANT RunningHavePorts
INVARIANT StoreLagsOnlyByObserver
INVARIANT RInv
PROPERTY Refinement
PROPERTY DiskFullStopsValidWriters
PROPERTY EnginesStartValid
