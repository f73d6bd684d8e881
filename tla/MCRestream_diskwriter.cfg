\* Violation run: an engine writing to a full disk that the observer never
\* stops, under the same fairness as the liveness run.
CONSTANTS
  Ids = {"a", "b"}
  Clients = {c1}
  Ports = {p1, p2}
  Configs <- MCConfigs
  MaxProcesses = 1
  MaxStarts = 1
  MaxRestarts = 1
  NoTask = NoTask
  NoRef = NoRef
SPECIFICATION FairSpec
PROPERTY DiskFullStopsWriters
