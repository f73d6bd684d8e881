\* Violation run: playout ports lost on failed calls.
CONSTANTS
  Ids = {"a", "b"}
  Clients = {c1, c2}
  Ports = {p1, p2}
  Configs <- MCConfigs
  MaxProcesses = 1
  MaxStarts = 2
  MaxRestarts = 1
  NoTask = NoTask
  NoRef = NoRef
SPECIFICATION Spec
INVARIANT PortsNotLeaked
