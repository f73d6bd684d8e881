\* Metadata with two process IDs, two keys, one value and one restart.
CONSTANTS
  Ids = {"a", "b"}
  Keys = {k1, k2}
  Values = {v1}
  Unset = Unset
  MaxRestarts = 1
SPECIFICATION Spec
INVARIANT TypeOK
INVARIANT StoreHoldsProcesses
PROPERTY RestartKeepsStore
