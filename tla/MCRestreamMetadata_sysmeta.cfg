\* Metadata on the instance of MCRestreamMetadata.cfg, checking StoreHoldsSystemMetadata alone.
CONSTANTS
  Ids = {"a", "b"}
  Keys = {k1, k2}
  Values = {v1}
  Unset = Unset
  MaxRestarts = 1
SPECIFICATION Spec
INVARIANT StoreHoldsSystemMetadata
