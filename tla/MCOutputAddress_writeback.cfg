SPECIFICATION Spec
CONSTANTS
  Cwd <- MCCwd
  BaseLists <- MCBaseLists
  Outputs <- MCOutputs
INVARIANT NormalisedFormStored
CHECK_DEADLOCK FALSE
