SPECIFICATION Spec
CONSTANTS
  Cwd <- MCCwd
  BaseLists <- MCBaseLists
  Outputs <- MCOutputs
INVARIANT FilesInsideBase
CHECK_DEADLOCK FALSE
