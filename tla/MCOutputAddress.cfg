\* Output validation with the working directory /d, every list of disk
\* bases of MCBaseLists and every output list of MCOutputs.
SPECIFICATION Spec
CONSTANTS
  Cwd <- MCCwd
  BaseLists <- MCBaseLists
  Outputs <- MCOutputs
INVARIANTS
  TypeOK
\* validateConfig returns: the loop ends in "ok" or "error".
CHECK_DEADLOCK FALSE
