CONSTANTS
  Bytes <- MCBytes
  Outputs <- MCOutputs
  Files <- MCFiles
  MaxCalls = 2
  MaxDrops = 0
SPECIFICATION Spec
INVARIANT FileWhole
CHECK_DEADLOCK FALSE
