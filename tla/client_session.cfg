CONSTANTS
  Bytes <- MCBytes
  Outputs <- MCOutputs
  Files <- MCFiles
  MaxCalls = 3
  MaxDrops = 1
SPECIFICATION Spec
INVARIANTS
  OwnOutput
  GivesEnd
PROPERTY CommandsEnd
CHECK_DEADLOCK FALSE
