CONSTANTS
  Zelda = zelda
  Metroid = metroid
  NoGame = none
  Games = {zelda, metroid}
  Saves <- MCSaves
  Rows <- MCRows
  READ = 16
  SplitPrompts = FALSE
  MaxInterrupts = 0
  MaxRuns = 1
  Drops = TRUE
SPECIFICATION Spec
INVARIANTS
  WindowTypeOK
  OwnAnswer
  InStep
  SavesOfGame
  InRange
PROPERTY LoadsListed
CHECK_DEADLOCK FALSE
