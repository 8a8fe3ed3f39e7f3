CONSTANTS
  Zelda = zelda
  Metroid = metroid
  NoGame = none
  Games = {zelda}
  Saves <- MCSmall
  Rows <- MCRows
  READ = 16
  SplitPrompts = FALSE
  MaxInterrupts = 1
  MaxRuns = 1
  Drops = FALSE
SPECIFICATION Spec
CHECK_DEADLOCK FALSE
INVARIANT FeedbackRemoved
