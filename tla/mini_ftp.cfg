CONSTANTS
  Replies <- MCReplies
  Finals <- MCFinals
  Long = {"greeting"}
  Cells = 2
  Drops = FALSE
  Refusals = FALSE
  IPv6 = FALSE
  MaxCommands = 6
  MaxWaiting = 1
SPECIFICATION MiniSpec
INVARIANT OwnFile
PROPERTY GetsReturn
CHECK_DEADLOCK FALSE
