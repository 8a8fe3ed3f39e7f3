CONSTANTS
  Replies <- MCReplies
  Finals <- MCFinals
  Long = {"PASS"}
  Cells = 2
  Drops = TRUE
  Refusals = TRUE
  IPv6 = TRUE
  Commands = {"ConnectToHost", "Login", "Get", "GetTo", "List", "PutFrom", "Active", "Close", "RawCommand"}
  Slots = {"finished"}
  MaxCommands = 3
  MaxAborts = 1
SPECIFICATION UserSpec
INVARIANTS
  FtpTypeOK
  RightReply
  StartsIdle
  PassiveReleased
  GetsWhole
  PutsWhole
  StateTrue
PROPERTY Promise
CHECK_DEADLOCK FALSE
