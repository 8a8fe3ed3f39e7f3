CONSTANTS
  Conns = {c1, c2}
  Nobody = nobody
  MaxClient = 2
  MaxFD = 7
  Requests = {"command", "stream", "put"}
  MaxRequests = 2
  MaxEvents = 1
  Backlog = 2
  CutUploads = FALSE
  BadFiles = FALSE
  Resets = TRUE
SPECIFICATION FairSpec
INVARIANT NeverExits
PROPERTY Served
CHECK_DEADLOCK FALSE
