CONSTANTS
  Conns = {c1, c2, c3}
  Nobody = nobody
  MaxClient = 2
  MaxFD = 6
  Requests = {"command", "get", "stream", "put", "empty"}
  MaxRequests = 2
  MaxEvents = 1
  Backlog = 2
  CutUploads = TRUE
  BadFiles = TRUE
  Resets = TRUE
SPECIFICATION Spec
INVARIANTS
  ServerTypeOK
  ActiveSetExact
  DescriptorsOwned
  Isolation
  LeaksKnown
SYMMETRY Connections
CHECK_DEADLOCK FALSE
