CONSTANTS
  BUF = 4
  Requests <- MCRudeRequests
  MaxRequests = 2
  MaxConnections = 2
  CutLines = TRUE
  TalkOverStream = TRUE
SPECIFICATION Spec
INVARIANTS
  TypeOK
  NoOverflow
  Gathering
  ExactPayload
CHECK_DEADLOCK FALSE
