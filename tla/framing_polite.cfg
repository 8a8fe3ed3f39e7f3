CONSTANTS
  BUF = 3
  Requests <- MCPoliteRequests
  MaxRequests = 2
  MaxConnections = 2
  CutLines = FALSE
  TalkOverStream = FALSE
SPECIFICATION Spec
INVARIANTS
  NoFault
PROPERTIES
  Promise
  Responsive
  EveryRequestServed
CHECK_DEADLOCK FALSE
