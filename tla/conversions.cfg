CONSTANTS
  Addresses <- MCAddresses
  Plain = {"A"}
  MaxEvents = 3
  MaxSessions = 2
  MaxCuts = 2
  Bytes = {0, 1, 128}
  Size = 3
  Data <- MCData
SPECIFICATION Spec
INVARIANTS
  RoundTrip
  MirrorsJoystick
  NoInventedInput
  SearchRight
CHECK_DEADLOCK FALSE
