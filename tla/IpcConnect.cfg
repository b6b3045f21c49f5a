SPECIFICATION Spec
CONSTANTS
  Clients = {k1}
  MaxSequence = 3
  MaxSessions = 1
  MaxBreaks = 1
  WireCapacity = 1
PROPERTY ConnectReceivesLatest
CHECK_DEADLOCK FALSE
