SPECIFICATION FairSpec
CONSTANTS
  Clients = {k1}
  MaxSequence = 4
  MaxSessions = 2
  MaxBreaks = 2
  WireCapacity = 2
INVARIANTS
  TypeOK
  AcceptedNeverLost
  QuietMeansCurrent
  AcceptedIsScheduled
PROPERTIES
  ImplementsRegister
  ConsumersCatchUp
CHECK_DEADLOCK FALSE
