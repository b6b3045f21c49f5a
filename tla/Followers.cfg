SPECIFICATION FairSpec
CONSTANTS
  NoFile = NoFile
  Rows <- MCRows
  PairedEvaluations <- MCEvaluations
  Markets = {"a", "b"}
  MinSecondsToClose = 20
  MaxRunGap = 1
  OpportunityThreshold = 100
  NearMissThreshold = 101
  Heartbeat = 3
  Window = 2
  MaxLines = 3
  MaxFaults = 2
INVARIANTS
  TypeOK
  NothingBehindOffset
  
  RunsHoldOpportunities
PROPERTIES
  CompletedIsFinal
  
