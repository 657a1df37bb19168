SPECIFICATION FairSpec
CONSTANTS
  s1 = s1
  Sensors <- OneSensor
  MaxChannels = 3
  Requests <- FewRequests
  MinDelay = 1
  MaxDelay = 4
  NormalRate = 2
  Forever = 100
  DestructorKeepsMutex = FALSE
INVARIANTS SameView ReplacedAlone ChipServesPolling ChipFastEnough
PROPERTIES CallsReturn ReportsWhenQuiet
CHECK_DEADLOCK FALSE
