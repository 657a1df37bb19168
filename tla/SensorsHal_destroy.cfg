SPECIFICATION FairSpec
CONSTANTS
  s1 = s1
  Sensors <- OneSensor
  MaxChannels = 1
  Requests <- OneRequest
  MinDelay = 1
  MaxDelay = 4
  NormalRate = 2
  Forever = 100
  DestructorKeepsMutex = TRUE
PROPERTIES DestructorReturns
CHECK_DEADLOCK FALSE
