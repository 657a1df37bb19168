SPECIFICATION FairSpec
CONSTANTS
  Drivers <- AllDrivers
  Handles <- TwoHandles
  NoNumber = NoNumber
  kNumEvents = 2
  kFlushes = 2
  MaxTests = 3
  MaxQueued = 1
INVARIANTS AssertionsHold StartsClean
PROPERTIES TestsEnd
CHECK_DEADLOCK FALSE
