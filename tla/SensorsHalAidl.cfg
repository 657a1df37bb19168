SPECIFICATION FairSpec
CONSTANTS
  s1 = s1
  NoNumber = NoNumber
  Sensors <- McSensors
  Binder = Binder
  Nobody = Nobody
  QueueSize = 2
  InfoFrames = 1
  Timeout = 0
  MaxPosts = 3
  MaxResets = 2
INVARIANTS TypeOK Covered ReplacedUnused SamplesKeepTheirValues
PROPERTIES WakeLockReleased CallsReturn
CHECK_DEADLOCK FALSE
