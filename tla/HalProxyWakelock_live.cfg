SPECIFICATION FairLockSpec
CONSTANTS
  s1 = s1
  Sensors <- OneSensor
  Binder = b
  WakeupSources <- OneWakeupSource
  QueueSize = 1
  MaxPending = 3
  MaxBatch = 1
  MaxSeq = 1
  WriteTicks = 2
PROPERTIES PendingEventsLeave WakelockReleased
