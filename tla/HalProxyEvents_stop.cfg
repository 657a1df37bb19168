SPECIFICATION FairSpec
CONSTANTS
  s1 = s1
  Sensors <- OneSensor
  Binder = b
  WakeupSources <- OneWakeupSource
  QueueSize = 1
  MaxPending = 3
  MaxBatch = 2
  MaxSeq = 2
PROPERTIES ThreadsStop
