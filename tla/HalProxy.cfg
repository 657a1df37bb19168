SPECIFICATION BothSpec
CONSTANTS
  s1 = s1
  s2 = s2
  Sensors <- TwoSensors
  Binder = b
  WakeupSources <- OneWakeupSource
  QueueSize = 1
  MaxPending = 3
  MaxBatch = 2
  MaxSeq = 2
  WriteTicks = 2
INVARIANTS DeliveredInOrder ClearedSafely PendingSizeExact LockTypeOK HeldIffCounted CountExact
PROPERTIES StreamSpec
