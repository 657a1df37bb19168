SPECIFICATION McSpec
CONSTANTS
  s1 = s1
  s2 = s2
  Sensors <- TwoSensors
  Size = 3
  MaxSamples = 7
  c1 = c1
  c2 = c2
  Channels <- TwoChannels
  MinDelay = 2
  MaxDelay = 5
  Periods = {1, 9}
  RateNs <- RatesScaled
  MaxRate = 1
  Uptime = 0
  MinWait = 2
  Late = 1
  Horizon = 9
SYMMETRY ChannelSymmetry
INVARIANTS WholeUnlessOverwritten OverwrittenByALap ParsedInOrder QuietParse PolledOnTime DirectOnTime
PROPERTIES NotReduced
CHECK_DEADLOCK FALSE
