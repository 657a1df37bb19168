SPECIFICATION Spec
CONSTANTS
  c1 = c1
  c2 = c2
  Channels = {c1}
  MinDelay = 10
  MaxDelay = 1000
  Periods = {20}
  RateNs <- RatesInUnits
  MaxRate = 1
  Uptime = 536870912
  MinWait = 1
  Late = 0
  Horizon = 30
PROPERTIES NotReduced
CHECK_DEADLOCK FALSE
