SPECIFICATION Spec
CONSTANTS
  acc = acc
  gyro = gyro
  accUncal = accUncal
  gyroUncal = gyroUncal
  gravity = gravity
  accCore = accCore
  gyroCore = gyroCore
  accUncalCore = accUncalCore
  gyroUncalCore = gyroUncalCore
  Index <- HalfOf
  MinSamplingRate = 1
  MaxSamplingRate = 512
  OneSecond = 400
  Types <- Smi330Types
  Cores <- Smi330Cores
  mDependencyList <- Smi330Dependencies
  Requests <- Smi330Requests
INVARIANTS PowerFollowsUse ServedStayFast FusionIsConsistent
PROPERTIES NotSpedUpByUnused
