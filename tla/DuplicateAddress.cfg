SPECIFICATION Spec
CONSTANTS
  NoOwner = NoOwner
  None = None
  Absent = Absent
  d1 = d1
  d2 = d2
  v1 = v1
  p1 = p1
  Detector <- MCDetector
  Device <- MCDevice
  DeviceOf <- MCDeviceOf
  PoolName <- MCPoolName
  InitialPools <- MCPools
  InitialDevices <- MCDevices
  InitialModules <- MCModules
  SilentBus = {v1}
  MaxReports = 1
  PoolEdits = {}
  DeviceEdits = {}
  UserMay = {}
  MaxEdits = 0
  MaxFaults = 0
  MaxLag = 2
INVARIANTS UniqueAddress
CHECK_DEADLOCK FALSE
