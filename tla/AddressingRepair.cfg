SPECIFICATION FairSpec
CONSTANTS
  NoOwner = NoOwner
  None = None
  Absent = Absent
  d1 = d1
  v1 = v1
  p1 = p1
  Detector <- MCDetector
  Device <- MCDevice
  DeviceOf <- MCDeviceOf
  PoolName <- MCPoolName
  InitialPools <- MCPools
  InitialDevices <- MCDevices
  InitialModules <- MCModules
  SilentBus = {v1}
  MaxReports = 1
  PoolEdits <- RepairedPool
  DeviceEdits <- CreatedDevice
  UserMay = {}
  MaxEdits = 2
  MaxFaults = 1
  MaxLag = 2
INVARIANT AppliedIsConfigured
PROPERTIES EventuallyConfigured AppliedRecurs
CHECK_DEADLOCK FALSE
