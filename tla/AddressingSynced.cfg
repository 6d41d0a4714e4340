SPECIFICATION SyncedSpec
CONSTANTS
  NoOwner = NoOwner
  None = None
  Absent = Absent
  d1 = d1
  d2 = d2
  v1 = v1
  p1 = p1
  Detector <- MCDetector
  Device <- MCDevice
  DeviceOf <- MCDeviceOf
  PoolName <- MCPoolName
  InitialPools <- MCPools
  InitialDevices <- MCDevices
  InitialModules <- MCModules
  SilentBus = {}
  MaxReports = 1
  PoolEdits = {}
  DeviceEdits = {}
  UserMay = {"create", "delete"}
  MaxEdits = 1
  MaxFaults = 0
  MaxLag = 3
SYMMETRY Symmetry
INVARIANTS UniqueAddress
PROPERTIES ImplementsAllocation
CHECK_DEADLOCK FALSE
