SPECIFICATION Spec
CONSTANTS
  NoOwner = NoOwner
  None = None
  Absent = Absent
  d1 = d1
  d2 = d2
  v1 = v1
  p1 = p1
  Detector <- MCDetector
  Device <- MCDevice
  DeviceOf <- MCDeviceOf
  PoolName <- MCPoolName
  InitialPools <- MCPools
  InitialDevices <- MCDevices
  InitialModules <- MCModules
  SilentBus = {}
  MaxReports = 2
  PoolEdits = {}
  DeviceEdits = {}
  UserMay = {"create"}
  MaxEdits = 1
  MaxFaults = 1
  MaxLag = 3
SYMMETRY Symmetry
INVARIANTS TypeOK PoolStatusSettles NobodyForgotten AssignedIsDesired
PROPERTIES AssignmentStable ReservedOnlyAdopted
CHECK_DEADLOCK FALSE
