SPECIFICATION FairSpec
CONSTANTS
  d1 = d1
  basement = basement
  Absent = Absent
  Device <- OneDevice
  Name <- OneName
  NameOf <- Named1
  FailureThreshold = 2
  SuccessThreshold = 1
  MaxLag = 2
  Loops = {"health"}
  UserMay = {"create"}
  MaxEdits = 1
  MaxUpsets = 1
INVARIANTS NeverReachableAndDegraded PhaseAgrees
PROPERTIES GatewayUpIsShown ReachabilityIsShown
CHECK_DEADLOCK FALSE
