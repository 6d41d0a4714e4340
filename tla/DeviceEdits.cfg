SPECIFICATION Spec
CONSTANTS
  d1 = d1
  basement = basement
  Absent = Absent
  Device <- OneDevice
  Name <- OneName
  NameOf <- Named1
  FailureThreshold = 2
  SuccessThreshold = 1
  MaxLag = 2
  Loops = {}
  UserMay = {"create", "delete", "backend", "trace"}
  MaxEdits = 3
  MaxUpsets = 1
INVARIANTS TypeOK NoOrphans WorkloadCurrent NothingLeftToDo
CHECK_DEADLOCK FALSE
