SPECIFICATION FairSpec
CONSTANTS
  d1 = d1
  basement = basement
  Absent = Absent
  Device <- OneDevice
  Name <- OneName
  NameOf <- Named1
  FailureThreshold = 2
  SuccessThreshold = 1
  MaxLag = 2
  Loops = {"session"}
  UserMay = {"create", "delete"}
  MaxEdits = 2
  MaxUpsets = 1
PROPERTIES DeletionCompletes FailureIsRetried
CHECK_DEADLOCK FALSE
