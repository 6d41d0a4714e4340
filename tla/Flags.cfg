SPECIFICATION Spec
CONSTANTS
  r1 = r1
  r2 = r2
  Request <- TwoRequests
  Flags <- Values
  Default = 1
  ProtocolDefault = 4
  Unset = Unset
  MaxRequests = 3
  MaxRestarts = 1
  MaxOutages = 2
  MaxFailures = 1
INVARIANTS TypeOK SessionFollowsSpec NextSendMends
CHECK_DEADLOCK FALSE
