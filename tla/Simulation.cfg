SPECIFICATION FairSpec
CONSTANTS
  Absent = Absent
  Lan = Lan
  Power = Power
  v1 = v1
  v2 = v2
  s1 = s1
  c1 = c1
  c2 = c2
  k1 = k1
  k2 = k2
  r1 = r1
  r2 = r2
  NetID <- MCNetID
  Client <- MCClient
  Caller <- MCCaller
  SimName <- MCSimName
  Device <- MCDevice
  Simulated = v1
  Request <- MCRequest
  Manifests <- MCManifests
  Scenarios <- MCScenarios
  MaxLag = 2
INVARIANTS TypeOK EveryChangeAnnounced LastWordIsCurrent NoDetectorMissed AppliedCountIsTrue AnsweredIsKept
PROPERTIES RequestTakesEffect EventuallyApplied
CHECK_DEADLOCK FALSE
