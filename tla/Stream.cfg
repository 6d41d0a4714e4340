SPECIFICATION FairSpec
CONSTANTS
  d1 = d1
  d2 = d2
  c1 = c1
  c2 = c2
  Absent = Absent
  Device <- TwoDevices
  Client <- TwoClients
  Watched <- WatchEach
  Keen <- KeenOne
  Slots = 2
  MaxLag = 2
  MaxChanges = 4
  MaxLosses = 1
INVARIANT TypeOK
INVARIANT HubSound
INVARIANT LatestEventMends
CHECK_DEADLOCK FALSE
PROPERTY KeenClientsFollow
