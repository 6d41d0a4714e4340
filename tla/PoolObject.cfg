SPECIFICATION Spec
CONSTANTS
  NoOwner = NoOwner
  o1 = o1
  o2 = o2
  o3 = o3
  Owners <- MCOwners
  Addresses <- MCAddresses
  Configs <- MCConfigs
  MaxAssignments = 2
INVARIANTS
  TypeOK
  StatsAddUp
  Rebuildable
PROPERTIES
  ImplementsBook
