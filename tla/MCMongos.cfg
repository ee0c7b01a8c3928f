CONSTANTS
  a = a
  b = b
  Host = {a, b}
  Copies = 2
  SeedLists <- MCSeedLists
  Foreign = {b}
  MaxLoops = 2
  MaxFaults = 1
SPECIFICATION FairSpec
INVARIANTS
  TypeOK
  
PROPERTIES
  FindsProxies
CHECK_DEADLOCK FALSE
