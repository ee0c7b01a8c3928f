CONSTANTS
  c1 = c1
  c2 = c2
  l1 = l1
  l2 = l2
  l3 = l3
  None = None
  Clients = {c1, c2}
  ServerSessions = {l1, l2, l3}
  Timeouts = {0, 30}
  Passes = {58, 59, 62}
  MaxAge = 120
SPECIFICATION Spec
INVARIANTS
  PoolOK
PROPERTIES
  AcquiredWithinTheHour
  LeaseSpec
CHECK_DEADLOCK FALSE
