CONSTANTS
  s1 = s1
  s2 = s2
  l1 = l1
  x1 = x1
  x2 = x2
  None = None
  Sessions = {s1, s2}
  ServerSessions = {l1}
  Servers = {x1, x2}
  Sharded = TRUE
  RetryWrites = TRUE
  MaxNumber = 2
SPECIFICATION FairSpec
INVARIANTS
  TypeOK
  ServerAgrees
  CommandsSound
PROPERTIES
  LeaseSpec
  CallsEnd
CHECK_DEADLOCK FALSE
