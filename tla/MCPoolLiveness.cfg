CONSTANTS
  c1 = c1
  c2 = c2
  c3 = c3
  o1 = o1
  o2 = o2
  z1 = z1
  m1 = m1
  m2 = m2
  r1 = r1
  Conns = {c1, c2}
  Ops = {o1, m1, m2}
  MonitoringOps = {m1, m2}
  NoResponseOps = {}
  CompressedOps = {}
  Size = 1
  MinSize = 0
  ReconnectTries = 1
  Reconnect = TRUE
  InTopology = FALSE
  MaxTimers = 1
SPECIFICATION FairSpec
PROPERTIES
  InFlightAnswered
  DestroyFinishes
  RecoversOrGivesUp
CHECK_DEADLOCK FALSE
