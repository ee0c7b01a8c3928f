CONSTANTS
  c1 = c1
  c2 = c2
  c3 = c3
  o1 = o1
  o2 = o2
  z1 = z1
  m1 = m1
  m2 = m2
  r1 = r1
  Conns = {c1, c2, c3}
  Ops = {o1, o2, r1, m1}
  MonitoringOps = {m1}
  NoResponseOps = {r1}
  CompressedOps = {r1}
  Size = 2
  MinSize = 1
  ReconnectTries = 1
  Reconnect = TRUE
  InTopology = FALSE
  MaxTimers = 1
SPECIFICATION Spec
SYMMETRY ConnSymmetry
INVARIANTS
  TypeOK
  AnsweredOnce
  RequestsKept
  ConnectionsSound
PROPERTIES
  NeverUndone
CHECK_DEADLOCK FALSE
