CONSTANTS
  a = a
  b = b
  x = x
  Host = {a, b}
  Copies = 2
  SetNames = {"rs", "other"}
  NoName = "none"
  NoHost = NoHost
  NoServer = NoServer
  Seeds = {a}
  Me <- MCMe
  SetName = "rs"
  NameOptions = {"rs", "other"}
  Roles = {"arbiter", "passive"}
  Troubles = {"down", "other", "ghost"}
  SecondaryOnly = FALSE
  ReadSecondary = FALSE
  MaxTerm = 2
  MaxFaults = 1
  Tag = {"east", "west", "ssd"}
  Tags <- MCTags
  Latency <- MCLatency
  Staleness <- MCStaleness
  Old = {}
  AcceptableLatency = 15
  Preferences <- MCPreferences
SPECIFICATION Spec
INVARIANTS
  TypeOK
  ListsAgree
  KeepsTrying
  PicksWanted
PROPERTIES
  ElectionsOrdered
CHECK_DEADLOCK FALSE
