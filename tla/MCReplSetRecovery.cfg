CONSTANTS
  a = a
  b = b
  x = x
  Host = {a, b}
  Copies = 2
  SetNames = {"rs"}
  NoName = "none"
  NoHost = NoHost
  NoServer = NoServer
  Seeds = {a}
  Me <- MCMe
  SetName = "rs"
  NameOptions = {"rs"}
  Roles = {}
  Troubles = {"down"}
  SecondaryOnly = FALSE
  ReadSecondary = FALSE
  MaxTerm = 2
  MaxFaults = 1
  Tag = {"east", "west", "ssd"}
  Tags <- MCTags
  Latency <- MCLatency
  Staleness <- MCStaleness
  Old = {}
  AcceptableLatency = 15
  Preferences <- MCNone
SPECIFICATION FairSpec
PROPERTIES
  FindsPrimary
CHECK_DEADLOCK FALSE
