CONSTANTS
  a = a
  b = b
  rs = rs
  w = w
  p = p
  Addresses = {a, b}
  SetNames = {rs}
  NoName = NoName
  MaxVersion = 0
  Replies <- MCReplies
  OidsRead = FALSE
  Selections = {w, p}
  Preference <- MCPreference
  east = east
  Tag = {east}
  Tags <- MCTags
  Age <- MCAge
  Heartbeat = 10
SPECIFICATION FairSpec
INVARIANTS
  TypeOK
  ServersSound
  SelectionsSound
PROPERTIES
  SelectionEnds
CHECK_DEADLOCK FALSE
