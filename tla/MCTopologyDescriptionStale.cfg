CONSTANTS
  a = a
  b = b
  c = c
  rs = rs
  other = other
  Addresses = {a, b, c}
  SetNames = {rs, other}
  NoName = NoName
  MaxVersion = 2
  Replies <- MCReplies
  OidsRead = FALSE
SPECIFICATION DescriptionSpec
INVARIANTS
  NewestPrimary
CHECK_DEADLOCK FALSE
