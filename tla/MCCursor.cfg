CONSTANTS
  c1 = c1
  c2 = c2
  NoCall = NoCall
  Calls = {c1}
  Results = {0, 3}
  Limits = {0, 1}
  BatchSizes = {2}
  MaxFinds = 2
  LostAnswers = FALSE
SPECIFICATION FairSpec
INVARIANTS
  TypeOK
  CommandsSound
PROPERTIES
  
  ReaderSpec
  NextAnswered
CHECK_DEADLOCK FALSE
