CONSTANTS
  Messages = 4
  Sizes = {5, 9}
  MaxSize = 10
  Kinds = {"plain", "compressed", "corrupt", "undersized", "oversized"}
  SplitHeaders = FALSE
  Mechanisms = {"none", "plain", "mongocr", "scram", "gssapi"}
  FamilyGiven = FALSE
SPECIFICATION FairSpec
INVARIANTS
  
  AttemptSound
PROPERTIES
  AttemptEnds
CHECK_DEADLOCK FALSE
