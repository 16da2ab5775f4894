SPECIFICATION FairSpec
CONSTANTS
  NULL = NULL
  Units = {"u", "v"}
  Texts = {"a"}
  Comments = {"", "n"}
  Users = {evil, other}
  Evil = evil
  System = system
  system = system
  evil = evil
  other = other
  Fuzzy = {TRUE}
  Imported <- MCImported
  MaxSaves = 3
  MaxSuggestions = 1
CHECK_DEADLOCK FALSE
INVARIANTS
  TypeOK
  TargetsReverted
  CommentsReverted
PROPERTIES
  OthersKept
  PurgeEnds
