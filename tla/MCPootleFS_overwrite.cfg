SPECIFICATION FairSpec
CONSTANTS
  NULL = NULL
  Paths = {p}
  Units = {u}
  Vals = {a, b}
  Procs = {c}
  Commands <- Overwrites
  Hazards = {"remove_file", "empty_file"}
  MaxRevision = 6
  MaxClock = 4
  MaxPk = 2
INVARIANTS
  StatesCoverRows
PROPERTIES
  SyncSettles
  PullKeepsEdits
  StagedIsSynced
