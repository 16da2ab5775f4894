SPECIFICATION Spec
CONSTANTS
  NULL = NULL
  Paths = {p}
  Units = {u}
  Vals = {a, b}
  Procs = {c}
  Commands <- AllCommands
  Hazards = {"remove_file", "empty_file", "failure", "edit_in_sync", "create", "delete", "delete_in_sync", "obsolete"}
  MaxRevision = 4
  MaxClock = 3
  MaxPk = 2
INVARIANTS
  TypeOK
  MergeHasWinner
  Revisions
  OneRowPerPath
  SyncedUnitsAgree
PROPERTIES
  EditNoticed
