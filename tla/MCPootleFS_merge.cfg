SPECIFICATION Spec
CONSTANTS
  NULL = NULL
  Paths = {p}
  Units = {u, w}
  Vals = {a, b}
  Procs = {c}
  Commands <- Merges
  Hazards = {}
  MaxRevision = 5
  MaxClock = 3
  MaxPk = 2
INVARIANTS
  SyncedStoresAgree
PROPERTIES
  MergeLosesNothing
