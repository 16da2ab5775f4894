SPECIFICATION Spec
CONSTANTS
  NULL = NULL
  Paths = {p}
  Units = {u}
  Vals = {a, b}
  Procs = {c, d}
  Commands <- Shared
  Hazards = {"failure", "edit_in_sync"}
  MaxRevision = 4
  MaxClock = 2
  MaxPk = 1
SYMMETRY Symmetry
INVARIANTS
  Inv
  EditNeverHidden
