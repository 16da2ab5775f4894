SPECIFICATION LocalFairSpec
CONSTANTS
  NULL = NULL
  Paths = {p}
  Units = {u}
  Vals = {a, b}
  Procs = {c}
  Commands <- Overwrites
  Globs <- NoGlob
  Hazards = {"failure", "upstream_in_sync"}
  MaxRevision = 3
  MaxClock = 3
  MaxPk = 2
INVARIANTS
  LocalTypeOK
PROPERTIES
  UpstreamKept
  UpstreamArrives
