SPECIFICATION Spec
CONSTANTS
  NULL = NULL
  Units = {"u"}
  Stored = {"u"}
  Texts = {"a", "b"}
  Comments = {"", "n"}
  Fuzzy = {FALSE}
  Allow = FALSE
  Wins = {"pootle", "source"}
  Workers = {w}
  Copies = {c, d}
  MaxRevision = 6
SYMMETRY Symmetry
CHECK_DEADLOCK FALSE
INVARIANTS
  TypeOK
  VersionIsWhatWasDownloaded
  StoreDataCountsChanges
PROPERTIES
  OnlyOfflineChangesUploaded
  OfflineChangesArrive
  LoserSuggested
