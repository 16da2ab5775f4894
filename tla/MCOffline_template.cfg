SPECIFICATION Spec
CONSTANTS
  NULL = NULL
  Units = {"u", "v"}
  Stored = {"u"}
  Texts = {"a"}
  Comments = {""}
  Fuzzy = {FALSE}
  Allow = TRUE
  Wins = {"pootle", "source"}
  Workers = {w}
  Copies = {c, d}
  MaxRevision = 7
SYMMETRY Symmetry
CONSTRAINT FewChanges
CHECK_DEADLOCK FALSE
PROPERTIES
  OnlyOfflineChangesUploaded
  StructureArrives
