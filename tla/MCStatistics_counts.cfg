SPECIFICATION Spec
CONSTANTS
  NULL = NULL
  Units = {"u","v"}
  Stores = {"s","r"}
  TPs = {"t"}
  StoreOf <- Tree
  TPOf <- OneTP
  ROOT = "root"
  Texts = {"", "a"}
  Checks = {"c"}
  Critical = {}
  Styles = {"old", "new"}
  Fails <- FailsLater
  Workers = {w, z}
  Viewers = {}
  Ops = {"submit", "accept", "suggest", "toggle", "update", "hide", "update_data", "calculate_checks", "upgrade", "kill"}
  Autocommit = {"update_data", "calculate_checks"}
  MaxRevision = 3
  MaxToken = 3
SYMMETRY Symmetry
CHECK_DEADLOCK FALSE
INVARIANTS
  TypeOK
PROPERTIES
  LoneRequestHeals
