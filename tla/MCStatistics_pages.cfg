SPECIFICATION Spec
CONSTANTS
  NULL = NULL
  Units = {"u"}
  Stores = {"s"}
  TPs = {"t"}
  StoreOf <- OneStore
  TPOf <- OneTP
  ROOT = "root"
  Texts = {"", "a"}
  Checks = {"c"}
  Critical = {}
  Styles = {"old", "new"}
  Fails <- FailsLater
  Workers = {w}
  Viewers = {v}
  Ops = {"submit","hide","update","suggest","reject","accept","toggle","calculate_checks", "upgrade"}
  Autocommit = {}
  MaxRevision = 3
  MaxToken = 3
CHECK_DEADLOCK FALSE
INVARIANTS
  TotalsExact
  ChecksOfTarget
  PagesFresh
PROPERTIES
  PagesAreLive
