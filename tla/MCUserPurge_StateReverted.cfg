SPECIFICATION Spec
CONSTANTS
  NULL = NULL
  Units = {"u"}
  Texts = {"a"}
  Comments = {""}
  Users = {evil, other}
  Evil = evil
  System = system
  system = system
  evil = evil
  other = other
  Fuzzy = {FALSE}
  Imported <- MCUntranslated
  MaxSaves = 1
  MaxSuggestions = 1
CHECK_DEADLOCK FALSE
INVARIANTS
  StateReverted
