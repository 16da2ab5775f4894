SPECIFICATION Spec
CONSTANTS
  thread = thread
  other = other
  Threads = {thread, other}
  Outer <- MCOuter
  MaxNested <- MCMaxNested
CONSTRAINT NotCrossed
CHECK_DEADLOCK FALSE
INVARIANTS
  TypeOK
  NothingHeldBack
  DoneOnce
  SignalsRestored
