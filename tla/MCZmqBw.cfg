SPECIFICATION LiveSpec
CONSTANTS
  Clients = {c1, c2}
  EmptyHeader = 0
  DataSize = 2
  MaxPushes = 2
  None = None
INVARIANTS Counted RequestWithinItsCall StuckOnlyAfterInterrupt
PROPERTIES RunsEnd
CHECK_DEADLOCK FALSE
