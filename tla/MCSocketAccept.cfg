CONSTANTS
  Conns = {k1, k2, k3, k4}
  None = None
  MaxFd = 2
  Backlog = 2
SPECIFICATION LiveSpec
INVARIANTS
  Ownership
  LeakBounded
  AcceptFailsOnlyWhenFull
PROPERTY HeadAccepted
CHECK_DEADLOCK FALSE
