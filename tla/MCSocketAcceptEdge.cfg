CONSTANTS
  Conns = {k1, k2}
  None = None
  MaxFd = 2
  Backlog = 2
SPECIFICATION Spec
INVARIANT ListenerLevelTriggered
CHECK_DEADLOCK FALSE
