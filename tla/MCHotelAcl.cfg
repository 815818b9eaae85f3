SPECIFICATION LiveSpec
CONSTANTS
  Slots = {s1, s2}
  MaxPieces = 2
  Period = 2
  MaxDone = 3
INVARIANTS Accounted AclHolds
CHECK_DEADLOCK FALSE
PROPERTY Ends
