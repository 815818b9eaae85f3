SPECIFICATION LiveSpec
CONSTANTS
  MaxConcurrency = 3
  MaxIters = 4
  MaxWarmup = 3
  MaxReplies = 6
  CountBits = 4
INVARIANTS WindowSound ExactRun RateOverItsTime
PROPERTIES Ends
CHECK_DEADLOCK FALSE
