SPECIFICATION LiveSpec
CONSTANTS
  Workers = {w1}
  Kinds = {"latency", "throughput"}
  Concurrency = 2
  Period = 2
  MayFail = TRUE
  Threads = {t1, t2}
  Addresses = {a1, a2, a3}
  None = None
INVARIANTS ServerObjects LeavesClean
PROPERTIES JobsEnd
CHECK_DEADLOCK FALSE
