SPECIFICATION MeterSpec
CONSTANTS
  Threads = {t1}
  Qps = TRUE
  Amounts = {0, 2}
  Interval = 2
  SampleArgs = {0, 1, 2}
  IntBits = 3
  MaxCalls = 10
  MaxTime = 6
INVARIANTS Sampling Conserved ReportsTile
CHECK_DEADLOCK FALSE
