SPECIFICATION ProcSpec
CONSTANTS
  Apps = {"bandwidth", "latency", "other"}
  Rpcs = {"grpc", "thrift"}
  Numbers = {"port", "monitor_time_sec"}
  MaxWords = 3
  None = None
  Cores = 1
  Warmup = 1
  MonitorTime = 1
  Bits = 4
  MaxTime = 3
INVARIANTS Tiled UtilBounded IntervalNotEmpty OutcomeAsGiven
CHECK_DEADLOCK FALSE
