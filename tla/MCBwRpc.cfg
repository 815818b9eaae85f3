SPECIFICATION LiveSpec
CONSTANTS
  Threads = {h1, h2}
  Qps = FALSE
  Amounts = {1}
  Interval = 1
  SampleArgs = {1}
  IntBits = 2
  MaxCalls = 3
  MaxTime = 2
  Clients = {c1}
  Libraries = {"grpc", "brpc"}
  Size = 1
  Duration = 1
  MaxRetry = 1
  MaxPushes = 1
  None = None
INVARIANTS CallsSound MetersAgree
CHECK_DEADLOCK FALSE
PROPERTY RunsEnd
