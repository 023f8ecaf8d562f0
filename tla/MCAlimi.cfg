SPECIFICATION AlimiSpec
CONSTANTS
  Procs = {p1, p2}
  Calls = {manual, monthly}
  UnivCount = 2
  Ops = 1
  Lookback = 1
  Concurrency = 1
  MaxAttempts = 2
  MaxLost = 1
  Univs = {u1, u2}
  Depts = {d1}
  Names = {n1}
  MaxMetrics = 2
  MaxItems = 1
  MaxCrashes = 1
  Pending = Pending
  Rejected = Rejected
  NULL = NULL
INVARIANTS
  OneSoundBatch
  StatusIsTrue
  MetricsTellRows
PROPERTIES
  RunsEnd
CHECK_DEADLOCK FALSE
