SPECIFICATION ClientSpec
CONSTANTS
  Workers = {w1}
  Closers = {k1}
  e1 = e1
  e2 = e2
  e3 = e3
  b1 = b1
  Entries = {e1}
  Batches = {b1}
  BatchOf <- SmallBatch
  Category <- TwoCategories
  OverQuota = {"audit"}
  QueueSize = 2
  BatchSize = 2
  MaxRetries = 0
  HealthCheckRetries = 0
  ResilientModes = {FALSE}
  AttemptCap = 0
  None = None
ACTION_CONSTRAINTS
  SendsReturnFirst
  TenSecondsAreLong
CHECK_DEADLOCK FALSE
INVARIANTS
  LossTracked
