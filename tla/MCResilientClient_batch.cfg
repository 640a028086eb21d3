SPECIFICATION ClientSpec
CONSTANTS
  Workers = {w1}
  Closers = {k1}
  e1 = e1
  e2 = e2
  e3 = e3
  b1 = b1
  Entries = {e1, e3}
  Batches = {b1}
  BatchOf <- SmallBatch
  Category <- TwoCategories
  OverQuota = {"events"}
  QueueSize = 1
  BatchSize = 2
  MaxRetries = 0
  HealthCheckRetries = 0
  ResilientModes = {FALSE}
  AttemptCap = 0
  None = None
ACTION_CONSTRAINTS
  OneCountedError
SYMMETRY Symmetry
CHECK_DEADLOCK FALSE
INVARIANTS
  ClientTypeOK
  StatsAreExact
PROPERTIES
  LedgerContract
