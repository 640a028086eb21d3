SPECIFICATION ClientSpec
CONSTANTS
  Workers = {w1, w2}
  Closers = {k1}
  e1 = e1
  e2 = e2
  e3 = e3
  b1 = b1
  Entries = {e1, e3}
  Batches = {}
  BatchOf <- NoBatches
  Category <- TwoCategories
  OverQuota = {"audit"}
  QueueSize = 1
  BatchSize = 2
  MaxRetries = 1
  HealthCheckRetries = 1
  ResilientModes = {TRUE, FALSE}
  AttemptCap = 0
  None = None
ACTION_CONSTRAINTS
  ResilientFirst
  OneCountedError
  AllAdmitted
CHECK_DEADLOCK FALSE
SYMMETRY Symmetry
INVARIANTS
  OneOwner
  WorkersStandBy
  KeyOutlivesWorkers
PROPERTIES
  LedgerContract
