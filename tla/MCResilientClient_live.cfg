SPECIFICATION ClientFairSpec
CONSTANTS
  Workers = {w1}
  Closers = {k1}
  e1 = e1
  e2 = e2
  e3 = e3
  b1 = b1
  Entries = {e1, e2}
  Batches = {}
  BatchOf <- NoBatches
  Category <- TwoCategories
  OverQuota = {"audit"}
  QueueSize = 2
  BatchSize = 2
  MaxRetries = 0
  HealthCheckRetries = 0
  ResilientModes = {FALSE}
  AttemptCap = 0
  None = None
CHECK_DEADLOCK FALSE
PROPERTIES
  EntriesSettle
  CloseTerminates
