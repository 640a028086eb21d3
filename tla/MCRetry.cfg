SPECIFICATION RetryFairSpec
CONSTANTS
  Callers = {w1, w2}
  MaxRetries = 1
  HealthCheckRetries = 2
  ResilientModes = {TRUE, FALSE}
  AttemptCap = 0
INVARIANTS
  RetryTypeOK
  BudgetSpentExactly
  OneLateStartAtMost
PROPERTIES
  CancelEndsRetry
  RetryReturns
