SPECIFICATION QueueFairSpec
CONSTANTS
  Consumers = {c1, c2, c3}
  Entries = {e1, e2}
  MaxSize = 2
  None = None
INVARIANTS
  QueueTypeOK
  NoLostWakeup
  NoSleepThroughShutdown
PROPERTIES
  NilOnlyWhenOver
  DrainedAfterClose
