SPECIFICATION MiddlewareSpec
CONSTANTS
  Services <- MCServices
  Requests = {r1, r2}
  Levels = {"debug", "info", "panic", "fatal", "print"}
  MaxLogs = 1
CONSTRAINTS
  FiberAndOthers
SYMMETRY Symmetry
CHECK_DEADLOCK FALSE
INVARIANTS
  IntegrationTypeOK
  LoggersKeepApart
  EveryRequestTraced
  TraceConnected
