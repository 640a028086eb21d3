SPECIFICATION LoggerSpec
CONSTANTS
  Constructors = {"client", "clientFromEnv", "resilient", "resilientFromEnv", "init"}
  Keys <- MCKeys
  Texts = {"", "-1", "1"}
  Ingestors = {in1, in2}
  MaxAttempts = 2
  Callers = {c1, c2}
  Calls = {"log", "send", "batch", "fatal", "close"}
  Messages = {"plain", "empty"}
  Prefixed = FALSE
  BufferSize = 2
  MaxCalls = 1
CHECK_DEADLOCK FALSE
INVARIANT CloseWaits
