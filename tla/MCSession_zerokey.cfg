SPECIFICATION SessionSpec
CONSTANTS
  Workers = {w1}
  Direct = {}
  Renewers = {r1}
  Closers = {}
  MaxParts = 2
  MaxSessions = 2
SYMMETRY Symmetry
CHECK_DEADLOCK FALSE
INVARIANT SentUnderNamedKey
