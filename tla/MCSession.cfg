SPECIFICATION SessionSpec
CONSTANTS
  Workers = {w1}
  Direct = {d1}
  Renewers = {r1, r2}
  Closers = {k1, k2}
  MaxParts = 2
  MaxSessions = 3
SYMMETRY Symmetry
CHECK_DEADLOCK FALSE
INVARIANTS
  SessionTypeOK
  NeverAnotherSessionsKey
  NoStrayKeys
  CurrentKeyIsLive
  NothingSentUnderZeroKey
