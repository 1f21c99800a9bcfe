\* Any calls, in any order.
CONSTANTS
  File = {f1, f2}
  Null = null
  HasStore = TRUE
  MaxCalls = 8
SYMMETRY Symmetry
SPECIFICATION LSpec
INVARIANTS LTypeOK InOrderAccepted NoMixing
PROPERTIES VerdictStands
\* The calls are bounded.
CHECK_DEADLOCK FALSE
