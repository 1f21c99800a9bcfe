\* The fileId is left out at verification.
CONSTANTS
  File = {f1, f2}
  Null = null
  HasStore = TRUE
  MaxCalls = 5
SYMMETRY Symmetry
SPECIFICATION LSpec
INVARIANTS FileIdFromContext
\* The calls are bounded.
CHECK_DEADLOCK FALSE
