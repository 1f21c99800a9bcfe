\* One audit of up to two blocks, with missing and stale tags.
CONSTANTS
  GroupOrder = 5
  BlockIndex = {1, 2}
  Metadata = {1, 2}
  hashToCurve <- Hashes
  BlockScalar = {0, 3}
  KeyBytes = {0, 2, 3}
  CoeffBytes = {0, 1, 2, 4}
  Null = null
SPECIFICATION Spec
INVARIANTS TypeOK AggregateAgrees Complete SingleFaultRejected
\* The audit ends.
CHECK_DEADLOCK FALSE
