\* A block is registered while another is inserted or deleted.
CONSTANTS
  Null = null
  SizeMax = 4
  t1 = t1
  t2 = t2
  Worker = {t1, t2}
  Scenes <- Registering
  MaxEdits = 1
  MaxBlock = 3
SPECIFICATION CSpec
INVARIANTS NothingLost
\* All threads end.
CHECK_DEADLOCK FALSE
