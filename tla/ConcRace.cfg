\* Two threads that tag a new file at the same time.
CONSTANTS
  Null = null
  SizeMax = 3
  t1 = t1
  t2 = t2
  Worker = {t1, t2}
  Scenes <- Racing
  MaxEdits = 0
  MaxBlock = 3
SPECIFICATION CSpec
INVARIANTS NothingLost MatchStore
\* All threads end.
CHECK_DEADLOCK FALSE
