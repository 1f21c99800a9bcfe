\* Threads that tag and challenge, next to one that edits or moves the file.
CONSTANTS
  Null = null
  SizeMax = 7
  t1 = t1
  t2 = t2
  Worker = {t1, t2}
  Scenes <- Kept
  MaxEdits = 2
  MaxBlock = 6
SPECIFICATION CSpec
INVARIANTS CTypeOK NoneFails MatchStore NothingLost RegistersNothing
PROPERTIES CopiesAreWhole Terminates MethodsAreAtomic
\* All threads end.
CHECK_DEADLOCK FALSE
