\* Two clients on one file, which is also removed and registered again.
CONSTANTS
  File = {f1}
  Coll = {c1}
  Obj = {o1, o2, o3, o4, o5}
  Null = null
  SizeMax = 5
  Time = {0}
  MaxVersion = 5
  MaxBlocks = 1
  t1 = t1
  t2 = t2
  Client = {t1, t2}
  MaxIndices <- Indices
  MaxRequests <- Requests
  Removals = TRUE
  Order = "safe"
SYMMETRY Symmetry
SPECIFICATION MSpec
INVARIANTS MTypeOK DoesWhatItNames FailsOnPrefix
PROPERTIES InsertLands BumpsWhatItFound
CHECK_DEADLOCK FALSE
