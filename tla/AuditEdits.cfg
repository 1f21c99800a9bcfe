\* All edits, audits at any moment.
CONSTANTS
  Null = null
  SizeMax = 4
  Block <- OneSegment
  GroupOrder = 3
  Time = {0}
  Ops = {"Update", "Insert", "Delete"}
  MaxBlocks = 3
  MaxEdits = 2
  WindowSize = 2
  MaintainFirst = TRUE
SPECIFICATION PSpec
INVARIANTS PTypeOK IdleAuditable QuietAudit AcceptedIsFresh
PROPERTIES EditSettles StoreIsAtomicFile
