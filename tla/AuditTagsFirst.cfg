\* generateTags() before maintenance().
CONSTANTS
  Null = null
  SizeMax = 3
  Block <- OneSegment
  GroupOrder = 3
  Time = {0, 1}
  Ops = {"Update"}
  MaxBlocks = 2
  MaxEdits = 1
  WindowSize = 3
  MaintainFirst = FALSE
SPECIFICATION PSpec
INVARIANTS IdleAuditable
