\* Calls as the 1-based interface means them.
CONSTANTS
  File = {f1, f2}
  Coll = {c1, c2, c3}
  Obj = {o1, o2, o3, o4}
  Null = null
  SizeMax = 3
  Time = {0, 1}
  MaxVersion = 2
  MaxBlocks = 3
SYMMETRY Symmetry
SPECIFICATION ListSpec
INVARIANTS Dense
PROPERTIES Refinement
