\* Arbitrary calls: every size_t argument, including 0 and gaps.
CONSTANTS
  File = {f1, f2}
  Coll = {c1, c2, c3}
  Obj = {o1, o2, o3, o4}
  Null = null
  SizeMax = 2
  Time = {0}
  MaxVersion = 2
  MaxBlocks = 2
SYMMETRY Symmetry
SPECIFICATION Spec
INVARIANTS TypeOK NoSharing
PROPERTIES Isolation VersionsGrow FilesAreAtomic
