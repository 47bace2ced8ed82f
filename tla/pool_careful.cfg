SPECIFICATION Spec
CONSTANTS
  Pools = {P}
  Blocks = {b1, b2, b3, b4}
  Classes = {5, 6}
  Objects = {o1, o2, o3, o4}
  MaxDepth = 3
  Null = Null
  Careful = TRUE
SYMMETRY Symmetry
INVARIANTS
  MemoryIsTheirs
  PeakBound
PROPERTIES
  DestroyedOnce
