SPECIFICATION Spec
CONSTANTS
  Pools = {P, Q}
  Blocks = {b1, b2, b3}
  Classes = {5, 6}
  Objects = {o1, o2, o3, o4}
  MaxDepth = 2
  Null = Null
  Careful = FALSE
SYMMETRY Symmetry
INVARIANTS
  PoolSound
PROPERTIES
  OnlyMisuseClashes
CHECK_DEADLOCK FALSE
