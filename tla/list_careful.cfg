SPECIFICATION Spec
CONSTANTS
  Objects = {o1, o2, o3, o4}
  Roots = {A, B}
  Iters = {i}
  Null = Null
  Careful = TRUE
SYMMETRY Symmetry
INVARIANTS
  TypeOK
  NoFault
  TraversalComplete
