SPECIFICATION Spec
CONSTANTS
  Objects = {o1, o2, o3}
  Roots = {A, B}
  Iters = {i}
  Null = Null
  Careful = FALSE
SYMMETRY Symmetry
INVARIANTS
  RingSound
PROPERTIES
  MisuseOnly
  ImplementsLists
  CallsKeepTheirPromise
CHECK_DEADLOCK FALSE
