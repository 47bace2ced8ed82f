SPECIFICATION Spec
CONSTANTS
  Objects = {1, 2, 3}
  MaxListeners = 3
  Roots = {E, F}
  Callers = {c}
  Keeping = {}
  Null = Null
  MaxDepth = 2
  Reentrant = TRUE
SYMMETRY Symmetry
INVARIANTS
  EventSound
PROPERTIES
  OnlyLostLoopsFault
  OnlyNestedLoopsUnseat
CHECK_DEADLOCK FALSE
