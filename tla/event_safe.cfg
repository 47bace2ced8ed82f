SPECIFICATION Spec
CONSTANTS
  Objects = {1, 2, 3}
  MaxListeners = 3
  Roots = {E, F}
  Callers = {c}
  Keeping = {c}
  Null = Null
  MaxDepth = 2
  Reentrant = FALSE
SYMMETRY Symmetry
INVARIANTS
  TypeOK
  EventSound
  NoFault
  RunningListenerStays
PROPERTIES
  InvokeReaps
  ImplementsSignal
CHECK_DEADLOCK FALSE
