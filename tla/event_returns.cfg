SPECIFICATION FairSpec
CONSTANTS
  Objects = {1, 2}
  MaxListeners = 2
  Roots = {E, F}
  Callers = {c, d}
  Keeping = {c}
  Null = Null
  MaxDepth = 2
  Reentrant = FALSE
PROPERTIES
  LoopsReturn
  NoCallToTheDead
CHECK_DEADLOCK FALSE
