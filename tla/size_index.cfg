SPECIFICATION Spec
CONSTANTS
  SizeOfSizeT = 8
  MaxSize = 2100
INVARIANTS
  TypeOK
  Smallest
CHECK_DEADLOCK FALSE
