SPECIFICATION Spec
CONSTANTS
  N = 1
  MaxInt = 24
INVARIANTS
  TypeOK
  AmortisedCost
  NoWaste
PROPERTIES
  OnlyHugeSizesWrap
