SPECIFICATION Spec
CONSTANTS
  r1 = r1
  r2 = r2
  m1 = m1
  m2 = m2
  o1 = o1
  o2 = o2
  o3 = o3
  Slots <- MCSlots
  Objects <- MCObjects
  Keepers = {k1, k2, k3}
  Member <- MCMember
  MaxDepth = 4
  Null = Null
SYMMETRY Symmetry
INVARIANTS
  FaultMeansMisuse
  CountExact
  OnlyCyclesLeak
CHECK_DEADLOCK FALSE
