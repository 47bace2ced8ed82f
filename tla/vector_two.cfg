SPECIFICATION Spec
CONSTANTS
  Vectors = {v, w}
  Heaps = {h1, h2, h3}
  Values = {x, y}
  Inputs <- MCInputs
  N = 1
  MaxCells = 3
  Triviality = {TRUE, FALSE}
  Careful = TRUE
  Junk = Junk
  Raw = Raw
  None = None
  Broken = Broken
  Null = Null
SYMMETRY Symmetry
INVARIANTS
  Sound
PROPERTIES
  ImplementsVectors
  ViewsStay
