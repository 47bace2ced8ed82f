SPECIFICATION Spec
CONSTANTS
  Vectors = {v}
  Heaps = {h1, h2}
  Values = {x, y}
  Inputs <- MCInputs
  N = 2
  MaxCells = 5
  Triviality = {TRUE, FALSE}
  Careful = FALSE
  Junk = Junk
  Raw = Raw
  None = None
  Broken = Broken
  Null = Null
SYMMETRY Symmetry
CONSTRAINT Sound
PROPERTIES
  OnlyMisuseBreaks
  CallsKeepTheirPromise
CHECK_DEADLOCK FALSE
