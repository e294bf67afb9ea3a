SPECIFICATION Spec
CONSTANTS
  a1 = a1
  a2 = a2
  Area <- MCArea2
  MaxElems = 2
  NumVars = 1
  NumFields = 1
  Limits = {0, 1}
  Refs = FALSE
  Opaque = FALSE
  Behind = FALSE
  MayFail = TRUE
  MaxDepth = 5
  MaxDumps = 2
SYMMETRY Symmetry2
INVARIANTS
  TypeOK
  NothingDropped
  OutputBounded
  DepthBounded
  PrintedIsTrue
