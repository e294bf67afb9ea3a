SPECIFICATION Spec
CONSTANTS
  a1 = a1
  a2 = a2
  Area <- MCArea2
  MaxElems = 2
  NumVars = 1
  NumFields = 1
  Limits = {0}
  Refs = FALSE
  Opaque = FALSE
  Behind = FALSE
  MayFail = FALSE
  MaxDepth = 5
  MaxDumps = 1
SYMMETRY Symmetry2
INVARIANTS
  PrintedWasDumped
