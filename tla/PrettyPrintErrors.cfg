SPECIFICATION FairSpec
CONSTANTS
  a1 = a1
  a2 = a2
  Area <- MCArea2
  MaxElems = 1
  NumVars = 2
  NumFields = 1
  Limits = {0}
  Refs = TRUE
  Opaque = TRUE
  Behind = FALSE
  MayFail = TRUE
  MaxDepth = 5
  MaxDumps = 1
INVARIANTS
  VariablesPrinted
PROPERTIES
  DumpEnds
