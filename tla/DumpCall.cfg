SPECIFICATION Spec
CONSTANTS
  Function <- MCFunction
  Traced <- MCTraced
  Lined <- MCLined
  MaxDepth = 5
  MaxCalls = 5
INVARIANTS
  TypeOK
  DumpedInCaller
  StackKnown
  MissedInside
PROPERTIES
  RefinesDumpLog
