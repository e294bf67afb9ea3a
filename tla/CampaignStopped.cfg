SPECIFICATION Spec
CONSTANTS
  Fault <- MCFault2
  FaultList <- MCFaultList2
  HasDiff <- MCFault2
  Written = {}
  TestMayFail = FALSE
  MayStall = FALSE
  PrepIsPrompt = TRUE
  ReuseContainer = FALSE
  MaxStops = 1
INVARIANTS
  SkippedIsStored
