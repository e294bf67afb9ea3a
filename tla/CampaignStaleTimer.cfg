SPECIFICATION Spec
CONSTANTS
  Fault <- MCFault2
  FaultList <- MCFaultList2
  HasDiff <- MCFault2
  Written = {}
  TestMayFail = TRUE
  MayStall = FALSE
  PrepIsPrompt = TRUE
  ReuseContainer = FALSE
  MaxStops = 0
INVARIANTS
  NotCutShort
