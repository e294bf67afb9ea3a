SPECIFICATION Spec
CONSTANTS
  Fault <- MCFault3
  FaultList <- MCFaultList3
  HasDiff <- MCFault3
  Written = {"area", "output"}
  TestMayFail = FALSE
  MayStall = TRUE
  PrepIsPrompt = TRUE
  ReuseContainer = TRUE
  MaxStops = 1
INVARIANTS
  NoForeignFiles
  OneTestAtATime
  MarkedMeansTimeout
  NotCutShort
PROPERTIES
  RunsOwnBinary
