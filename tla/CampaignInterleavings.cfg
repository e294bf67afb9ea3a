SPECIFICATION FairSpec
CONSTANTS
  Fault <- MCFault
  FaultList <- MCFaultList
  HasDiff <- MCHasDiff
  Written = {}
  TestMayFail = TRUE
  MayStall = TRUE
  PrepIsPrompt = FALSE
  ReuseContainer = TRUE
  MaxStops = 1
INVARIANTS
  TypeOK
  StaleTimersAreMarked
  UnmarkedEndedWell
  AllAccounted
PROPERTIES
  WaitEnds
  CampaignEnds
  StoredIsFinal
  RefinesLog
