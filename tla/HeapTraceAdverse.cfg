SPECIFICATION Spec
CONSTANTS
  Addr <- MCAddr
  Size <- MCSize1
  Site <- MCSite
  SiteKey <- MCSiteKey
  RedZone = 1
  OpenMayFail = TRUE
  OwnMuntrace = TRUE
  MaxLines = 2
  MaxDumps = 2
INVARIANTS
  NumbersDistinct
  NothingMissing
