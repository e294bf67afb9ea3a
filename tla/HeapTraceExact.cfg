SPECIFICATION Spec
CONSTANTS
  Addr <- MCAddr
  Size <- MCSize
  Site <- MCSite1
  SiteKey <- MCSiteKey1
  RedZone = 1
  OpenMayFail = FALSE
  OwnMuntrace = FALSE
  MaxLines = 3
  MaxDumps = 3
INVARIANTS
  TypeOK
  MirrorExact
  PointersResolve
