SPECIFICATION Spec
CONSTANTS
  Value <- MCValue
  VectorLimit = 4
  MaxItems = 12
INVARIANTS
  ContainersShown
