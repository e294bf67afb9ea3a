SPECIFICATION FairSpec
CONSTANTS
  Value <- MCValue
  VectorLimit = 4
  MaxItems = 12
INVARIANTS
  TypeOK
  LinkedListed
  ArraysListed
  TreesListed
  BitsListed
  AnnouncedIsListed
  ListingBounded
  ElementsFollowed
  LabelsMove
PROPERTIES
  PrintingEnds
